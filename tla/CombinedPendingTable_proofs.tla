--------------------- MODULE CombinedPendingTable_proofs ---------------------
(***************************************************************************)
(* Proofs about CombinedPendingTable for any set of addresses, any number  *)
(* of slots and any number of sets, failures and resets.                   *)
(***************************************************************************)
EXTENDS CombinedPendingTable, WellFoundedInduction, SequenceTheorems, TLAPS

\* A nonempty set of natural numbers has a least element.
LEMMA LeastElementExists ==
  ASSUME NEW S \in SUBSET Nat, S # {}
  PROVE  \E x \in S : \A y \in S : x <= y
<1>1. \E x \in S : \A y \in S : ~(<<y, x>> \in OpToRel(<, Nat))
  BY NatLessThanWellFounded, WFMin
<1>2. \A x, y \in S : y < x => <<y, x>> \in OpToRel(<, Nat)
  BY DEF OpToRel
<1>3. \E x \in S : \A y \in S : ~(y < x)
  BY <1>1, <1>2, Zenon
<1> QED BY <1>3

(* Queues of messages whose keys increase.                                  *)
Elems(s) == {s[i] : i \in 1 .. Len(s)}

LEMMA EmptyElems == Elems(<<>>) = {}
  BY DEF Elems

LEMMA AppendElems ==
  ASSUME NEW S, NEW s \in Seq(S), NEW e \in S
  PROVE  /\ Append(s, e) \in Seq(S)
         /\ Elems(Append(s, e)) = Elems(s) \cup {e}
<1> DEFINE t == Append(s, e)
           n == Len(s)
<1>1. /\ t \in Seq(S) /\ Len(t) = n + 1 /\ n \in Nat
      /\ \A i \in 1 .. n : t[i] = s[i]
      /\ t[n + 1] = e
  BY AppendProperties, LenProperties
<1> HIDE DEF t, n
<1>2. 1 .. Len(t) = (1 .. n) \cup {n + 1}
  BY <1>1
<1>3. Elems(t) = Elems(s) \cup {e}
  BY <1>1, <1>2 DEF Elems, n
<1> QED BY <1>1, <1>3 DEF t

KeysIncrease(s) == \A i, j \in 1 .. Len(s) : i < j => s[i].key < s[j].key

LEMMA AppendIncrease ==
  ASSUME NEW S, NEW s \in Seq(S), NEW e \in S, KeysIncrease(s),
         \A x \in Elems(s) : x.key < e.key
  PROVE  KeysIncrease(Append(s, e))
<1> DEFINE t == Append(s, e)
           n == Len(s)
<1>1. /\ Len(t) = n + 1 /\ n \in Nat
      /\ \A i \in 1 .. n : t[i] = s[i]
      /\ t[n + 1] = e
  BY AppendProperties, LenProperties
<1>2. \A i \in 1 .. n : s[i].key < e.key
  BY DEF Elems
<1>3. \A i, j \in 1 .. n : i < j => s[i].key < s[j].key
  BY DEF KeysIncrease
<1> HIDE DEF t, n
<1> SUFFICES ASSUME NEW i \in 1 .. Len(t), NEW j \in 1 .. Len(t), i < j
             PROVE  t[i].key < t[j].key
  BY DEF KeysIncrease, t
<1>4. i \in 1 .. n /\ (j \in 1 .. n \/ j = n + 1)
  BY <1>1
<1>5. CASE j \in 1 .. n
  BY <1>1, <1>3, <1>4, <1>5
<1>6. CASE j = n + 1
  BY <1>1, <1>2, <1>4, <1>6
<1> QED BY <1>4, <1>5, <1>6

\* The first message has the least key.
LEMMA TailIncrease ==
  ASSUME NEW S, NEW s \in Seq(S), s # <<>>, KeysIncrease(s), \A x \in S : x.key \in Nat
  PROVE  /\ Tail(s) \in Seq(S) /\ Head(s) \in S /\ Head(s) \in Elems(s)
         /\ KeysIncrease(Tail(s))
         /\ Elems(s) = Elems(Tail(s)) \cup {Head(s)}
         /\ \A x \in Elems(Tail(s)) : Head(s).key < x.key
<1> DEFINE t == Tail(s)
           n == Len(s)
<1>1. /\ t \in Seq(S) /\ n \in Nat \ {0} /\ Len(t) = n - 1
      /\ \A i \in 1 .. Len(t) : t[i] = s[i + 1]
      /\ Head(s) = s[1] /\ Head(s) \in S
  BY HeadTailProperties, EmptySeq
<1>2. \A i, j \in 1 .. n : i < j => s[i].key < s[j].key
  BY DEF KeysIncrease
<1> HIDE DEF t, n
<1>3. /\ \A i \in 1 .. Len(t) : i + 1 \in 1 .. n /\ 1 < i + 1 /\ t[i] = s[i + 1]
      /\ \A i \in 1 .. n : i # 1 => i - 1 \in 1 .. Len(t) /\ t[i - 1] = s[i]
      /\ 1 \in 1 .. n
  <2>1. \A i \in 1 .. n : i # 1 => i - 1 \in 1 .. Len(t) /\ (i - 1) + 1 = i
    BY <1>1
  <2> QED BY <1>1, <2>1
<1>4. KeysIncrease(t)
  <2> SUFFICES ASSUME NEW i \in 1 .. Len(t), NEW j \in 1 .. Len(t), i < j
               PROVE  t[i].key < t[j].key
    BY DEF KeysIncrease
  <2>1. i + 1 \in 1 .. n /\ j + 1 \in 1 .. n /\ i + 1 < j + 1
    BY <1>3
  <2> QED BY <2>1, <1>2, <1>3
<1>5. \A x \in Elems(t) : x \in Elems(s) /\ Head(s).key < x.key
  BY <1>1, <1>2, <1>3 DEF Elems, n
<1>6. \A x \in Elems(s) : x \in Elems(t) \/ x = Head(s)
  BY <1>1, <1>3 DEF Elems, n
<1>7. Head(s) \in Elems(s)
  BY <1>1, <1>3 DEF Elems, n
<1> QED BY <1>1, <1>4, <1>5, <1>6, <1>7 DEF t

\* No key occurs twice.
LEMMA KeysDiffer ==
  ASSUME NEW S, NEW s \in Seq(S), KeysIncrease(s), \A x \in S : x.key \in Nat
  PROVE  \A x, y \in Elems(s) : x.key = y.key => x = y
<1> SUFFICES ASSUME NEW i \in 1 .. Len(s), NEW j \in 1 .. Len(s), s[i].key = s[j].key
             PROVE  s[i] = s[j]
  BY DEF Elems
<1>1. s[i] \in S /\ s[j] \in S
  BY ElementOfSeq
<1>2. s[i].key \in Nat
  BY <1>1
<1>3. ~(i < j) /\ ~(j < i)
  BY <1>2 DEF KeysIncrease
<1>4. i = j
  BY <1>3
<1> QED BY <1>4

LEMMA ElemsType ==
  ASSUME NEW S, NEW s \in Seq(S)
  PROVE  Elems(s) \subseteq S
  BY ElementOfSeq DEF Elems

-----------------------------------------------------------------------------
(* The inductive invariant.                                                 *)
Entries(V) == [dirty : BOOLEAN, value : SUBSET V]

IsTable(t, V) ==
  /\ t = [values |-> t.values, table |-> t.table, order |-> t.order, updating |-> t.updating]
  /\ t.table \in [Slots -> Entries(V)]
  /\ t.updating \in SUBSET (Nat \X Slots)

UpdateTypes(type, V) == [type : {type}, key : Nat, index : Slots, value : SUBSET V]
RequestTypes == [type : {"Init"}, key : Nat] \cup UpdateTypes("UpdateShort", ShortValues)
                  \cup UpdateTypes("UpdateExtended", ExtendedValues)
ResultTypes == [type : {"Init", "UpdateShort", "UpdateExtended"}, key : Nat, ok : BOOLEAN]

\* The shape of the state.
IsTables(cc) ==
  /\ cc = [initializing |-> cc.initializing, is_initialized |-> cc.is_initialized,
           none |-> cc.none, short |-> cc.short, extended |-> cc.extended]
  /\ cc.is_initialized \in BOOLEAN
  /\ IsTable(cc.short, ShortValues) /\ IsTable(cc.extended, ExtendedValues)

IsRadio(rr) ==
  /\ rr = [short |-> rr.short, extended |-> rr.extended]
  /\ rr.short \in [Slots -> SUBSET ShortValues]
  /\ rr.extended \in [Slots -> SUBSET ExtendedValues]

Shape ==
  /\ IsTables(c) /\ IsRadio(radio)
  /\ next_key \in Nat
  /\ requests \in Seq(RequestTypes) /\ results \in Seq(ResultTypes)

\* The link keeps the order of the keys.
Requests == Elems(requests)
Results == Elems(results)

LinkInv ==
  /\ KeysIncrease(requests) /\ KeysIncrease(results)
  /\ \A request \in Requests : request.key < next_key
  /\ \A result \in Results : result.key < next_key
  /\ \A request \in Requests, result \in Results : result.key < request.key

\* The update a table waits for is among the requests R, on its way to the radio
\* with the slot's value, or its result is among the results S, on its way back;
\* unless the slot was set again since.
InFlight(t, slots, type, key, i, R, S) ==
  \/ \E request \in R :
       /\ request.key = key /\ request.type = type /\ request.index = i
       /\ ~t.table[i].dirty => request.value = t.table[i].value
  \/ \E result \in S :
       /\ result.key = key /\ result.type = type
       /\ result.ok /\ ~t.table[i].dirty => slots[i] = t.table[i].value

Tracked(t, slots, type, R, S) ==
  \/ t.updating = {}
  \/ \E key \in Nat, i \in Slots :
       t.updating = {<<key, i>>} /\ InFlight(t, slots, type, key, i, R, S)

InStep(t, slots, type, R, S) == Tracked(t, slots, type, R, S) /\ Agrees(t, slots)

\* Once the tables are initialised nothing but their own updates is on its way.
AwaitedBy(t, type, request) ==
  request.type = type /\ t.updating = {<<request.key, request.index>>}

Initialised ==
  /\ c.initializing = {}
  /\ InStep(c.short, radio.short, "UpdateShort", Requests, Results)
  /\ InStep(c.extended, radio.extended, "UpdateExtended", Requests, Results)
  /\ \A request \in Requests : AwaitedBy(c.short, "UpdateShort", request)
                                 \/ AwaitedBy(c.extended, "UpdateExtended", request)

\* Before that no update is sent, and the initialisation is the last request of
\* all, those of the tables before a reset included.
Initialising(key, rr, R, S) ==
  \/ /\ \E request \in R : request.key = key /\ request.type = "Init"
     /\ \A request \in R : request.key <= key
  \/ /\ \E result \in S : /\ result.key = key /\ result.type = "Init"
                          /\ result.ok => rr = Cleared
     /\ R = {}

NotInitialised ==
  /\ c.short.updating = {} /\ c.extended.updating = {}
  /\ \/ c.initializing = {}
     \/ \E key \in Nat : c.initializing = {key} /\ Initialising(key, radio, Requests, Results)

IndInv ==
  /\ Shape /\ LinkInv
  /\ c.is_initialized => Initialised
  /\ ~c.is_initialized => NotInitialised

-----------------------------------------------------------------------------
(* The operations on a table.                                               *)

\* What the owner's calls do to a slot: nothing, or a new content marked dirty.
DirtyOrSame(new, old) ==
  /\ new.updating = old.updating
  /\ \A i \in Slots : new.table[i].dirty \/ new.table[i] = old.table[i]

LEMMA DefaultEntries ==
  ASSUME NEW V, NEW v \in V
  PROVE  /\ Default \in Entries(V) /\ Default.dirty /\ Default.value = {}
         /\ NewEntry(v) \in Entries(V) /\ NewEntry(v).dirty
  BY DEF Default, NewEntry, Entries

LEMMA NewTableShape ==
  ASSUME NEW V
  PROVE  IsTable(NewTable(Size), V) /\ NewTable(Size).updating = {}
<1>1. Default \in Entries(V)
  BY DEF Default, Entries
<1>2. [i \in 1 .. Size |-> Default] \in [Slots -> Entries(V)]
  BY <1>1 DEF Slots
<1> QED BY <1>2 DEF NewTable, IsTable

\* An entry that is put in a slot is dirty; order and values do not matter.
LEMMA PutEntry ==
  ASSUME NEW V, NEW t, IsTable(t, V), NEW index, NEW entry \in Entries(V), entry.dirty,
         NEW order, NEW values
  PROVE  LET new == [values |-> values, table |-> [t.table EXCEPT ![index] = entry],
                     order |-> order, updating |-> t.updating] IN
         IsTable(new, V) /\ DirtyOrSame(new, t)
<1> DEFINE table == [t.table EXCEPT ![index] = entry]
           new == [values |-> values, table |-> table, order |-> order, updating |-> t.updating]
<1>1. t.table \in [Slots -> Entries(V)] /\ t.updating \in SUBSET (Nat \X Slots)
  BY DEF IsTable
<1>2. /\ table \in [Slots -> Entries(V)]
      /\ \A i \in Slots : table[i].dirty \/ table[i] = t.table[i]
  BY <1>1
<1> HIDE DEF table
<1>3. new.values = values /\ new.table = table /\ new.order = order /\ new.updating = t.updating
  OBVIOUS
<1>4. IsTable(new, V)
  BY <1>1, <1>2, <1>3 DEF IsTable
<1>5. DirtyOrSame(new, t)
  BY <1>2, <1>3 DEF DirtyOrSame
<1> QED BY <1>4, <1>5 DEF table

LEMMA KeepEntries ==
  ASSUME NEW V, NEW t, IsTable(t, V), NEW order, NEW values
  PROVE  LET new == [values |-> values, table |-> t.table, order |-> order,
                     updating |-> t.updating] IN
         IsTable(new, V) /\ DirtyOrSame(new, t)
  BY DEF IsTable, DirtyOrSame

LEMMA SetValueShape ==
  ASSUME NEW V, NEW t, IsTable(t, V), NEW v \in V, NEW inserted \in BOOLEAN
  PROVE  IsTable(SetValue(t, v, inserted), V) /\ DirtyOrSame(SetValue(t, v, inserted), t)
<1>1. t = [values |-> t.values, table |-> t.table, order |-> t.order, updating |-> t.updating]
  BY DEF IsTable
<1>2. CASE inserted
  <2> DEFINE values == t.values \cup {v}
             u == [t EXCEPT !.values = values]
  <2>1. u = [values |-> values, table |-> t.table, order |-> t.order, updating |-> t.updating]
    BY <1>1
  <2>2. SetValue(t, v, inserted) = Promote(u, v) /\ v \in u.values
    BY <1>2, <2>1 DEF SetValue, InsertValue
  <2> HIDE DEF u, values
  <2>3. CASE SlotsOf(u, v) # {}
    <3> DEFINE order == PromoteIndex(u.order, GetIndex(u, v))
    <3>1. Promote(u, v) = [u EXCEPT !.order = order]
      BY <2>2, <2>3 DEF Promote
    <3> HIDE DEF order
    <3>2. Promote(u, v) = [values |-> values, table |-> t.table, order |-> order,
                           updating |-> t.updating]
      BY <2>1, <3>1
    <3> QED BY <2>2, <3>2, KeepEntries
  <2>4. CASE SlotsOf(u, v) = {}
    <3> DEFINE index == u.order[1]
               order == PromoteIndex(u.order, index)
               entry == NewEntry(v)
    <3>1. Promote(u, v) = [u EXCEPT !.table[index] = entry, !.order = order]
      BY <2>2, <2>4 DEF Promote, Overwrite
    <3>2. entry \in Entries(V) /\ entry.dirty
      BY DefaultEntries
    <3> HIDE DEF index, order, entry
    <3>3. Promote(u, v) = [values |-> values, table |-> [t.table EXCEPT ![index] = entry],
                           order |-> order, updating |-> t.updating]
      BY <2>1, <3>1
    <3> QED BY <2>2, <3>2, <3>3, PutEntry
  <2> QED BY <2>3, <2>4
<1>3. CASE ~inserted
  <2> DEFINE values == t.values \ {v}
             u == [t EXCEPT !.values = values]
             index == GetIndex(t, v)
  <2>1. u = [values |-> values, table |-> t.table, order |-> t.order, updating |-> t.updating]
    BY <1>1
  <2>2. SetValue(t, v, inserted) =
          IF v \in t.values /\ SlotsOf(t, v) # {} THEN FreeSlot(u, index) ELSE u
    BY <1>3 DEF SetValue, RemoveValue
  <2> HIDE DEF u, values, index
  <2>3. CASE v \in t.values /\ SlotsOf(t, v) # {}
    <3> DEFINE order == DemoteIndex(u.order, index)
               entry == Default
    <3>1. SetValue(t, v, inserted) = [u EXCEPT !.table[index] = entry, !.order = order]
      BY <2>2, <2>3 DEF FreeSlot
    <3>2. entry \in Entries(V) /\ entry.dirty
      BY DefaultEntries
    <3> HIDE DEF order, entry
    <3>3. SetValue(t, v, inserted) =
            [values |-> values, table |-> [t.table EXCEPT ![index] = entry],
             order |-> order, updating |-> t.updating]
      BY <2>1, <3>1
    <3> QED BY <3>2, <3>3, PutEntry
  <2>4. CASE ~(v \in t.values /\ SlotsOf(t, v) # {})
    <3>1. SetValue(t, v, inserted) =
            [values |-> values, table |-> t.table, order |-> t.order, updating |-> t.updating]
      BY <2>1, <2>2, <2>4
    <3> QED BY <3>1, KeepEntries
  <2> QED BY <2>3, <2>4
<1> QED BY <1>2, <1>3

\* The radio has cleared its slots: those with a value are to be sent.
LEMMA AssumeEmptyShape ==
  ASSUME NEW V, NEW t, IsTable(t, V)
  PROVE  LET new == AssumeEmpty(t) IN
         /\ IsTable(new, V) /\ new.updating = t.updating
         /\ \A i \in Slots : ~new.table[i].dirty => new.table[i].value = {}
<1> DEFINE table == [i \in Slots |-> [dirty |-> t.table[i].value # {}, value |-> t.table[i].value]]
           new == AssumeEmpty(t)
<1>1. /\ t = [values |-> t.values, table |-> t.table, order |-> t.order, updating |-> t.updating]
      /\ t.table \in [Slots -> Entries(V)] /\ DOMAIN t.table = Slots
      /\ t.updating \in SUBSET (Nat \X Slots)
  BY DEF IsTable
<1>2. \A i \in Slots :
        /\ [dirty |-> t.table[i].value # {}, value |-> t.table[i].value] \in Entries(V)
        /\ [dirty |-> t.table[i].value # {}, value |-> t.table[i].value].dirty
             <=> t.table[i].value # {}
  BY <1>1 DEF Entries
<1>3. /\ table \in [Slots -> Entries(V)]
      /\ \A i \in Slots : ~table[i].dirty => table[i].value = {}
  BY <1>2
<1>4. new = [t EXCEPT !.table = table]
  BY <1>1 DEF AssumeEmpty
<1> HIDE DEF table, new
<1>5. new = [values |-> t.values, table |-> table, order |-> t.order, updating |-> t.updating]
  BY <1>1, <1>4
<1>6. IsTable(new, V) /\ new.updating = t.updating /\ new.table = table
  BY <1>1, <1>3, <1>5 DEF IsTable
<1> QED BY <1>3, <1>6 DEF new

\* poll_update takes the first dirty slot.
LEMMA StartUpdateShape ==
  ASSUME NEW V, NEW t, IsTable(t, V), HasUpdate(t), NEW key \in Nat
  PROVE  LET new == StartUpdate(t, key)
             f == FirstDirty(t)
         IN  /\ f \in Slots /\ IsTable(new, V) /\ new.updating = {<<key, f>>}
             /\ ~new.table[f].dirty /\ new.table[f].value = t.table[f].value
             /\ \A i \in Slots : i # f => new.table[i] = t.table[i]
             /\ Update(t, key) = [token |-> key, index |-> f, value |-> t.table[f].value]
             /\ t.table[f].value \in SUBSET V
<1> DEFINE f == FirstDirty(t)
           new == StartUpdate(t, key)
           no == FALSE
           entry == [t.table[f] EXCEPT !.dirty = no]
           table == [t.table EXCEPT ![f] = entry]
           updating == {<<key, f>>}
<1>1. /\ t = [values |-> t.values, table |-> t.table, order |-> t.order, updating |-> t.updating]
      /\ t.table \in [Slots -> Entries(V)] /\ DOMAIN t.table = Slots
  BY DEF IsTable
<1>2. f \in Slots
  <2>1. DirtySlots(t) # {} /\ DirtySlots(t) \in SUBSET Nat /\ DirtySlots(t) \subseteq Slots
    BY <1>1 DEF HasUpdate, DirtySlots, Slots
  <2>2. \E i \in DirtySlots(t) : \A j \in DirtySlots(t) : i <= j
    BY <2>1, LeastElementExists
  <2>3. FirstDirty(t) \in DirtySlots(t)
    BY <2>2 DEF FirstDirty
  <2> QED BY <2>1, <2>3
<1>3. no \in BOOLEAN /\ ~no
  OBVIOUS
<1>4. new = [t EXCEPT !.table = table, !.updating = updating]
  BY <1>1 DEF StartUpdate
<1>5. updating \in SUBSET (Nat \X Slots)
  BY <1>2
<1>6. Update(t, key) = [token |-> key, index |-> f, value |-> t.table[f].value]
  BY DEF Update
<1> HIDE DEF f, new, no, updating
<1>7. entry \in Entries(V) /\ entry.dirty = no /\ entry.value = t.table[f].value
      /\ t.table[f].value \in SUBSET V
  <2>1. t.table[f] \in Entries(V)
    BY <1>1, <1>2
  <2>2. entry = [dirty |-> no, value |-> t.table[f].value]
    BY <2>1 DEF Entries
  <2> HIDE DEF entry
  <2> QED BY <1>3, <2>1, <2>2 DEF Entries
<1> HIDE DEF entry
<1>8. table \in [Slots -> Entries(V)] /\ table[f] = entry
      /\ \A i \in Slots : i # f => table[i] = t.table[i]
  BY <1>1, <1>2, <1>7
<1> HIDE DEF table
<1>9. new = [values |-> t.values, table |-> table, order |-> t.order, updating |-> updating]
  BY <1>1, <1>4
<1>10. new.values = t.values /\ new.table = table /\ new.order = t.order /\ new.updating = updating
  BY <1>9
<1>11. IsTable(new, V)
  BY <1>5, <1>8, <1>9, <1>10 DEF IsTable
<1>12. ~new.table[f].dirty /\ new.table[f].value = t.table[f].value
  BY <1>3, <1>7, <1>8, <1>10
<1> QED BY <1>2, <1>6, <1>7, <1>8, <1>10, <1>11, <1>12 DEF f, new, updating

\* A failed update makes its slot dirty again; a result of another update, and of
\* another table, changes nothing.
LEMMA ReportShape ==
  ASSUME NEW V, NEW t, IsTable(t, V), NEW key \in Nat, NEW ok \in BOOLEAN
  PROVE  LET new == ReportUpdateResult(t, key, ok) IN
         /\ IsTable(new, V)
         /\ (\A i \in Slots : <<key, i>> \notin t.updating) => new = t
         /\ \A i \in Slots : t.updating = {<<key, i>>} =>
              /\ new.updating = {}
              /\ \A j \in Slots : j # i \/ ok => new.table[j] = t.table[j]
              /\ ~ok => new.table[i].dirty
<1> DEFINE new == ReportUpdateResult(t, key, ok)
           yes == TRUE
           Redo(i) == [t.table[i] EXCEPT !.dirty = yes]
           table == [i \in Slots |-> IF <<key, i>> \in t.updating /\ ~ok THEN Redo(i)
                                     ELSE t.table[i]]
           none == {}
<1>1. /\ t = [values |-> t.values, table |-> t.table, order |-> t.order, updating |-> t.updating]
      /\ t.table \in [Slots -> Entries(V)] /\ DOMAIN t.table = Slots
  BY DEF IsTable
<1>2. CASE \A i \in Slots : <<key, i>> \notin t.updating
  <2>1. new = t
    BY <1>1, <1>2 DEF ReportUpdateResult
  <2>2. \A i \in Slots : t.updating # {<<key, i>>}
    BY <1>2
  <2> HIDE DEF new
  <2> QED BY <2>1, <2>2 DEF new
<1>3. CASE \E i \in Slots : <<key, i>> \in t.updating
  <2>1. new = [t EXCEPT !.updating = none, !.table = table]
    BY <1>1, <1>3 DEF ReportUpdateResult
  <2>2. yes \in BOOLEAN /\ yes /\ none \in SUBSET (Nat \X Slots) /\ none = {}
    OBVIOUS
  <2> HIDE DEF new, yes, none
  <2>3. ASSUME NEW i \in Slots PROVE Redo(i) \in Entries(V) /\ Redo(i).dirty
    <3>1. t.table[i] \in Entries(V)
      BY <1>1
    <3> DEFINE e == Redo(i)
    <3>2. e = [dirty |-> yes, value |-> t.table[i].value]
      BY <3>1 DEF Entries
    <3> HIDE DEF e
    <3>3. e \in Entries(V) /\ e.dirty = yes
      BY <2>2, <3>1, <3>2 DEF Entries
    <3> QED BY <2>2, <3>3 DEF e
  <2> HIDE DEF Redo
  <2>4. \A i \in Slots :
          table[i] = IF <<key, i>> \in t.updating /\ ~ok THEN Redo(i) ELSE t.table[i]
    OBVIOUS
  <2>5. table \in [Slots -> Entries(V)]
    BY <1>1, <2>3
  <2> HIDE DEF table
  <2>6. new = [values |-> t.values, table |-> table, order |-> t.order, updating |-> none]
    BY <1>1, <2>1
  <2>7. new.values = t.values /\ new.table = table /\ new.order = t.order /\ new.updating = none
    BY <2>6
  <2>8. IsTable(new, V)
    BY <2>2, <2>5, <2>6, <2>7 DEF IsTable
  <2>9. ASSUME NEW i \in Slots, t.updating = {<<key, i>>}
        PROVE  /\ new.updating = {}
               /\ \A j \in Slots : j # i \/ ok => new.table[j] = t.table[j]
               /\ ~ok => new.table[i].dirty
    <3>1. \A j \in Slots : <<key, j>> \in t.updating <=> j = i
      BY <2>9
    <3> QED BY <2>2, <2>3, <2>4, <2>7, <3>1
  <2> QED BY <1>3, <2>8, <2>9 DEF new
<1> QED BY <1>2, <1>3

-----------------------------------------------------------------------------
(* A table and its slots stay in step.                                      *)

\* A slot that is set is dirty, so what is on its way need not carry its value.
LEMMA SetInStep ==
  ASSUME NEW t, NEW new, NEW slots, NEW type, NEW R, NEW S,
         InStep(t, slots, type, R, S), DirtyOrSame(new, t)
  PROVE  InStep(new, slots, type, R, S)
<1>1. new.updating = t.updating /\ \A i \in Slots : new.table[i].dirty \/ new.table[i] = t.table[i]
  BY DEF DirtyOrSame
<1>2. Agrees(new, slots)
  BY <1>1 DEF InStep, Agrees
<1>3. ASSUME NEW key \in Nat, NEW i \in Slots, InFlight(t, slots, type, key, i, R, S)
      PROVE  InFlight(new, slots, type, key, i, R, S)
  BY <1>1, <1>3 DEF InFlight
<1>4. Tracked(new, slots, type, R, S)
  BY <1>1, <1>3 DEF InStep, Tracked
<1> QED BY <1>2, <1>4 DEF InStep

\* More requests and results do not matter.
LEMMA MoreInStep ==
  ASSUME NEW t, NEW slots, NEW type, NEW R, NEW S, NEW R2, NEW S2,
         InStep(t, slots, type, R, S), R \subseteq R2, S \subseteq S2
  PROVE  InStep(t, slots, type, R2, S2)
<1>1. ASSUME NEW key \in Nat, NEW i \in Slots, InFlight(t, slots, type, key, i, R, S)
      PROVE  InFlight(t, slots, type, key, i, R2, S2)
  BY <1>1 DEF InFlight
<1> QED BY <1>1 DEF InStep, Tracked

\* Nor does a request of another kind that the radio has worked on.
LEMMA OtherInStep ==
  ASSUME NEW t, NEW slots, NEW type, NEW R, NEW S, NEW R2, NEW S2, NEW h,
         InStep(t, slots, type, R, S), R \subseteq R2 \cup {h}, S \subseteq S2, h.type # type
  PROVE  InStep(t, slots, type, R2, S2)
<1>1. ASSUME NEW key \in Nat, NEW i \in Slots, InFlight(t, slots, type, key, i, R, S)
      PROVE  InFlight(t, slots, type, key, i, R2, S2)
  BY <1>1 DEF InFlight
<1> QED BY <1>1 DEF InStep, Tracked

\* The radio works on the update the table waits for: h leaves the requests, r is
\* one of the results, and the slot is written if r says so.
Worked(h, r, slots, new, R, S, R2, S2) ==
  /\ h.key \in Nat /\ h.index \in Slots
  /\ R \subseteq R2 \cup {h} /\ \A q \in S : q.key # h.key
  /\ r \in S2 /\ r.key = h.key /\ r.type = h.type
  /\ r.ok => new[h.index] = h.value
  /\ \A i \in Slots : i # h.index => new[i] = slots[i]

LEMMA OwnInStep ==
  ASSUME NEW t, NEW slots, NEW new, NEW type, NEW R, NEW S, NEW R2, NEW S2, NEW h, NEW r,
         InStep(t, slots, type, R, S), AwaitedBy(t, type, h), \A q \in R2 : q.key # h.key,
         Worked(h, r, slots, new, R, S, R2, S2)
  PROVE  InStep(t, new, type, R2, S2)
<1>0. /\ h.key \in Nat /\ h.index \in Slots
      /\ R \subseteq R2 \cup {h} /\ \A q \in S : q.key # h.key
      /\ r \in S2 /\ r.key = h.key /\ r.type = h.type
      /\ r.ok => new[h.index] = h.value
      /\ \A i \in Slots : i # h.index => new[i] = slots[i]
  BY DEF Worked
<1>1. t.updating = {<<h.key, h.index>>}
  BY DEF AwaitedBy
<1>2. Agrees(t, new)
  <2> SUFFICES ASSUME NEW i \in Slots, ~t.table[i].dirty, \A u \in t.updating : u[2] # i
               PROVE  new[i] = t.table[i].value
    BY DEF Agrees
  <2>1. i # h.index
    BY <1>1
  <2>2. slots[i] = t.table[i].value
    BY DEF InStep, Agrees
  <2> QED BY <1>0, <2>1, <2>2
<1>3. InFlight(t, slots, type, h.key, h.index, R, S)
  <2>1. PICK key \in Nat, i \in Slots :
          t.updating = {<<key, i>>} /\ InFlight(t, slots, type, key, i, R, S)
    BY <1>1 DEF InStep, Tracked
  <2>2. <<key, i>> = <<h.key, h.index>>
    BY <1>1, <2>1, Zenon
  <2>3. key = h.key /\ i = h.index
    BY <2>2
  <2> QED BY <2>1, <2>3
<1>4. ~t.table[h.index].dirty => h.value = t.table[h.index].value
  BY <1>0, <1>3 DEF InFlight
<1>5. InFlight(t, new, type, h.key, h.index, R2, S2)
  BY <1>0, <1>4 DEF InFlight, AwaitedBy
<1> QED BY <1>0, <1>1, <1>2, <1>5 DEF InStep, Tracked

\* A result is delivered: r, the only thing in the link with its key, leaves the
\* results.
Delivered(r, R, S, S2) ==
  /\ r.key \in Nat /\ r.ok \in BOOLEAN
  /\ S \subseteq S2 \cup {r} /\ \A q \in S : q.key = r.key => q = r
  /\ \A q \in R : q.key # r.key

LEMMA ReportInStep ==
  ASSUME NEW V, NEW t, IsTable(t, V), NEW slots, NEW type, NEW R, NEW S, NEW S2,
         NEW r, InStep(t, slots, type, R, S), Delivered(r, R, S, S2)
  PROVE  LET new == ReportUpdateResult(t, r.key, r.ok) IN
         /\ InStep(new, slots, type, R, S2)
         /\ \A q \in R : AwaitedBy(t, type, q) => AwaitedBy(new, type, q)
<1> DEFINE new == ReportUpdateResult(t, r.key, r.ok)
<1> USE DEF Delivered
<1>0. /\ (\A i \in Slots : <<r.key, i>> \notin t.updating) => new = t
      /\ \A i \in Slots : t.updating = {<<r.key, i>>} =>
           /\ new.updating = {}
           /\ \A j \in Slots : j # i \/ r.ok => new.table[j] = t.table[j]
           /\ ~r.ok => new.table[i].dirty
  BY ReportShape, SMTT(30)
<1> HIDE DEF new
<1>1. CASE t.updating = {}
  <2>1. new = t
    BY <1>0, <1>1
  <2> QED BY <1>1, <2>1 DEF InStep, Tracked, new
<1>2. ASSUME NEW key \in Nat, NEW i \in Slots, t.updating = {<<key, i>>},
             InFlight(t, slots, type, key, i, R, S), key # r.key
      PROVE  /\ InStep(new, slots, type, R, S2)
             /\ \A q \in R : AwaitedBy(t, type, q) => AwaitedBy(new, type, q)
  <2>1. \A j \in Slots : <<r.key, j>> # <<key, i>>
    BY <1>2
  <2>2. new = t
    BY <1>0, <1>2, <2>1
  <2>3. InFlight(t, slots, type, key, i, R, S2)
    BY <1>2 DEF InFlight
  <2> QED BY <1>2, <2>2, <2>3 DEF InStep, Tracked
<1>3. ASSUME NEW i \in Slots, t.updating = {<<r.key, i>>},
             InFlight(t, slots, type, r.key, i, R, S)
      PROVE  /\ InStep(new, slots, type, R, S2)
             /\ \A q \in R : AwaitedBy(t, type, q) => AwaitedBy(new, type, q)
  <2>1. /\ new.updating = {}
        /\ \A j \in Slots : j # i \/ r.ok => new.table[j] = t.table[j]
        /\ ~r.ok => new.table[i].dirty
    BY <1>0, <1>3
  <2>2. r.ok /\ ~t.table[i].dirty => slots[i] = t.table[i].value
    BY <1>3 DEF InFlight
  <2>3. \A j \in Slots : j # i /\ ~t.table[j].dirty => slots[j] = t.table[j].value
    <3> SUFFICES ASSUME NEW j \in Slots, j # i, ~t.table[j].dirty PROVE slots[j] = t.table[j].value
      OBVIOUS
    <3>1. \A u \in t.updating : u[2] # j
      BY <1>3
    <3> QED BY <3>1 DEF InStep, Agrees
  <2>4. Agrees(new, slots)
    BY <2>1, <2>2, <2>3 DEF Agrees
  <2>5. \A q \in R : ~AwaitedBy(t, type, q)
    <3> SUFFICES ASSUME NEW q \in R, t.updating = {<<q.key, q.index>>} PROVE FALSE
      BY DEF AwaitedBy
    <3>1. <<q.key, q.index>> = <<r.key, i>>
      BY <1>3, Zenon
    <3>2. q.key = r.key
      BY <3>1
    <3> QED BY <3>2
  <2> QED BY <2>1, <2>4, <2>5 DEF InStep, Tracked
<1>4. \/ t.updating = {}
      \/ \E key \in Nat, i \in Slots :
           t.updating = {<<key, i>>} /\ InFlight(t, slots, type, key, i, R, S)
  BY DEF InStep, Tracked
<1>5. /\ InStep(new, slots, type, R, S2)
      /\ \A q \in R : AwaitedBy(t, type, q) => AwaitedBy(new, type, q)
  BY <1>1, <1>2, <1>3, <1>4 DEF new
<1> QED BY <1>5 DEF new

-----------------------------------------------------------------------------
(* Init and the steps.                                                      *)
LEMMA NewTablesShape ==
  LET new == NewTables(Size) IN
  /\ IsTables(new) /\ new.initializing = {} /\ ~new.is_initialized
  /\ new.short.updating = {} /\ new.extended.updating = {}
<1> DEFINE t == NewTable(Size)
           new == NewTables(Size)
           no == FALSE
<1>1. IsTable(t, ShortValues) /\ IsTable(t, ExtendedValues) /\ t.updating = {}
  BY NewTableShape
<1>2. no \in BOOLEAN /\ ~no
  OBVIOUS
<1>3. new = [initializing |-> {}, is_initialized |-> no, none |-> no, short |-> t, extended |-> t]
  BY DEF NewTables
<1> HIDE DEF t, no, new
<1>4. /\ new.initializing = {} /\ new.is_initialized = no /\ new.none = no
      /\ new.short = t /\ new.extended = t
  BY <1>3
<1>5. new = [initializing |-> new.initializing, is_initialized |-> new.is_initialized,
             none |-> new.none, short |-> new.short, extended |-> new.extended]
  BY <1>3
<1>6. IsTables(new)
  BY <1>1, <1>2, <1>4, <1>5 DEF IsTables
<1> QED BY <1>1, <1>2, <1>4, <1>6 DEF new

LEMMA InitInv == Init => IndInv
<1> SUFFICES ASSUME Init PROVE IndInv
  OBVIOUS
<1>1. /\ IsTables(c) /\ c.initializing = {} /\ ~c.is_initialized
      /\ c.short.updating = {} /\ c.extended.updating = {}
  BY NewTablesShape DEF Init
<1>2. IsRadio(radio)
  <2>1. \A S : Options(S) \subseteq SUBSET S
    BY DEF Options
  <2>2. radio \in [short : [Slots -> Options(ShortValues)],
                   extended : [Slots -> Options(ExtendedValues)]]
    BY DEF Init
  <2>3. /\ radio = [short |-> radio.short, extended |-> radio.extended]
        /\ radio.short \in [Slots -> Options(ShortValues)]
        /\ radio.extended \in [Slots -> Options(ExtendedValues)]
    BY <2>2
  <2> QED BY <2>1, <2>3 DEF IsRadio
<1>3. Shape
  BY <1>1, <1>2 DEF Init, Shape
<1>4. LinkInv
  BY EmptyElems DEF Init, LinkInv, Requests, Results, KeysIncrease
<1> QED BY <1>1, <1>3, <1>4 DEF IndInv, NotInitialised

\* A set goes to one of the tables, or to none.
LEMMA SetAddressShape ==
  ASSUME NEW cc, IsTables(cc), NEW address \in Addresses, NEW inserted \in BOOLEAN
  PROVE  LET new == SetAddress(cc, address, inserted) IN
         /\ IsTables(new) /\ new.initializing = cc.initializing
         /\ new.is_initialized = cc.is_initialized
         /\ DirtyOrSame(new.short, cc.short) /\ DirtyOrSame(new.extended, cc.extended)
<1> DEFINE new == SetAddress(cc, address, inserted)
<1>0. /\ cc = [initializing |-> cc.initializing, is_initialized |-> cc.is_initialized,
               none |-> cc.none, short |-> cc.short, extended |-> cc.extended]
      /\ cc.is_initialized \in BOOLEAN
      /\ IsTable(cc.short, ShortValues) /\ IsTable(cc.extended, ExtendedValues)
  BY DEF IsTables
<1>1. address.mode \in {"None", "Short", "Extended"}
  BY CombinedPendingTableAssumption
<1>2. DirtyOrSame(cc.short, cc.short) /\ DirtyOrSame(cc.extended, cc.extended)
  BY DEF DirtyOrSame
<1>3. ASSUME NEW none, NEW short, NEW extended, IsTable(short, ShortValues),
             IsTable(extended, ExtendedValues),
             new = [initializing |-> cc.initializing, is_initialized |-> cc.is_initialized,
                    none |-> none, short |-> short, extended |-> extended]
      PROVE  /\ IsTables(new) /\ new.initializing = cc.initializing
             /\ new.is_initialized = cc.is_initialized
             /\ new.short = short /\ new.extended = extended
  <2> HIDE DEF new
  <2> QED BY <1>0, <1>3 DEF IsTables
<1>4. CASE address.mode = "None"
  <2>1. new = [cc EXCEPT !.none = inserted]
    BY <1>4 DEF SetAddress
  <2>2. new = [initializing |-> cc.initializing, is_initialized |-> cc.is_initialized,
               none |-> inserted, short |-> cc.short, extended |-> cc.extended]
    BY <1>0, <2>1
  <2> QED BY <1>0, <1>2, <1>3, <2>2
<1>5. CASE address.mode = "Short"
  <2> DEFINE v == <<address.pan_id, address.address>>
             short == SetValue(cc.short, v, inserted)
  <2>1. v \in ShortValues
    BY <1>5 DEF ShortValues
  <2>2. IsTable(short, ShortValues) /\ DirtyOrSame(short, cc.short)
    BY <1>0, <2>1, SetValueShape
  <2>3. new = [cc EXCEPT !.short = short]
    BY <1>5 DEF SetAddress
  <2> HIDE DEF short
  <2>4. new = [initializing |-> cc.initializing, is_initialized |-> cc.is_initialized,
               none |-> cc.none, short |-> short, extended |-> cc.extended]
    BY <1>0, <2>3
  <2> QED BY <1>0, <1>2, <1>3, <2>2, <2>4
<1>6. CASE address.mode = "Extended"
  <2> DEFINE v == address.address
             extended == SetValue(cc.extended, v, inserted)
  <2>1. v \in ExtendedValues
    BY <1>6 DEF ExtendedValues
  <2>2. IsTable(extended, ExtendedValues) /\ DirtyOrSame(extended, cc.extended)
    BY <1>0, <2>1, SetValueShape
  <2>3. new = [cc EXCEPT !.extended = extended]
    BY <1>6 DEF SetAddress
  <2> HIDE DEF extended
  <2>4. new = [initializing |-> cc.initializing, is_initialized |-> cc.is_initialized,
               none |-> cc.none, short |-> cc.short, extended |-> extended]
    BY <1>0, <2>3
  <2> QED BY <1>0, <1>2, <1>3, <2>2, <2>4
<1> QED BY <1>1, <1>4, <1>5, <1>6

LEMMA SetKeepsInv ==
  ASSUME IndInv, NEW address \in Addresses, NEW inserted \in BOOLEAN, Set(address, inserted)
  PROVE  IndInv'
<1>1. /\ c' = SetAddress(c, address, inserted)
      /\ UNCHANGED <<next_key, requests, results, radio>>
  BY DEF Set
<1>2. /\ IsTables(c') /\ c'.initializing = c.initializing
      /\ c'.is_initialized = c.is_initialized
      /\ DirtyOrSame(c'.short, c.short) /\ DirtyOrSame(c'.extended, c.extended)
  BY <1>1, SetAddressShape DEF IndInv, Shape
<1>3. Requests' = Requests /\ Results' = Results
  BY <1>1 DEF Requests, Results
<1>4. Shape' /\ LinkInv'
  BY <1>1, <1>2, <1>3 DEF IndInv, Shape, LinkInv
<1>5. c'.short.updating = c.short.updating /\ c'.extended.updating = c.extended.updating
  BY <1>2 DEF DirtyOrSame
<1>6. ASSUME c.is_initialized PROVE Initialised'
  <2>1. InStep(c'.short, radio'.short, "UpdateShort", Requests', Results')
    BY <1>1, <1>2, <1>3, <1>6, SetInStep DEF IndInv, Initialised
  <2>2. InStep(c'.extended, radio'.extended, "UpdateExtended", Requests', Results')
    BY <1>1, <1>2, <1>3, <1>6, SetInStep DEF IndInv, Initialised
  <2>3. \A request \in Requests' : AwaitedBy(c'.short, "UpdateShort", request)
                                     \/ AwaitedBy(c'.extended, "UpdateExtended", request)
    BY <1>3, <1>5, <1>6 DEF IndInv, Initialised, AwaitedBy
  <2> QED BY <1>2, <1>6, <2>1, <2>2, <2>3 DEF IndInv, Initialised
<1>7. ASSUME ~c.is_initialized PROVE NotInitialised'
  BY <1>1, <1>2, <1>3, <1>5, <1>7 DEF IndInv, NotInitialised
<1> QED BY <1>2, <1>4, <1>6, <1>7 DEF IndInv

LEMMA ResetKeepsInv == IndInv /\ Reset => IndInv'
<1> SUFFICES ASSUME IndInv, Reset PROVE IndInv'
  OBVIOUS
<1>1. c' = NewTables(Size) /\ UNCHANGED <<next_key, requests, results, radio>>
  BY DEF Reset
<1>2. /\ IsTables(c') /\ c'.initializing = {} /\ ~c'.is_initialized
      /\ c'.short.updating = {} /\ c'.extended.updating = {}
  BY <1>1, NewTablesShape
<1>3. Requests' = Requests /\ Results' = Results
  BY <1>1 DEF Requests, Results
<1>4. Shape' /\ LinkInv'
  BY <1>1, <1>2, <1>3 DEF IndInv, Shape, LinkInv
<1> QED BY <1>2, <1>4 DEF IndInv, NotInitialised

-----------------------------------------------------------------------------
(* The link.                                                                *)
LEMMA LinkTypes ==
  /\ \A r \in RequestTypes : r.key \in Nat /\ r.type \in {"Init", "UpdateShort", "UpdateExtended"}
  /\ \A r \in RequestTypes :
       r.type = "UpdateShort" => r.index \in Slots /\ r.value \in SUBSET ShortValues
  /\ \A r \in RequestTypes :
       r.type = "UpdateExtended" => r.index \in Slots /\ r.value \in SUBSET ExtendedValues
  /\ \A r \in ResultTypes : /\ r.key \in Nat /\ r.ok \in BOOLEAN
                            /\ r.type \in {"Init", "UpdateShort", "UpdateExtended"}
<1>1. \A r \in RequestTypes :
        \/ r \in [type : {"Init"}, key : Nat]
        \/ r \in [type : {"UpdateShort"}, key : Nat, index : Slots, value : SUBSET ShortValues]
        \/ r \in [type : {"UpdateExtended"}, key : Nat, index : Slots,
                  value : SUBSET ExtendedValues]
  BY DEF RequestTypes, UpdateTypes
<1> QED BY <1>1 DEF ResultTypes

\* A request is sent with the greatest key yet.
LEMMA SentLink ==
  ASSUME Shape, LinkInv, NEW r \in RequestTypes, r.key = next_key,
         requests' = Append(requests, r), next_key' = next_key + 1, results' = results
  PROVE  /\ LinkInv' /\ Requests' = Requests \cup {r} /\ Results' = Results
         /\ requests' \in Seq(RequestTypes) /\ results' \in Seq(ResultTypes) /\ next_key' \in Nat
<1>1. /\ next_key \in Nat /\ requests \in Seq(RequestTypes) /\ results \in Seq(ResultTypes)
      /\ Requests \subseteq RequestTypes /\ Results \subseteq ResultTypes
  BY ElemsType DEF Shape, Requests, Results
<1>2. /\ \A q \in Requests : q.key \in Nat
      /\ \A q \in Results : q.key \in Nat
  BY <1>1, LinkTypes
<1>3. requests' \in Seq(RequestTypes) /\ Requests' = Requests \cup {r} /\ Results' = Results
  BY <1>1, AppendElems DEF Requests, Results
<1>4. KeysIncrease(requests')
  BY <1>1, AppendIncrease DEF LinkInv, Requests
<1>5. /\ \A request \in Requests' : request.key < next_key'
      /\ \A result \in Results' : result.key < next_key'
      /\ \A request \in Requests', result \in Results' : result.key < request.key
  BY <1>1, <1>2, <1>3 DEF LinkInv
<1>6. LinkInv'
  BY <1>4, <1>5 DEF LinkInv
<1> QED BY <1>1, <1>3, <1>6

\* The oldest request is answered.
LEMMA AnsweredLink ==
  ASSUME Shape, LinkInv, NEW ok \in BOOLEAN, Answer(ok)
  PROVE  LET h == Head(requests)
             r == [type |-> Head(requests).type, key |-> Head(requests).key, ok |-> ok]
         IN  /\ LinkInv' /\ Requests = Requests' \cup {h} /\ Results' = Results \cup {r}
             /\ requests' \in Seq(RequestTypes) /\ results' \in Seq(ResultTypes)
             /\ h \in RequestTypes /\ h \in Requests
             /\ \A q \in Requests' : h.key < q.key
             /\ \A q \in Results : q.key # h.key
<1> DEFINE h == Head(requests)
           r == [type |-> Head(requests).type, key |-> Head(requests).key, ok |-> ok]
<1>1. /\ next_key \in Nat /\ requests \in Seq(RequestTypes) /\ results \in Seq(ResultTypes)
      /\ requests # <<>> /\ requests' = Tail(requests) /\ results' = Append(results, r)
      /\ next_key' = next_key
      /\ Requests \subseteq RequestTypes /\ Results \subseteq ResultTypes
  BY ElemsType DEF Shape, Answer, Requests, Results
<1>2. /\ \A q \in RequestTypes : q.key \in Nat
      /\ \A q \in ResultTypes : q.key \in Nat
  BY LinkTypes
<1>3. /\ requests' \in Seq(RequestTypes) /\ h \in RequestTypes /\ h \in Requests
      /\ KeysIncrease(requests')
      /\ Requests = Requests' \cup {h}
      /\ \A q \in Requests' : h.key < q.key
  BY <1>1, <1>2, TailIncrease DEF LinkInv, Requests
<1>4. r \in ResultTypes /\ r.key = h.key
  BY <1>3, LinkTypes DEF ResultTypes
<1> HIDE DEF h, r
<1>5. \A q \in Results : q.key < h.key
  BY <1>3 DEF LinkInv
<1>6. results' \in Seq(ResultTypes) /\ Results' = Results \cup {r} /\ KeysIncrease(results')
  BY <1>1, <1>4, <1>5, AppendElems, AppendIncrease DEF LinkInv, Results
<1>7. /\ \A request \in Requests' : request.key < next_key'
      /\ \A result \in Results' : result.key < next_key'
      /\ \A request \in Requests', result \in Results' : result.key < request.key
  BY <1>1, <1>3, <1>4, <1>5, <1>6 DEF LinkInv
<1>8. LinkInv'
  BY <1>3, <1>6, <1>7 DEF LinkInv
<1>9. \A q \in Results : q.key # h.key
  BY <1>1, <1>2, <1>3, <1>5
<1> QED BY <1>3, <1>6, <1>8, <1>9 DEF h, r

\* The oldest result is delivered.
LEMMA DeliveredLink ==
  ASSUME Shape, LinkInv, results # <<>>, results' = Tail(results),
         UNCHANGED <<requests, next_key>>
  PROVE  LET r == Head(results)
         IN  /\ LinkInv' /\ Requests' = Requests /\ Results = Results' \cup {r}
             /\ results' \in Seq(ResultTypes) /\ r \in ResultTypes /\ r \in Results
             /\ \A q \in Requests : q.key # r.key
             /\ \A q \in Results : q.key = r.key => q = r
<1> DEFINE r == Head(results)
<1>1. /\ next_key \in Nat /\ requests \in Seq(RequestTypes) /\ results \in Seq(ResultTypes)
      /\ Requests \subseteq RequestTypes /\ Results \subseteq ResultTypes
  BY ElemsType DEF Shape, Requests, Results
<1>2. /\ \A q \in RequestTypes : q.key \in Nat
      /\ \A q \in ResultTypes : q.key \in Nat
  BY LinkTypes
<1>3. /\ results' \in Seq(ResultTypes) /\ r \in ResultTypes /\ r \in Results
      /\ KeysIncrease(results')
      /\ Results = Results' \cup {r}
  BY <1>1, <1>2, TailIncrease DEF LinkInv, Results
<1>4. \A q \in Results : q.key = r.key => q = r
  BY <1>1, <1>2, <1>3, KeysDiffer DEF LinkInv, Results
<1> HIDE DEF r
<1>5. Requests' = Requests
  BY DEF Requests
<1>6. LinkInv'
  BY <1>3, <1>5 DEF LinkInv
<1>7. \A q \in Requests : q.key # r.key
  BY <1>1, <1>2, <1>3 DEF LinkInv
<1> QED BY <1>3, <1>4, <1>5, <1>6, <1>7 DEF r

-----------------------------------------------------------------------------
(* poll_action                                                              *)
LEMMA StartInStep ==
  ASSUME NEW V, NEW t, IsTable(t, V), HasUpdate(t), NEW key \in Nat,
         NEW slots, NEW type, NEW R, NEW S, NEW R2, NEW r \in R2,
         InStep(t, slots, type, R, S),
         r.key = key, r.type = type, r.index = FirstDirty(t),
         r.value = t.table[FirstDirty(t)].value
  PROVE  InStep(StartUpdate(t, key), slots, type, R2, S)
<1> DEFINE f == FirstDirty(t)
           new == StartUpdate(t, key)
<1>1. /\ f \in Slots /\ new.updating = {<<key, f>>}
      /\ ~new.table[f].dirty /\ new.table[f].value = t.table[f].value
      /\ \A i \in Slots : i # f => new.table[i] = t.table[i]
  BY StartUpdateShape
<1> HIDE DEF f, new
<1>2. InFlight(new, slots, type, key, f, R2, S)
  BY <1>1 DEF InFlight, f
<1>3. Agrees(new, slots)
  <2> SUFFICES ASSUME NEW i \in Slots, ~new.table[i].dirty, \A u \in new.updating : u[2] # i
               PROVE  slots[i] = new.table[i].value
    BY DEF Agrees
  <2>1. i # f
    BY <1>1
  <2>2. new.table[i] = t.table[i] /\ \A u \in t.updating : u[2] # i
    BY <1>1, <2>1 DEF HasUpdate
  <2> QED BY <2>2 DEF InStep, Agrees
<1>4. InStep(new, slots, type, R2, S)
  BY <1>1, <1>2, <1>3 DEF InStep, Tracked
<1> QED BY <1>4 DEF new

LEMMA PollKeepsInv == IndInv /\ Poll => IndInv'
<1> SUFFICES ASSUME IndInv, Poll PROVE IndInv'
  OBVIOUS
<1> DEFINE polled == PollTables(c, next_key)
           r == polled.action
<1>1. /\ polled.action # NoUpdate /\ c' = polled.tables /\ requests' = Append(requests, r)
      /\ next_key' = next_key + 1 /\ UNCHANGED <<results, radio>>
  BY DEF Poll
<1>2. Shape /\ LinkInv /\ next_key \in Nat /\ IsTables(c) /\ IsRadio(radio)
  BY DEF IndInv, Shape
<1>3. /\ c = [initializing |-> c.initializing, is_initialized |-> c.is_initialized,
              none |-> c.none, short |-> c.short, extended |-> c.extended]
      /\ c.is_initialized \in BOOLEAN
      /\ IsTable(c.short, ShortValues) /\ IsTable(c.extended, ExtendedValues)
  BY <1>2 DEF IsTables
<1>4. c.initializing = {}
  BY <1>1 DEF PollTables
<1>5. CASE ~c.is_initialized
  <2> DEFINE keys == {next_key}
  <2>1. c' = [c EXCEPT !.initializing = keys] /\ r = [type |-> "Init", key |-> next_key]
    BY <1>1, <1>4, <1>5 DEF PollTables, StartInit, InitTables
  <2>2. r \in RequestTypes /\ r.key = next_key /\ r.type = "Init"
    BY <1>2, <2>1 DEF RequestTypes
  <2> HIDE DEF r, polled, keys
  <2>3. c' = [initializing |-> keys, is_initialized |-> c.is_initialized,
              none |-> c.none, short |-> c.short, extended |-> c.extended]
    BY <1>3, <2>1
  <2>4. /\ IsTables(c') /\ c'.initializing = keys /\ c'.is_initialized = c.is_initialized
        /\ c'.short = c.short /\ c'.extended = c.extended
    BY <1>3, <2>3 DEF IsTables
  <2>5. /\ LinkInv' /\ Requests' = Requests \cup {r} /\ Results' = Results
        /\ requests' \in Seq(RequestTypes) /\ results' \in Seq(ResultTypes) /\ next_key' \in Nat
    BY <1>1, <1>2, <2>2, SentLink
  <2>6. Shape'
    BY <1>1, <1>2, <2>4, <2>5 DEF Shape
  <2>7. PICK key \in Nat : key = next_key
    BY <1>2
  <2>8. \A request \in Requests' : request.key <= key
    <3>1. \A request \in Requests : request.key < key /\ request.key \in Nat
      <4>1. Requests \subseteq RequestTypes
        BY <1>2, ElemsType DEF Shape, Requests
      <4> QED BY <1>2, <2>7, <4>1, LinkTypes DEF LinkInv
    <3> QED BY <2>2, <2>5, <2>7, <3>1
  <2>9. Initialising(key, radio', Requests', Results')
    BY <2>2, <2>5, <2>7, <2>8 DEF Initialising
  <2>10. c'.initializing = {key}
    BY <2>4, <2>7 DEF keys
  <2>11. NotInitialised'
    BY <1>5, <2>4, <2>9, <2>10 DEF IndInv, NotInitialised
  <2> QED BY <1>5, <2>4, <2>5, <2>6, <2>11 DEF IndInv
<1>6. CASE c.is_initialized /\ HasUpdate(c.short)
  <2> DEFINE short == StartUpdate(c.short, next_key)
             f == FirstDirty(c.short)
  <2>0. /\ f \in Slots /\ IsTable(short, ShortValues) /\ short.updating = {<<next_key, f>>}
        /\ Update(c.short, next_key) = [token |-> next_key, index |-> f,
                                        value |-> c.short.table[f].value]
        /\ c.short.table[f].value \in SUBSET ShortValues
    BY <1>2, <1>3, <1>6, StartUpdateShape
  <2>1. polled = [tables |-> [c EXCEPT !.short = short],
                  action |-> UpdateShort(Update(c.short, next_key))]
    BY <1>4, <1>6 DEF PollTables, PollUpdates
  <2>2. c' = [c EXCEPT !.short = short] /\ r = UpdateShort(Update(c.short, next_key))
    BY <1>1, <2>1
  <2> HIDE DEF polled, short, f, r
  <2>3. r = [type |-> "UpdateShort", key |-> next_key, index |-> f,
             value |-> c.short.table[f].value]
    BY <2>0, <2>2 DEF UpdateShort
  <2>4. /\ r \in RequestTypes /\ r.key = next_key /\ r.type = "UpdateShort" /\ r.index = f
        /\ r.value = c.short.table[f].value
    BY <1>2, <2>0, <2>3 DEF RequestTypes, UpdateTypes
  <2>5. c' = [initializing |-> c.initializing, is_initialized |-> c.is_initialized,
              none |-> c.none, short |-> short, extended |-> c.extended]
    BY <1>3, <2>2
  <2>6. /\ IsTables(c') /\ c'.initializing = {} /\ c'.is_initialized = c.is_initialized
        /\ c'.short = short /\ c'.extended = c.extended
    BY <1>3, <1>4, <2>0, <2>5 DEF IsTables
  <2>7. /\ LinkInv' /\ Requests' = Requests \cup {r} /\ Results' = Results
        /\ requests' \in Seq(RequestTypes) /\ results' \in Seq(ResultTypes) /\ next_key' \in Nat
    BY <1>1, <1>2, <2>4, SentLink
  <2>8. Shape'
    BY <1>1, <1>2, <2>6, <2>7 DEF Shape
  <2>9. Initialised
    BY <1>6 DEF IndInv
  <2>10. InStep(short, radio.short, "UpdateShort", Requests', Results)
    BY <1>2, <1>3, <1>6, <2>4, <2>7, <2>9, StartInStep DEF Initialised, f, short
  <2>11. InStep(c.extended, radio.extended, "UpdateExtended", Requests', Results)
    BY <2>7, <2>9, MoreInStep DEF Initialised
  <2>12. \A request \in Requests' : AwaitedBy(short, "UpdateShort", request)
                                      \/ AwaitedBy(c.extended, "UpdateExtended", request)
    <3>1. AwaitedBy(short, "UpdateShort", r)
      BY <2>0, <2>4 DEF AwaitedBy
    <3>2. \A request \in Requests : AwaitedBy(c.extended, "UpdateExtended", request)
      BY <1>6, <2>9 DEF Initialised, AwaitedBy, HasUpdate
    <3> QED BY <2>7, <3>1, <3>2
  <2>13. Initialised'
    BY <1>1, <2>6, <2>7, <2>10, <2>11, <2>12 DEF Initialised
  <2> QED BY <1>6, <2>6, <2>7, <2>8, <2>13 DEF IndInv
<1>7. CASE c.is_initialized /\ ~HasUpdate(c.short) /\ HasUpdate(c.extended)
  <2> DEFINE extended == StartUpdate(c.extended, next_key)
             f == FirstDirty(c.extended)
  <2>0. /\ f \in Slots /\ IsTable(extended, ExtendedValues)
        /\ extended.updating = {<<next_key, f>>}
        /\ Update(c.extended, next_key) = [token |-> next_key, index |-> f,
                                           value |-> c.extended.table[f].value]
        /\ c.extended.table[f].value \in SUBSET ExtendedValues
    BY <1>2, <1>3, <1>7, StartUpdateShape
  <2>1. polled = [tables |-> [c EXCEPT !.extended = extended],
                  action |-> UpdateExtended(Update(c.extended, next_key))]
    BY <1>4, <1>7 DEF PollTables, PollUpdates
  <2>2. c' = [c EXCEPT !.extended = extended] /\ r = UpdateExtended(Update(c.extended, next_key))
    BY <1>1, <2>1
  <2> HIDE DEF polled, extended, f, r
  <2>3. r = [type |-> "UpdateExtended", key |-> next_key, index |-> f,
             value |-> c.extended.table[f].value]
    BY <2>0, <2>2 DEF UpdateExtended
  <2>4. /\ r \in RequestTypes /\ r.key = next_key /\ r.type = "UpdateExtended" /\ r.index = f
        /\ r.value = c.extended.table[f].value
    BY <1>2, <2>0, <2>3 DEF RequestTypes, UpdateTypes
  <2>5. c' = [initializing |-> c.initializing, is_initialized |-> c.is_initialized,
              none |-> c.none, short |-> c.short, extended |-> extended]
    BY <1>3, <2>2
  <2>6. /\ IsTables(c') /\ c'.initializing = {} /\ c'.is_initialized = c.is_initialized
        /\ c'.short = c.short /\ c'.extended = extended
    BY <1>3, <1>4, <2>0, <2>5 DEF IsTables
  <2>7. /\ LinkInv' /\ Requests' = Requests \cup {r} /\ Results' = Results
        /\ requests' \in Seq(RequestTypes) /\ results' \in Seq(ResultTypes) /\ next_key' \in Nat
    BY <1>1, <1>2, <2>4, SentLink
  <2>8. Shape'
    BY <1>1, <1>2, <2>6, <2>7 DEF Shape
  <2>9. Initialised
    BY <1>7 DEF IndInv
  <2>10. InStep(extended, radio.extended, "UpdateExtended", Requests', Results)
    BY <1>2, <1>3, <1>7, <2>4, <2>7, <2>9, StartInStep DEF Initialised, f, extended
  <2>11. InStep(c.short, radio.short, "UpdateShort", Requests', Results)
    BY <2>7, <2>9, MoreInStep DEF Initialised
  <2>12. \A request \in Requests' : AwaitedBy(c.short, "UpdateShort", request)
                                      \/ AwaitedBy(extended, "UpdateExtended", request)
    <3>1. AwaitedBy(extended, "UpdateExtended", r)
      BY <2>0, <2>4 DEF AwaitedBy
    <3>2. \A request \in Requests : AwaitedBy(c.short, "UpdateShort", request)
      BY <1>7, <2>9 DEF Initialised, AwaitedBy, HasUpdate
    <3> QED BY <2>7, <3>1, <3>2
  <2>13. Initialised'
    BY <1>1, <2>6, <2>7, <2>10, <2>11, <2>12 DEF Initialised
  <2> QED BY <1>7, <2>6, <2>7, <2>8, <2>13 DEF IndInv
<1>8. CASE c.is_initialized /\ ~HasUpdate(c.short) /\ ~HasUpdate(c.extended)
  BY <1>1, <1>4, <1>8 DEF PollTables, PollUpdates
<1> QED BY <1>3, <1>5, <1>6, <1>7, <1>8

-----------------------------------------------------------------------------
(* The radio executes a request or fails it.                                *)

\* The device writes the slot it is asked to, or clears all of them.
LEMMA ExecuteShape ==
  ASSUME IsRadio(radio), NEW h \in RequestTypes, Execute(h)
  PROVE  /\ IsRadio(radio')
         /\ h.type = "Init" => radio' = Cleared
         /\ h.type = "UpdateShort" =>
              /\ radio'.extended = radio.extended /\ radio'.short[h.index] = h.value
              /\ \A i \in Slots : i # h.index => radio'.short[i] = radio.short[i]
         /\ h.type = "UpdateExtended" =>
              /\ radio'.short = radio.short /\ radio'.extended[h.index] = h.value
              /\ \A i \in Slots : i # h.index => radio'.extended[i] = radio.extended[i]
<1>1. /\ radio = [short |-> radio.short, extended |-> radio.extended]
      /\ radio.short \in [Slots -> SUBSET ShortValues]
      /\ radio.extended \in [Slots -> SUBSET ExtendedValues]
  BY DEF IsRadio
<1>2. CASE h.type = "Init"
  <2>1. radio' = Cleared
    BY <1>2 DEF Execute
  <2>2. IsRadio(Cleared)
    BY DEF Cleared, IsRadio
  <2> QED BY <1>2, <2>1, <2>2
<1>3. CASE h.type = "UpdateShort"
  <2> DEFINE short == [radio.short EXCEPT ![h.index] = h.value]
  <2>1. h.index \in Slots /\ h.value \in SUBSET ShortValues
    BY <1>3, LinkTypes
  <2>2. /\ short \in [Slots -> SUBSET ShortValues] /\ short[h.index] = h.value
        /\ \A i \in Slots : i # h.index => short[i] = radio.short[i]
    BY <1>1, <2>1
  <2>3. radio' = [radio EXCEPT !.short = short]
    BY <1>3 DEF Execute
  <2> HIDE DEF short
  <2>4. radio' = [short |-> short, extended |-> radio.extended]
    BY <1>1, <2>3
  <2>5. radio'.short = short /\ radio'.extended = radio.extended
    BY <2>4
  <2>6. IsRadio(radio')
    BY <1>1, <2>2, <2>4, <2>5 DEF IsRadio
  <2> QED BY <1>3, <2>2, <2>5, <2>6
<1>4. CASE h.type = "UpdateExtended"
  <2> DEFINE extended == [radio.extended EXCEPT ![h.index] = h.value]
  <2>1. h.index \in Slots /\ h.value \in SUBSET ExtendedValues
    BY <1>4, LinkTypes
  <2>2. /\ extended \in [Slots -> SUBSET ExtendedValues] /\ extended[h.index] = h.value
        /\ \A i \in Slots : i # h.index => extended[i] = radio.extended[i]
    BY <1>1, <2>1
  <2>3. radio' = [radio EXCEPT !.extended = extended]
    BY <1>4 DEF Execute
  <2> HIDE DEF extended
  <2>4. radio' = [short |-> radio.short, extended |-> extended]
    BY <1>1, <2>3
  <2>5. radio'.extended = extended /\ radio'.short = radio.short
    BY <2>4
  <2>6. IsRadio(radio')
    BY <1>1, <2>2, <2>4, <2>5 DEF IsRadio
  <2> QED BY <1>4, <2>2, <2>5, <2>6
<1> QED BY <1>2, <1>3, <1>4, LinkTypes

LEMMA AnswerKeepsInv ==
  ASSUME IndInv, NEW ok \in BOOLEAN, Answer(ok),
         Execute(Head(requests)) \/ (~ok /\ UNCHANGED radio)
  PROVE  IndInv'
<1> DEFINE h == Head(requests)
           r == [type |-> Head(requests).type, key |-> Head(requests).key, ok |-> ok]
<1>1. Shape /\ LinkInv /\ IsTables(c) /\ IsRadio(radio) /\ c' = c /\ next_key' = next_key
  BY DEF IndInv, Shape, Answer
<1>2. /\ LinkInv' /\ Requests = Requests' \cup {h} /\ Results' = Results \cup {r}
      /\ requests' \in Seq(RequestTypes) /\ results' \in Seq(ResultTypes)
      /\ h \in RequestTypes /\ h \in Requests
      /\ \A q \in Requests' : h.key < q.key
      /\ \A q \in Results : q.key # h.key
  BY <1>1, AnsweredLink
<1>3. r.type = h.type /\ r.key = h.key /\ r.ok = ok
  OBVIOUS
<1>4. /\ IsRadio(radio')
      /\ h.type = "Init" /\ ok => radio' = Cleared
      /\ h.type = "UpdateShort" =>
           /\ radio'.extended = radio.extended
           /\ ok => radio'.short[h.index] = h.value
           /\ \A i \in Slots : i # h.index => radio'.short[i] = radio.short[i]
      /\ h.type = "UpdateExtended" =>
           /\ radio'.short = radio.short
           /\ ok => radio'.extended[h.index] = h.value
           /\ \A i \in Slots : i # h.index => radio'.extended[i] = radio.extended[i]
  <2>1. CASE Execute(h)
    BY <1>1, <1>2, <2>1, ExecuteShape
  <2>2. CASE ~ok /\ UNCHANGED radio
    BY <1>1, <2>2
  <2> QED BY <2>1, <2>2
<1> HIDE DEF h, r
<1>5. /\ h.key \in Nat
      /\ h.type \in {"Init", "UpdateShort", "UpdateExtended"}
      /\ h.type = "UpdateShort" => h.index \in Slots
      /\ h.type = "UpdateExtended" => h.index \in Slots
      /\ \A q \in Requests' : q.key \in Nat /\ q.key # h.key
  <2>1. Requests' \subseteq RequestTypes
    <3>1. Requests \subseteq RequestTypes
      BY <1>1, ElemsType DEF Shape, Requests
    <3> QED BY <1>2, <3>1
  <2> QED BY <1>2, <2>1, LinkTypes
<1>6. Shape'
  BY <1>1, <1>2, <1>4 DEF Shape
<1>7. ASSUME c.is_initialized
      PROVE  Initialised'
  <2>1. Initialised
    BY <1>7 DEF IndInv
  <2>2. \A q \in Requests' : AwaitedBy(c.short, "UpdateShort", q)
                               \/ AwaitedBy(c.extended, "UpdateExtended", q)
    BY <1>2, <2>1 DEF Initialised
  <2>3. AwaitedBy(c.short, "UpdateShort", h) \/ AwaitedBy(c.extended, "UpdateExtended", h)
    BY <1>2, <2>1 DEF Initialised
  <2>4. Requests \subseteq Requests' \cup {h} /\ Results \subseteq Results' /\ r \in Results'
    BY <1>2
  <2>5. CASE AwaitedBy(c.short, "UpdateShort", h)
    <3>1. h.type = "UpdateShort" /\ h.type # "UpdateExtended"
      BY <2>5 DEF AwaitedBy
    <3>2. InStep(c.short, radio'.short, "UpdateShort", Requests', Results')
      <4>1. InStep(c.short, radio.short, "UpdateShort", Requests, Results)
        BY <2>1 DEF Initialised
      <4>2. \A q \in Requests' : q.key # h.key
        BY <1>5
      <4>3. Worked(h, r, radio.short, radio'.short, Requests, Results, Requests', Results')
        BY <1>2, <1>3, <1>4, <1>5, <2>4, <3>1 DEF Worked
      <4> QED BY <2>5, <4>1, <4>2, <4>3, OwnInStep
    <3>3. InStep(c.extended, radio'.extended, "UpdateExtended", Requests', Results')
      BY <1>4, <2>1, <2>4, <3>1, OtherInStep DEF Initialised
    <3> QED BY <1>1, <2>1, <2>2, <3>2, <3>3 DEF Initialised
  <2>6. CASE AwaitedBy(c.extended, "UpdateExtended", h)
    <3>1. h.type = "UpdateExtended" /\ h.type # "UpdateShort"
      BY <2>6 DEF AwaitedBy
    <3>2. InStep(c.extended, radio'.extended, "UpdateExtended", Requests', Results')
      <4>1. InStep(c.extended, radio.extended, "UpdateExtended", Requests, Results)
        BY <2>1 DEF Initialised
      <4>2. \A q \in Requests' : q.key # h.key
        BY <1>5
      <4>3. Worked(h, r, radio.extended, radio'.extended, Requests, Results, Requests', Results')
        BY <1>2, <1>3, <1>4, <1>5, <2>4, <3>1 DEF Worked
      <4> QED BY <2>6, <4>1, <4>2, <4>3, OwnInStep
    <3>3. InStep(c.short, radio'.short, "UpdateShort", Requests', Results')
      BY <1>4, <2>1, <2>4, <3>1, OtherInStep DEF Initialised
    <3> QED BY <1>1, <2>1, <2>2, <3>2, <3>3 DEF Initialised
  <2> QED BY <2>3, <2>5, <2>6
<1>8. ASSUME ~c.is_initialized
      PROVE  NotInitialised'
  <2>1. NotInitialised
    BY <1>8 DEF IndInv
  <2>2. CASE c.initializing = {}
    BY <1>1, <2>1, <2>2 DEF NotInitialised
  <2>3. ASSUME NEW key \in Nat, c.initializing = {key},
               Initialising(key, radio, Requests, Results)
        PROVE  NotInitialised'
    <3>1. PICK request \in Requests : request.key = key /\ request.type = "Init"
      BY <1>2, <2>3 DEF Initialising
    <3>2. \A q \in Requests : q.key <= key
      BY <1>2, <2>3 DEF Initialising
    <3>3. CASE request = h
      <4>1. Requests' = {}
        BY <1>2, <1>5, <2>3, <3>1, <3>2, <3>3
      <4>2. r \in Results' /\ r.key = key /\ r.type = "Init" /\ (r.ok => radio' = Cleared)
        BY <1>2, <1>3, <1>4, <3>1, <3>3
      <4>3. Initialising(key, radio', Requests', Results')
        BY <4>1, <4>2 DEF Initialising
      <4> QED BY <1>1, <2>1, <2>3, <4>3 DEF NotInitialised
    <3>4. CASE request # h
      <4>1. request \in Requests' /\ \A q \in Requests' : q.key <= key
        BY <1>2, <3>2, <3>4
      <4>2. Initialising(key, radio', Requests', Results')
        BY <3>1, <4>1 DEF Initialising
      <4> QED BY <1>1, <2>1, <2>3, <4>2 DEF NotInitialised
    <3> QED BY <3>3, <3>4
  <2> QED BY <2>1, <2>2, <2>3 DEF NotInitialised
<1> QED BY <1>1, <1>2, <1>6, <1>7, <1>8 DEF IndInv

-----------------------------------------------------------------------------
(* process_radio_response                                                   *)

\* A result of another kind, delivered, does not matter to a table.
LEMMA OtherResultInStep ==
  ASSUME NEW t, NEW slots, NEW type, NEW R, NEW S, NEW S2, NEW r,
         InStep(t, slots, type, R, S), S \subseteq S2 \cup {r}, r.type # type
  PROVE  InStep(t, slots, type, R, S2)
<1>1. ASSUME NEW key \in Nat, NEW i \in Slots, InFlight(t, slots, type, key, i, R, S)
      PROVE  InFlight(t, slots, type, key, i, R, S2)
  BY <1>1 DEF InFlight
<1> QED BY <1>1 DEF InStep, Tracked

\* Nor does a result that is not the awaited one matter to an initialisation.
LEMMA OtherResultInitialising ==
  ASSUME NEW key, NEW rr, NEW R, NEW S, NEW S2, NEW r,
         Initialising(key, rr, R, S), S \subseteq S2 \cup {r},
         r.key # key \/ r.type # "Init"
  PROVE  Initialising(key, rr, R, S2)
<1>1. CASE (\E request \in R : request.key = key /\ request.type = "Init")
             /\ \A request \in R : request.key <= key
  BY <1>1, Zenon DEF Initialising
<1>2. CASE R = {} /\ \E result \in S : /\ result.key = key /\ result.type = "Init"
                                       /\ result.ok => rr = Cleared
  <2>1. PICK result \in S : /\ result.key = key /\ result.type = "Init"
                            /\ result.ok => rr = Cleared
    BY <1>2
  <2>2. result \in S2
    BY <2>1
  <2> QED BY <1>2, <2>1, <2>2, Zenon DEF Initialising
<1> QED BY <1>1, <1>2, Zenon DEF Initialising

\* report_init_result
LEMMA ReportInitShape ==
  ASSUME NEW cc, IsTables(cc), NEW key, cc.initializing = {key}, NEW ok \in BOOLEAN
  PROVE  LET new == ReportInitResult(cc, key, ok) IN
         /\ IsTables(new) /\ new.initializing = {} /\ new.is_initialized = ok
         /\ new.short.updating = cc.short.updating
         /\ new.extended.updating = cc.extended.updating
         /\ ok => /\ \A i \in Slots : ~new.short.table[i].dirty => new.short.table[i].value = {}
                  /\ \A i \in Slots :
                       ~new.extended.table[i].dirty => new.extended.table[i].value = {}
<1> DEFINE new == ReportInitResult(cc, key, ok)
           short == IF ok THEN AssumeEmpty(cc.short) ELSE cc.short
           extended == IF ok THEN AssumeEmpty(cc.extended) ELSE cc.extended
<1>1. /\ cc = [initializing |-> cc.initializing, is_initialized |-> cc.is_initialized,
               none |-> cc.none, short |-> cc.short, extended |-> cc.extended]
      /\ IsTable(cc.short, ShortValues) /\ IsTable(cc.extended, ExtendedValues)
  BY DEF IsTables
<1>2. new = [cc EXCEPT !.initializing = {}, !.is_initialized = ok, !.short = short,
                       !.extended = extended]
  BY DEF ReportInitResult
<1>3. /\ IsTable(short, ShortValues) /\ short.updating = cc.short.updating
      /\ ok => \A i \in Slots : ~short.table[i].dirty => short.table[i].value = {}
  BY <1>1, AssumeEmptyShape
<1>4. /\ IsTable(extended, ExtendedValues) /\ extended.updating = cc.extended.updating
      /\ ok => \A i \in Slots : ~extended.table[i].dirty => extended.table[i].value = {}
  BY <1>1, AssumeEmptyShape
<1> HIDE DEF new, short, extended
<1>5. new = [initializing |-> {}, is_initialized |-> ok, none |-> cc.none, short |-> short,
             extended |-> extended]
  BY <1>1, <1>2
<1>6. /\ new.initializing = {} /\ new.is_initialized = ok /\ new.none = cc.none
      /\ new.short = short /\ new.extended = extended
  BY <1>5
<1>7. IsTables(new)
  BY <1>3, <1>4, <1>5, <1>6 DEF IsTables
<1> QED BY <1>3, <1>4, <1>6, <1>7 DEF new

\* report_result
LEMMA ReportTablesShape ==
  ASSUME NEW cc, IsTables(cc), NEW key \in Nat, NEW ok \in BOOLEAN
  PROVE  LET new == ReportTablesResult(cc, key, ok) IN
         /\ IsTables(new) /\ new.initializing = cc.initializing
         /\ new.is_initialized = cc.is_initialized
         /\ new.short = ReportUpdateResult(cc.short, key, ok)
         /\ new.extended = ReportUpdateResult(cc.extended, key, ok)
<1> DEFINE new == ReportTablesResult(cc, key, ok)
           short == ReportUpdateResult(cc.short, key, ok)
           extended == ReportUpdateResult(cc.extended, key, ok)
<1>1. /\ cc = [initializing |-> cc.initializing, is_initialized |-> cc.is_initialized,
               none |-> cc.none, short |-> cc.short, extended |-> cc.extended]
      /\ cc.is_initialized \in BOOLEAN
      /\ IsTable(cc.short, ShortValues) /\ IsTable(cc.extended, ExtendedValues)
  BY DEF IsTables
<1>2. new = [cc EXCEPT !.short = short, !.extended = extended]
  BY DEF ReportTablesResult
<1>3. IsTable(short, ShortValues) /\ IsTable(extended, ExtendedValues)
  BY <1>1, ReportShape
<1> HIDE DEF new, short, extended
<1>4. new = [initializing |-> cc.initializing, is_initialized |-> cc.is_initialized,
             none |-> cc.none, short |-> short, extended |-> extended]
  BY <1>1, <1>2
<1>5. /\ new.initializing = cc.initializing /\ new.is_initialized = cc.is_initialized
      /\ new.none = cc.none /\ new.short = short /\ new.extended = extended
  BY <1>4
<1>6. IsTables(new)
  BY <1>1, <1>3, <1>4, <1>5 DEF IsTables
<1> QED BY <1>5, <1>6 DEF new, short, extended

LEMMA DeliverKeepsInv == IndInv /\ Deliver => IndInv'
<1> SUFFICES ASSUME IndInv, Deliver PROVE IndInv'
  OBVIOUS
<1> DEFINE r == Head(results)
<1>1. /\ Shape /\ LinkInv /\ IsTables(c) /\ IsRadio(radio)
      /\ IsTable(c.short, ShortValues) /\ IsTable(c.extended, ExtendedValues)
      /\ c.is_initialized \in BOOLEAN
      /\ UNCHANGED <<next_key, requests, radio>>
  BY DEF IndInv, Shape, IsTables, Deliver
<1>2. /\ LinkInv' /\ Requests' = Requests /\ Results = Results' \cup {r}
      /\ results' \in Seq(ResultTypes) /\ r \in ResultTypes /\ r \in Results
      /\ \A q \in Requests : q.key # r.key
      /\ \A q \in Results : q.key = r.key => q = r
  BY <1>1, DeliveredLink DEF Deliver
<1>3. c' = IF r.type = "Init" THEN ReportInitResult(c, r.key, r.ok)
           ELSE ReportTablesResult(c, r.key, r.ok)
  BY DEF Deliver
<1> HIDE DEF r
<1>4. /\ r.key \in Nat /\ r.ok \in BOOLEAN /\ Results \subseteq Results' \cup {r}
  BY <1>2, LinkTypes
<1>5. IsTables(c') => Shape'
  BY <1>1, <1>2 DEF Shape
<1>6. CASE r.type = "Init" /\ c.initializing # {r.key}
  <2>1. c' = c
    BY <1>3, <1>6 DEF ReportInitResult
  <2>2. ASSUME c.is_initialized
        PROVE  Initialised'
    <3>1. Initialised
      BY <2>2 DEF IndInv
    <3>2. InStep(c.short, radio.short, "UpdateShort", Requests, Results')
      BY <1>4, <1>6, <3>1, OtherResultInStep DEF Initialised
    <3>3. InStep(c.extended, radio.extended, "UpdateExtended", Requests, Results')
      BY <1>4, <1>6, <3>1, OtherResultInStep DEF Initialised
    <3> QED BY <1>1, <1>2, <2>1, <3>1, <3>2, <3>3 DEF Initialised
  <2>3. ASSUME ~c.is_initialized
        PROVE  NotInitialised'
    <3>1. NotInitialised
      BY <2>3 DEF IndInv
    <3>2. ASSUME NEW key \in Nat, c.initializing = {key},
                 Initialising(key, radio, Requests, Results)
          PROVE  Initialising(key, radio, Requests, Results')
      BY <1>4, <1>6, <3>2, OtherResultInitialising
    <3> QED BY <1>1, <1>2, <2>1, <3>1, <3>2 DEF NotInitialised
  <2> QED BY <1>1, <1>2, <1>5, <2>1, <2>2, <2>3 DEF IndInv
<1>7. CASE r.type = "Init" /\ c.initializing = {r.key}
  <2>1. c' = ReportInitResult(c, r.key, r.ok)
    BY <1>3, <1>7
  <2>2. /\ IsTables(c') /\ c'.initializing = {} /\ c'.is_initialized = r.ok
        /\ c'.short.updating = c.short.updating
        /\ c'.extended.updating = c.extended.updating
        /\ r.ok => /\ \A i \in Slots : ~c'.short.table[i].dirty => c'.short.table[i].value = {}
                   /\ \A i \in Slots :
                        ~c'.extended.table[i].dirty => c'.extended.table[i].value = {}
    <3>1. PICK key \in Nat, ok \in BOOLEAN : key = r.key /\ ok = r.ok
      BY <1>4
    <3> DEFINE new == ReportInitResult(c, key, ok)
    <3>2. c' = new /\ c.initializing = {key}
      BY <1>7, <2>1, <3>1
    <3>3. /\ IsTables(new) /\ new.initializing = {} /\ new.is_initialized = ok
          /\ new.short.updating = c.short.updating
          /\ new.extended.updating = c.extended.updating
      BY <1>1, <3>2, ReportInitShape
    <3>4. ASSUME ok
          PROVE  /\ \A i \in Slots :
                      ~new.short.table[i].dirty => new.short.table[i].value = {}
                 /\ \A i \in Slots :
                      ~new.extended.table[i].dirty => new.extended.table[i].value = {}
      BY <1>1, <3>2, <3>4, ReportInitShape
    <3> HIDE DEF new
    <3> QED BY <3>1, <3>2, <3>3, <3>4
  <2>3. NotInitialised
    BY <1>7 DEF IndInv, Initialised
  <2>4. c.short.updating = {} /\ c.extended.updating = {} /\ Requests = {}
        /\ (r.ok => radio = Cleared)
    <3>1. PICK key \in Nat : c.initializing = {key} /\ Initialising(key, radio, Requests, Results)
      BY <1>7, <2>3 DEF NotInitialised
    <3>2. key = r.key
      BY <1>7, <3>1
    <3>3. \A q \in Requests : q.key # key
      BY <1>2, <3>2
    <3>4. /\ Requests = {}
          /\ \E result \in Results : /\ result.key = key /\ result.type = "Init"
                                     /\ result.ok => radio = Cleared
      BY <3>1, <3>3, Zenon DEF Initialising
    <3>5. r.ok => radio = Cleared
      BY <1>2, <3>2, <3>4
    <3> QED BY <2>3, <3>4, <3>5 DEF NotInitialised
  <2>5. ASSUME r.ok
        PROVE  Initialised'
    <3>0. /\ \A i \in Slots : radio'.short[i] = {}
          /\ \A i \in Slots : radio'.extended[i] = {}
      BY <1>1, <2>4, <2>5 DEF Cleared
    <3>1. Agrees(c'.short, radio'.short) /\ Agrees(c'.extended, radio'.extended)
      BY <2>2, <2>5, <3>0 DEF Agrees
    <3>2. /\ InStep(c'.short, radio'.short, "UpdateShort", Requests', Results')
          /\ InStep(c'.extended, radio'.extended, "UpdateExtended", Requests', Results')
      BY <2>2, <2>4, <3>1 DEF InStep, Tracked
    <3> QED BY <1>2, <2>2, <2>4, <3>2 DEF Initialised
  <2>6. NotInitialised'
    BY <2>2, <2>4 DEF NotInitialised
  <2> QED BY <1>2, <1>5, <2>2, <2>5, <2>6 DEF IndInv
<1>8. CASE r.type # "Init"
  <2>1. c' = ReportTablesResult(c, r.key, r.ok)
    BY <1>3, <1>8
  <2>2. /\ IsTables(c') /\ c'.initializing = c.initializing
        /\ c'.is_initialized = c.is_initialized
        /\ c'.short = ReportUpdateResult(c.short, r.key, r.ok)
        /\ c'.extended = ReportUpdateResult(c.extended, r.key, r.ok)
    BY <1>1, <1>4, <2>1, ReportTablesShape
  <2>5. Delivered(r, Requests, Results, Results')
    BY <1>2, <1>4 DEF Delivered
  <2>3. ASSUME c.is_initialized
        PROVE  Initialised'
    <3>1. Initialised
      BY <2>3 DEF IndInv
    <3>2. /\ InStep(c'.short, radio.short, "UpdateShort", Requests, Results')
          /\ \A q \in Requests : AwaitedBy(c.short, "UpdateShort", q)
                                   => AwaitedBy(c'.short, "UpdateShort", q)
      BY <1>1, <2>2, <2>5, <3>1, ReportInStep DEF Initialised
    <3>3. /\ InStep(c'.extended, radio.extended, "UpdateExtended", Requests, Results')
          /\ \A q \in Requests : AwaitedBy(c.extended, "UpdateExtended", q)
                                   => AwaitedBy(c'.extended, "UpdateExtended", q)
      BY <1>1, <2>2, <2>5, <3>1, ReportInStep DEF Initialised
    <3> QED BY <1>1, <1>2, <2>2, <3>1, <3>2, <3>3 DEF Initialised
  <2>4. ASSUME ~c.is_initialized
        PROVE  NotInitialised'
    <3>1. NotInitialised
      BY <2>4 DEF IndInv
    <3>2. c'.short = c.short /\ c'.extended = c.extended
      <4>1. PICK key \in Nat, ok \in BOOLEAN : key = r.key /\ ok = r.ok
        BY <1>4
      <4>2. ReportUpdateResult(c.short, key, ok) = c.short
        <5>1. \A i \in Slots : <<key, i>> \notin c.short.updating
          BY <3>1 DEF NotInitialised
        <5>2. IsTable(c.short, ShortValues)
          BY <1>1
        <5> QED BY <5>1, <5>2, ReportShape
      <4>3. ReportUpdateResult(c.extended, key, ok) = c.extended
        <5>1. \A i \in Slots : <<key, i>> \notin c.extended.updating
          BY <3>1 DEF NotInitialised
        <5>2. IsTable(c.extended, ExtendedValues)
          BY <1>1
        <5> QED BY <5>1, <5>2, ReportShape
      <4> QED BY <2>2, <4>1, <4>2, <4>3
    <3>3. ASSUME NEW key \in Nat, c.initializing = {key},
                 Initialising(key, radio, Requests, Results)
          PROVE  Initialising(key, radio, Requests, Results')
      BY <1>4, <1>8, <3>3, OtherResultInitialising
    <3> QED BY <1>1, <1>2, <2>2, <3>1, <3>2, <3>3 DEF NotInitialised
  <2> QED BY <1>2, <1>5, <2>2, <2>3, <2>4 DEF IndInv
<1> QED BY <1>6, <1>7, <1>8

-----------------------------------------------------------------------------
LEMMA StutterKeepsInv == IndInv /\ UNCHANGED vars => IndInv'
  BY DEF IndInv, vars, Shape, LinkInv, Requests, Results, Initialised, NotInitialised

LEMMA NextKeepsInv == IndInv /\ [Next]_vars => IndInv'
<1> SUFFICES ASSUME IndInv, [Next]_vars PROVE IndInv'
  OBVIOUS
<1>1. ASSUME NEW address \in Addresses, NEW inserted \in BOOLEAN, Set(address, inserted)
      PROVE  IndInv'
  BY <1>1, SetKeepsInv
<1>2. CASE Reset
  BY <1>2, ResetKeepsInv
<1>3. CASE Poll
  BY <1>3, PollKeepsInv
<1>4. CASE RadioExecutes
  <2>1. Answer(TRUE) /\ Execute(Head(requests))
    BY <1>4 DEF RadioExecutes
  <2> QED BY <2>1, AnswerKeepsInv
<1>5. CASE RadioFails
  <2>1. Answer(FALSE) /\ (Execute(Head(requests)) \/ UNCHANGED radio)
    BY <1>5 DEF RadioFails
  <2> QED BY <2>1, AnswerKeepsInv
<1>6. CASE Deliver
  BY <1>6, DeliverKeepsInv
<1>7. CASE UNCHANGED vars
  BY <1>7, StutterKeepsInv
<1> QED BY <1>1, <1>2, <1>3, <1>4, <1>5, <1>6, <1>7 DEF Next

LEMMA Invariance == Spec => []IndInv
  BY InitInv, NextKeepsInv, PTL DEF Spec

-----------------------------------------------------------------------------
(* The theorem.                                                             *)

\* Once initialised, the tables know what the radio holds in every slot that is
\* neither dirty nor being updated, whatever was set in between, however often
\* the radio failed, and whichever requests a reset left in the link.
THEOREM InitialisedIsSynced == Spec => []InitialisedMeansSynced
<1>1. IndInv => InitialisedMeansSynced
  BY DEF IndInv, Initialised, InStep, InitialisedMeansSynced
<1> QED BY <1>1, Invariance, PTL
=============================================================================
