------------------------ MODULE PendingTable_proofs -------------------------
(***************************************************************************)
(* Proofs about PendingTable for any set of values and any number of       *)
(* slots.                                                                  *)
(***************************************************************************)
EXTENDS PendingTable, WellFoundedInduction, SequenceTheorems, TLAPS

\* A nonempty set of natural numbers has a least element.
LEMMA LeastElementExists ==
  ASSUME NEW S \in SUBSET Nat, S # {}
  PROVE  \E x \in S : \A y \in S : x <= y
<1>1. \E x \in S : \A y \in S : ~(<<y, x>> \in OpToRel(<, Nat))
  BY NatLessThanWellFounded, WFMin
<1>2. \A x, y \in S : y < x => <<y, x>> \in OpToRel(<, Nat)
  BY DEF OpToRel
<1>3. \E x \in S : \A y \in S : ~(y < x)
  BY <1>1, <1>2, Zenon
<1> QED BY <1>3

IsOrder(order) ==
  /\ order \in [Slots -> Slots]
  /\ \A i \in Slots : \E p \in Slots : order[p] = i
  /\ \A p, r \in Slots : order[p] = order[r] => p = r

\* The order's length is the number of slots.
LEMMA OrderLength ==
  ASSUME NEW order \in [Slots -> Slots]
  PROVE  order \in Seq(Slots) /\ Len(order) = Size
  BY PendingTableAssumption DEF Slots

\* Others lists the slots other than index, in the same order.
LEMMA OthersShape ==
  ASSUME NEW order, IsOrder(order), NEW index \in Slots
  PROVE  /\ Position(order, index) \in Slots
         /\ order[Position(order, index)] = index
         /\ Others(order, index) =
              [p \in 1 .. Size - 1 |->
                 IF p < Position(order, index) THEN order[p] ELSE order[p + 1]]
         /\ Others(order, index) \in Seq(Slots)
         /\ Len(Others(order, index)) = Size - 1
<1>1. Len(order) = Size
  BY OrderLength DEF IsOrder
<1>2. \E p \in 1 .. Len(order) : order[p] = index
  BY <1>1 DEF IsOrder, Slots
<1>3. Position(order, index) \in Slots /\ order[Position(order, index)] = index
  BY <1>1, <1>2 DEF Position, Slots
<1>4. Others(order, index) =
        [p \in 1 .. Size - 1 |->
           IF p < Position(order, index) THEN order[p] ELSE order[p + 1]]
  BY <1>1 DEF Others
<1>5. Others(order, index) \in [1 .. Size - 1 -> Slots]
  BY <1>3, <1>4, PendingTableAssumption DEF IsOrder, Slots
<1>6. Others(order, index) \in Seq(Slots) /\ Len(Others(order, index)) = Size - 1
  BY <1>5, PendingTableAssumption
<1> QED
  BY <1>3, <1>4, <1>6

\* Promotion moves a slot to the end of the order.
LEMMA PromoteShape ==
  ASSUME NEW order, IsOrder(order), NEW index \in Slots
  PROVE  /\ PromoteIndex(order, index) =
              [p \in Slots |-> IF p = Size THEN index
                               ELSE IF p < Position(order, index) THEN order[p]
                               ELSE order[p + 1]]
         /\ IsOrder(PromoteIndex(order, index))
<1> DEFINE others == Others(order, index)
           pos == Position(order, index)
           new == PromoteIndex(order, index)
<1>1. /\ pos \in Slots /\ order[pos] = index
      /\ others = [p \in 1 .. Size - 1 |-> IF p < pos THEN order[p] ELSE order[p + 1]]
      /\ others \in Seq(Slots) /\ Len(others) = Size - 1
  BY OthersShape
<1>2. /\ new = [p \in Slots |-> IF p = Size THEN index ELSE others[p]]
      /\ new \in [Slots -> Slots]
  <2>1. /\ new \in Seq(Slots) /\ Len(new) = Size
        /\ \A p \in 1 .. Size - 1 : new[p] = others[p]
        /\ new[Size] = index
    BY <1>1, AppendProperties, PendingTableAssumption DEF PromoteIndex
  <2>2. new \in [Slots -> Slots]
    BY <2>1, LenProperties DEF Slots
  <2>3. \A p \in Slots : new[p] = IF p = Size THEN index ELSE others[p]
    BY <2>1, PendingTableAssumption DEF Slots
  <2> HIDE DEF new, others
  <2> QED BY <2>2, <2>3
<1> HIDE DEF others, pos, new
<1>3. new = [p \in Slots |-> IF p = Size THEN index
                             ELSE IF p < pos THEN order[p] ELSE order[p + 1]]
  BY <1>1, <1>2, PendingTableAssumption DEF Slots
<1>4. \A i \in Slots : \E p \in Slots : new[p] = i
  <2> SUFFICES ASSUME NEW i \in Slots PROVE \E p \in Slots : new[p] = i
    OBVIOUS
  <2>1. PICK r \in Slots : order[r] = i
    BY DEF IsOrder
  <2>2. CASE i = index
    BY <2>2, <1>3, PendingTableAssumption DEF Slots
  <2>3. CASE i # index /\ r < pos
    <3>1. r \in Slots /\ r # Size /\ new[r] = i
      BY <2>1, <2>3, <1>1, <1>3, PendingTableAssumption DEF Slots
    <3> QED BY <3>1
  <2>4. CASE i # index /\ r > pos
    <3>1. r - 1 \in Slots /\ r - 1 # Size /\ ~(r - 1 < pos) /\ (r - 1) + 1 = r
      BY <2>4, <1>1, PendingTableAssumption DEF Slots
    <3>2. new[r - 1] = i
      BY <3>1, <2>1, <1>3
    <3> QED BY <3>1, <3>2
  <2>5. r = pos => i = index
    BY <2>1, <1>1
  <2> QED BY <2>2, <2>3, <2>4, <2>5, <1>1 DEF Slots
<1>5. \A p, r \in Slots : new[p] = new[r] => p = r
  <2> DEFINE from(p) == IF p = Size THEN pos ELSE IF p < pos THEN p ELSE p + 1
  <2>1. \A p \in Slots : from(p) \in Slots /\ new[p] = order[from(p)]
    BY <1>1, <1>3, PendingTableAssumption DEF Slots
  <2>2. \A p, r \in Slots : from(p) = from(r) => p = r
    BY <1>1, PendingTableAssumption DEF Slots
  <2> HIDE DEF from
  <2> QED BY <2>1, <2>2 DEF IsOrder
<1> QED
  BY <1>2, <1>3, <1>4, <1>5 DEF IsOrder, new, pos

\* Demotion moves a slot to the front of the order.
LEMMA DemoteShape ==
  ASSUME NEW order, IsOrder(order), NEW index \in Slots
  PROVE  /\ DemoteIndex(order, index) =
              [p \in Slots |-> IF p = 1 THEN index
                               ELSE IF p - 1 < Position(order, index) THEN order[p - 1]
                               ELSE order[p]]
         /\ IsOrder(DemoteIndex(order, index))
<1> DEFINE others == Others(order, index)
           pos == Position(order, index)
           new == DemoteIndex(order, index)
<1>1. /\ pos \in Slots /\ order[pos] = index
      /\ others = [p \in 1 .. Size - 1 |-> IF p < pos THEN order[p] ELSE order[p + 1]]
      /\ others \in Seq(Slots) /\ Len(others) = Size - 1
  BY OthersShape
<1>2. /\ new = [p \in Slots |-> IF p = 1 THEN index ELSE others[p - 1]]
      /\ new \in [Slots -> Slots]
  <2>1. <<index>> \in Seq(Slots) /\ Len(<<index>>) = 1 /\ <<index>>[1] = index
    OBVIOUS
  <2>2. /\ new \in Seq(Slots) /\ Len(new) = Size
        /\ \A p \in 1 .. Size : new[p] = IF p <= 1 THEN <<index>>[p] ELSE others[p - 1]
    BY <2>1, <1>1, ConcatProperties, PendingTableAssumption DEF DemoteIndex
  <2>3. new \in [Slots -> Slots]
    BY <2>2, LenProperties DEF Slots
  <2>4. \A p \in Slots : new[p] = IF p = 1 THEN index ELSE others[p - 1]
    BY <2>1, <2>2, PendingTableAssumption DEF Slots
  <2> HIDE DEF new, others
  <2> QED BY <2>3, <2>4
<1> HIDE DEF others, pos, new
<1>3. new = [p \in Slots |-> IF p = 1 THEN index
                             ELSE IF p - 1 < pos THEN order[p - 1] ELSE order[p]]
  BY <1>1, <1>2, PendingTableAssumption DEF Slots
<1>4. \A i \in Slots : \E p \in Slots : new[p] = i
  <2> SUFFICES ASSUME NEW i \in Slots PROVE \E p \in Slots : new[p] = i
    OBVIOUS
  <2>1. PICK r \in Slots : order[r] = i
    BY DEF IsOrder
  <2>2. CASE i = index
    BY <2>2, <1>3, PendingTableAssumption DEF Slots
  <2>3. CASE i # index /\ r > pos
    <3>1. r \in Slots /\ r # 1 /\ ~(r - 1 < pos) /\ new[r] = i
      BY <2>1, <2>3, <1>1, <1>3, PendingTableAssumption DEF Slots
    <3> QED BY <3>1
  <2>4. CASE i # index /\ r < pos
    <3>1. r + 1 \in Slots /\ r + 1 # 1 /\ (r + 1) - 1 < pos /\ (r + 1) - 1 = r
      BY <2>4, <1>1, PendingTableAssumption DEF Slots
    <3>2. new[r + 1] = i
      BY <3>1, <2>1, <1>3
    <3> QED BY <3>1, <3>2
  <2>5. r = pos => i = index
    BY <2>1, <1>1
  <2> QED BY <2>2, <2>3, <2>4, <2>5, <1>1 DEF Slots
<1>5. \A p, r \in Slots : new[p] = new[r] => p = r
  <2> DEFINE from(p) == IF p = 1 THEN pos ELSE IF p - 1 < pos THEN p - 1 ELSE p
  <2>1. \A p \in Slots : from(p) \in Slots /\ new[p] = order[from(p)]
    BY <1>1, <1>3, PendingTableAssumption DEF Slots
  <2>2. \A p, r \in Slots : from(p) = from(r) => p = r
    BY <1>1, PendingTableAssumption DEF Slots
  <2> HIDE DEF from
  <2> QED BY <2>1, <2>2 DEF IsOrder
<1> QED
  BY <1>2, <1>3, <1>4, <1>5 DEF IsOrder, new, pos

-----------------------------------------------------------------------------
FreeFirst(tt) ==
  \A p, r \in Slots :
    p < r /\ tt.table[tt.order[r]].value = {} => tt.table[tt.order[p]].value = {}

Holds(tt) ==
  \A i \in Slots :
    /\ \A v \in tt.table[i].value : v \in tt.values /\ tt.table[i].value = {v}
    /\ \A j \in Slots :
         tt.table[i].value # {} /\ tt.table[i].value = tt.table[j].value => i = j

TableInv(tt) == tt \in Tables /\ IsOrder(tt.order) /\ FreeFirst(tt) /\ Holds(tt)

\* What the owner's calls do to a slot: nothing, or a new content marked dirty.
DirtyOrSame(new, old) ==
  /\ new.updating = old.updating
  /\ \A i \in Slots : new.table[i].dirty \/ new.table[i] = old.table[i]

\* A new value takes the first slot of the order.
LEMMA OverwriteInv ==
  ASSUME NEW tt, TableInv(tt), NEW v \in tt.values, SlotsOf(tt, v) = {}
  PROVE  /\ TableInv(Overwrite(tt, tt.order[1], v))
         /\ DirtyOrSame(Overwrite(tt, tt.order[1], v), tt)
<1> DEFINE first == tt.order[1]
           new == Overwrite(tt, first, v)
           pos == Position(tt.order, first)
<1>1. tt \in Tables /\ IsOrder(tt.order) /\ FreeFirst(tt) /\ Holds(tt) /\ v \in Values
  BY DEF TableInv, Tables
<1>2. 1 \in Slots /\ first \in Slots
  BY <1>1, PendingTableAssumption DEF Slots, Tables
<1>3. pos = 1
  BY <1>1, <1>2, OthersShape DEF IsOrder
<1>4. /\ new.values = tt.values /\ new.updating = tt.updating
      /\ new.table = [tt.table EXCEPT ![first] = [dirty |-> TRUE, value |-> {v}]]
      /\ new.order = PromoteIndex(tt.order, first)
      /\ new \in Tables
  <2>1. PromoteIndex(tt.order, first) \in [Slots -> Slots]
    BY <1>1, <1>2, PromoteShape DEF IsOrder
  <2> QED BY <2>1, <1>1, <1>2 DEF Overwrite, NewEntry, Tables
<1>5. \A i \in Slots :
        new.table[i] = IF i = first THEN [dirty |-> TRUE, value |-> {v}] ELSE tt.table[i]
  BY <1>1, <1>2, <1>4 DEF Tables
<1>6. /\ IsOrder(new.order)
      /\ new.order = [p \in Slots |-> IF p = Size THEN first
                                      ELSE IF p < pos THEN tt.order[p]
                                      ELSE tt.order[p + 1]]
  <2>1. /\ IsOrder(PromoteIndex(tt.order, first))
        /\ PromoteIndex(tt.order, first) =
             [p \in Slots |-> IF p = Size THEN first
                              ELSE IF p < pos THEN tt.order[p] ELSE tt.order[p + 1]]
    BY <1>1, <1>2, PromoteShape
  <2> QED BY <2>1, <1>4
<1> HIDE DEF new, pos
<1>7. \A p \in Slots : new.order[p] = IF p = Size THEN first ELSE tt.order[p + 1]
  BY <1>3, <1>6 DEF Slots
<1>8. FreeFirst(new)
  <2> SUFFICES ASSUME NEW p \in Slots, NEW r \in Slots, p < r,
                      new.table[new.order[r]].value = {}
               PROVE  new.table[new.order[p]].value = {}
    BY DEF FreeFirst
  <2>1. r # Size
    <3>1. ASSUME r = Size PROVE FALSE
      <4>1. new.order[r] = first
        BY <3>1, <1>7
      <4>2. new.table[first].value = {v}
        BY <1>2, <1>5
      <4> QED BY <4>1, <4>2
    <3> QED BY <3>1
  <2>2. p # Size /\ p + 1 \in Slots /\ r + 1 \in Slots /\ p + 1 < r + 1
    BY <2>1, PendingTableAssumption DEF Slots
  <2>3. new.order[r] = tt.order[r + 1] /\ new.order[p] = tt.order[p + 1]
    BY <1>7, <2>1, <2>2
  <2>4. tt.order[r + 1] # first /\ tt.order[p + 1] # first
    BY <2>2, <1>1, <1>2 DEF IsOrder, Slots
  <2>5. tt.order[r + 1] \in Slots /\ tt.order[p + 1] \in Slots
    BY <1>1, <2>2 DEF IsOrder
  <2>6. tt.table[tt.order[r + 1]].value = {}
    BY <1>5, <2>3, <2>4, <2>5
  <2>7. tt.table[tt.order[p + 1]].value = {}
    BY <1>1, <2>2, <2>6 DEF FreeFirst
  <2> QED BY <1>5, <2>3, <2>4, <2>5, <2>7
<1>9. Holds(new)
  <2>1. \A i \in Slots : tt.table[i].value # {v}
    BY <1>1 DEF SlotsOf, Tables
  <2> QED BY <2>1, <1>1, <1>4, <1>5 DEF Holds
<1>10. DirtyOrSame(new, tt)
  BY <1>4, <1>5 DEF DirtyOrSame
<1> QED BY <1>4, <1>6, <1>8, <1>9, <1>10 DEF TableInv, new

\* An occupied slot may move to the end of the order.
LEMMA PromoteSlotInv ==
  ASSUME NEW tt, TableInv(tt), NEW index \in Slots, tt.table[index].value # {}
  PROVE  LET new == [tt EXCEPT !.order = PromoteIndex(@, index)]
         IN  TableInv(new) /\ DirtyOrSame(new, tt)
<1> DEFINE new == [tt EXCEPT !.order = PromoteIndex(@, index)]
           pos == Position(tt.order, index)
<1>1. tt \in Tables /\ IsOrder(tt.order) /\ FreeFirst(tt) /\ Holds(tt)
  BY DEF TableInv
<1>2. pos \in Slots /\ tt.order[pos] = index
  BY <1>1, OthersShape
<1>3. /\ IsOrder(PromoteIndex(tt.order, index))
      /\ PromoteIndex(tt.order, index) =
           [p \in Slots |-> IF p = Size THEN index
                            ELSE IF p < pos THEN tt.order[p] ELSE tt.order[p + 1]]
  BY <1>1, PromoteShape
<1>4. /\ new \in Tables /\ new.table = tt.table /\ new.values = tt.values
      /\ new.updating = tt.updating /\ new.order = PromoteIndex(tt.order, index)
  BY <1>1, <1>3 DEF Tables, IsOrder
<1> HIDE DEF new, pos
<1>5. FreeFirst(new)
  <2> SUFFICES ASSUME NEW p \in Slots, NEW r \in Slots, p < r,
                      new.table[new.order[r]].value = {}
               PROVE  new.table[new.order[p]].value = {}
    BY DEF FreeFirst
  <2>1. r # Size
    BY <1>3, <1>4
  <2> DEFINE from(x) == IF x < pos THEN x ELSE x + 1
  <2>2. /\ p # Size /\ from(p) \in Slots /\ from(r) \in Slots /\ from(p) < from(r)
        /\ new.order[p] = tt.order[from(p)] /\ new.order[r] = tt.order[from(r)]
    BY <2>1, <1>2, <1>3, <1>4, PendingTableAssumption DEF Slots
  <2> HIDE DEF from
  <2> QED BY <2>2, <1>1, <1>4 DEF FreeFirst
<1>6. Holds(new)
  BY <1>1, <1>4 DEF Holds
<1>7. DirtyOrSame(new, tt)
  BY <1>4 DEF DirtyOrSame
<1> QED BY <1>3, <1>4, <1>5, <1>6, <1>7 DEF TableInv, new

\* A slot whose value leaves the table moves to the front of the order.
LEMMA FreeSlotInv ==
  ASSUME NEW tt, TableInv(tt), NEW v \in Values, NEW index \in Slots,
         tt.table[index].value = {v}
  PROVE  LET left == [tt EXCEPT !.values = @ \ {v}]
             new == FreeSlot(left, index)
         IN  TableInv(new) /\ DirtyOrSame(new, tt)
<1> DEFINE left == [tt EXCEPT !.values = @ \ {v}]
           new == FreeSlot(left, index)
           pos == Position(tt.order, index)
<1>1. tt \in Tables /\ IsOrder(tt.order) /\ FreeFirst(tt) /\ Holds(tt)
  BY DEF TableInv
<1>2. pos \in Slots /\ tt.order[pos] = index
  BY <1>1, OthersShape
<1>3. /\ IsOrder(DemoteIndex(tt.order, index))
      /\ DemoteIndex(tt.order, index) =
           [p \in Slots |-> IF p = 1 THEN index
                            ELSE IF p - 1 < pos THEN tt.order[p - 1] ELSE tt.order[p]]
  BY <1>1, DemoteShape
<1>4. /\ new \in Tables /\ new.values = tt.values \ {v} /\ new.updating = tt.updating
      /\ new.order = DemoteIndex(tt.order, index)
      /\ new.table = [tt.table EXCEPT ![index] = [dirty |-> TRUE, value |-> {}]]
  BY <1>1, <1>3 DEF Tables, IsOrder, FreeSlot, Default
<1>5. \A i \in Slots :
        new.table[i] = IF i = index THEN [dirty |-> TRUE, value |-> {}] ELSE tt.table[i]
  BY <1>1, <1>4 DEF Tables
<1> HIDE DEF new, pos, left
<1>6. FreeFirst(new)
  <2> SUFFICES ASSUME NEW p \in Slots, NEW r \in Slots, p < r,
                      new.table[new.order[r]].value = {}
               PROVE  new.table[new.order[p]].value = {}
    BY DEF FreeFirst
  <2>1. CASE p = 1
    BY <2>1, <1>3, <1>4, <1>5
  <2>2. CASE p # 1
    <3> DEFINE from(x) == IF x - 1 < pos THEN x - 1 ELSE x
    <3>1. /\ from(p) \in Slots /\ from(r) \in Slots /\ r # 1
          /\ new.order[p] = tt.order[from(p)] /\ new.order[r] = tt.order[from(r)]
      BY <2>2, <1>2, <1>3, <1>4, PendingTableAssumption DEF Slots
    <3>2. from(p) < from(r) \/ from(r) = pos
      BY <2>2, <1>2 DEF Slots
    <3>3. from(r) # pos
      BY <3>1, <2>2, <1>2, PendingTableAssumption DEF Slots
    <3> HIDE DEF from
    <3>4. tt.order[from(r)] # index /\ tt.order[from(r)] \in Slots
      BY <3>1, <3>3, <1>1, <1>2 DEF IsOrder
    <3>5. tt.table[tt.order[from(r)]].value = {}
      BY <3>1, <3>4, <1>5
    <3>6. tt.table[tt.order[from(p)]].value = {} /\ tt.order[from(p)] \in Slots
      BY <3>1, <3>2, <3>3, <3>5, <1>1 DEF FreeFirst, IsOrder
    <3> QED BY <3>1, <3>6, <1>5
  <2> QED BY <2>1, <2>2
<1>7. Holds(new)
  <2>1. \A i \in Slots : i # index => v \notin tt.table[i].value
    BY <1>1 DEF Holds
  <2> QED BY <2>1, <1>1, <1>4, <1>5 DEF Holds
<1>8. DirtyOrSame(new, tt)
  BY <1>4, <1>5 DEF DirtyOrSame
<1> QED BY <1>3, <1>4, <1>6, <1>7, <1>8 DEF TableInv, new, left

\* GetIndex is a slot that holds the value.
LEMMA GetIndexHolds ==
  ASSUME NEW tt, TableInv(tt), NEW v \in Values, SlotsOf(tt, v) # {}
  PROVE  GetIndex(tt, v) \in Slots /\ tt.table[GetIndex(tt, v)].value = {v}
<1>1. DOMAIN tt.table = Slots
  BY DEF TableInv, Tables
<1>2. PICK i \in Slots : tt.table[i].value = {v}
  BY <1>1 DEF SlotsOf
<1>3. SlotsOf(tt, v) = {i}
  BY <1>1, <1>2 DEF SlotsOf, TableInv, Holds
<1>4. \E j \in SlotsOf(tt, v) : \A k \in SlotsOf(tt, v) : j <= k
  BY <1>3 DEF Slots
<1>5. GetIndex(tt, v) \in SlotsOf(tt, v)
  BY <1>4 DEF GetIndex
<1> QED BY <1>1, <1>5 DEF SlotsOf

LEMMA PromoteInv ==
  ASSUME NEW tt, TableInv(tt), NEW v \in Values
  PROVE  TableInv(Promote(tt, v)) /\ DirtyOrSame(Promote(tt, v), tt)
<1>1. CASE v \notin tt.values
  BY <1>1 DEF Promote, DirtyOrSame
<1>2. CASE v \in tt.values /\ SlotsOf(tt, v) # {}
  <2>1. GetIndex(tt, v) \in Slots /\ tt.table[GetIndex(tt, v)].value # {}
    BY <1>2, GetIndexHolds
  <2>2. Promote(tt, v) = [tt EXCEPT !.order = PromoteIndex(@, GetIndex(tt, v))]
    BY <1>2 DEF Promote
  <2> QED BY <2>1, <2>2, PromoteSlotInv
<1>3. CASE v \in tt.values /\ SlotsOf(tt, v) = {}
  BY <1>3, OverwriteInv DEF Promote
<1> QED BY <1>1, <1>2, <1>3

\* set and promote keep the table's structure and mark what they change.
LEMMA SetValueInv ==
  ASSUME NEW tt, TableInv(tt), NEW v \in Values, NEW inserted \in BOOLEAN
  PROVE  TableInv(SetValue(tt, v, inserted)) /\ DirtyOrSame(SetValue(tt, v, inserted), tt)
<1> DEFINE more == [tt EXCEPT !.values = @ \cup {v}]
           left == [tt EXCEPT !.values = @ \ {v}]
<1>1. tt \in Tables
  BY DEF TableInv
<1>2. CASE inserted
  <2>1. TableInv(more) /\ more.table = tt.table /\ more.updating = tt.updating
    BY <1>1 DEF TableInv, Tables, FreeFirst, Holds
  <2>2. TableInv(Promote(more, v)) /\ DirtyOrSame(Promote(more, v), more)
    BY <2>1, PromoteInv
  <2>3. SetValue(tt, v, inserted) = Promote(more, v)
    BY <1>2 DEF SetValue, InsertValue
  <2> HIDE DEF more
  <2> QED BY <2>1, <2>2, <2>3 DEF DirtyOrSame
<1>3. CASE ~inserted /\ v \in tt.values /\ SlotsOf(tt, v) # {}
  <2>1. SetValue(tt, v, inserted) = FreeSlot(left, GetIndex(tt, v))
    BY <1>3 DEF SetValue, RemoveValue
  <2> QED BY <2>1, <1>3, GetIndexHolds, FreeSlotInv
<1>4. CASE ~inserted /\ ~(v \in tt.values /\ SlotsOf(tt, v) # {})
  <2>1. SetValue(tt, v, inserted) = left
    BY <1>4 DEF SetValue, RemoveValue
  <2>2. \A i \in Slots : v \notin tt.table[i].value
    BY <1>4, <1>1 DEF TableInv, Holds, SlotsOf, Tables
  <2>3. TableInv(left) /\ DirtyOrSame(left, tt)
    BY <1>1, <2>2 DEF TableInv, Tables, FreeFirst, Holds, DirtyOrSame
  <2> QED BY <2>1, <2>3
<1> QED BY <1>2, <1>3, <1>4

-----------------------------------------------------------------------------
(* The inductive invariant.  CleanMeansSynced is not inductive alone: when a *)
(* result arrives, what the radio holds follows from OneUpdate, and that a   *)
(* promotion marks every slot it changes from the table's structure.         *)
IndInv == TypeOK /\ TableInv(t) /\ OneUpdate /\ CleanMeansSynced

\* A change of dirty flags and of updating keeps the structure.
LEMMA FlagsKeepStructure ==
  ASSUME NEW tt, TableInv(tt), NEW new \in Tables, new.values = tt.values,
         new.order = tt.order, \A i \in Slots : new.table[i].value = tt.table[i].value
  PROVE  TableInv(new)
<1>1. FreeFirst(new)
  BY ZenonT(60) DEF FreeFirst, TableInv, IsOrder
<1>2. Holds(new)
  BY DEF Holds, TableInv
<1> QED BY <1>1, <1>2 DEF TableInv

LEMMA InitInv == Init => IndInv
<1> SUFFICES ASSUME Init PROVE IndInv
  OBVIOUS
<1>1. t = [values |-> {}, table |-> [i \in Slots |-> [dirty |-> FALSE, value |-> {}]],
           order |-> [i \in Slots |-> i], updating |-> {}]
  BY DEF Init, AssumeEmpty, NewTable, Default, Slots
<1>2. t \in Tables
  BY <1>1 DEF Tables
<1>3. TypeOK
  BY <1>2 DEF Init, TypeOK
<1>4. TableInv(t)
  BY <1>1, <1>2 DEF TableInv, IsOrder, FreeFirst, Holds
<1>5. OneUpdate /\ CleanMeansSynced
  BY <1>1 DEF Init, OneUpdate, CleanMeansSynced
<1> QED BY <1>3, <1>4, <1>5 DEF IndInv

LEMMA OwnerKeepsInv ==
  ASSUME IndInv, Owner, TableInv(t'), DirtyOrSame(t', t)
  PROVE  IndInv'
<1>1. TypeOK'
  BY DEF IndInv, TypeOK, Owner, TableInv
<1>2. OneUpdate'
  <2>1. CASE t.updating = {} /\ requests = {} /\ results = {}
    BY <2>1 DEF OneUpdate, Owner, DirtyOrSame
  <2>2. CASE ~(t.updating = {} /\ requests = {} /\ results = {})
    <3>1. PICK token \in 0 .. next_key - 1, i \in Slots :
            /\ t.updating = {<<token, i>>}
            /\ \/ \E v \in SUBSET Values :
                    /\ requests = {[token |-> token, index |-> i, value |-> v]}
                    /\ results = {}
                    /\ ~t.table[i].dirty => v = t.table[i].value
               \/ /\ requests = {}
                  /\ \/ /\ results = {[token |-> token, ok |-> TRUE]}
                        /\ ~t.table[i].dirty => radio[i] = t.table[i].value
                     \/ results = {[token |-> token, ok |-> FALSE]}
      BY <2>2 DEF IndInv, OneUpdate
    <3>2. /\ t'.updating = {<<token, i>>} /\ next_key' = next_key
          /\ requests' = requests /\ results' = results /\ radio' = radio
          /\ ~t'.table[i].dirty => t'.table[i] = t.table[i]
      BY <3>1 DEF Owner, DirtyOrSame
    <3> QED BY <3>1, <3>2 DEF OneUpdate
  <2> QED BY <2>1, <2>2
<1>3. CleanMeansSynced'
  BY DEF IndInv, CleanMeansSynced, Owner, DirtyOrSame
<1> QED BY <1>1, <1>2, <1>3 DEF IndInv

LEMMA PollKeepsInv ==
  ASSUME IndInv, PollUpdate
  PROVE  IndInv'
<1> DEFINE i == FirstDirty(t)
           update == Update(t, next_key)
<1>1. t \in Tables /\ TypeOK /\ TableInv(t)
  BY DEF IndInv, TypeOK
<1>2. t.updating = {} /\ requests = {} /\ results = {}
  BY DEF IndInv, PollUpdate, HasUpdate, OneUpdate
<1>3. i \in Slots
  <2>1. DirtySlots(t) # {} /\ DirtySlots(t) \in SUBSET Slots
    BY <1>1 DEF PollUpdate, HasUpdate, DirtySlots, Tables
  <2>2. \E j \in DirtySlots(t) : \A k \in DirtySlots(t) : j <= k
    <3>1. DirtySlots(t) \in SUBSET Nat
      BY <2>1 DEF Slots
    <3> QED BY <2>1, <3>1, LeastElementExists
  <2> QED BY <2>1, <2>2 DEF FirstDirty
<1> HIDE DEF i
<1>4. /\ t' \in Tables
      /\ t'.values = t.values /\ t'.order = t.order /\ t'.updating = {<<next_key, i>>}
      /\ \A j \in Slots : /\ t'.table[j].value = t.table[j].value
                          /\ j # i => t'.table[j] = t.table[j]
      /\ ~t'.table[i].dirty
  <2> DEFINE entry == [t.table[i] EXCEPT !.dirty = FALSE]
             table == [t.table EXCEPT ![i] = entry]
  <2>1. entry \in [dirty : BOOLEAN, value : SUBSET Values]
        /\ entry.value = t.table[i].value /\ ~entry.dirty
    BY <1>1, <1>3 DEF Tables
  <2>2. t' = [t EXCEPT !.table = table, !.updating = {<<next_key, i>>}]
    BY <1>1 DEF PollUpdate, StartUpdate, i
  <2> HIDE DEF entry
  <2>3. /\ table \in [Slots -> [dirty : BOOLEAN, value : SUBSET Values]]
        /\ table[i] = entry /\ \A j \in Slots : j # i => table[j] = t.table[j]
    BY <2>1, <1>1, <1>3 DEF Tables
  <2>4. <<next_key, i>> \in Nat \X Slots
    BY <1>1, <1>3 DEF TypeOK
  <2> HIDE DEF table
  <2>5. /\ t'.values = t.values /\ t'.order = t.order /\ t'.table = table
        /\ t'.updating = {<<next_key, i>>} /\ t' \in Tables
    BY <2>2, <2>3, <2>4, <1>1 DEF Tables
  <2> QED BY <2>1, <2>3, <2>5
<1>5. update = [token |-> next_key, index |-> i, value |-> t.table[i].value]
  BY DEF Update, i
<1>6. TableInv(t')
  BY <1>1, <1>4, FlagsKeepStructure
<1>7. TypeOK'
  BY <1>1, <1>3, <1>4, <1>5 DEF TypeOK, PollUpdate, Tables
<1>8. OneUpdate'
  <2>1. requests' = {[token |-> next_key, index |-> i, value |-> t.table[i].value]}
    BY <1>2, <1>5 DEF PollUpdate
  <2>2. results' = {} /\ next_key' = next_key + 1 /\ next_key \in 0 .. next_key' - 1
    BY <1>1, <1>2 DEF PollUpdate, TypeOK
  <2>3. t.table[i].value \in SUBSET Values /\ t'.table[i].value = t.table[i].value
    BY <1>1, <1>3, <1>4 DEF Tables
  <2> QED BY <2>1, <2>2, <2>3, <1>3, <1>4 DEF OneUpdate
<1>9. CleanMeansSynced'
  BY <1>2, <1>3, <1>4 DEF IndInv, CleanMeansSynced, PollUpdate
<1> QED BY <1>6, <1>7, <1>8, <1>9 DEF IndInv

LEMMA RadioKeepsInv ==
  ASSUME IndInv, NEW update \in requests, RadioExecutes(update) \/ RadioFails(update)
  PROVE  IndInv'
<1>1. TypeOK /\ update \in [token : Nat, index : Slots, value : SUBSET Values]
  BY DEF IndInv, TypeOK
<1>2. t' = t /\ (radio' = [radio EXCEPT ![update.index] = update.value] \/ radio' = radio)
  BY DEF RadioExecutes, RadioFails, Write
<1>3. TypeOK'
  <2>1. radio' \in [Slots -> SUBSET Values]
    BY <1>1, <1>2 DEF TypeOK
  <2>2. /\ \E ok \in BOOLEAN : results' = results \cup {[token |-> update.token, ok |-> ok]}
        /\ requests' = requests \ {update} /\ next_key' = next_key /\ sets' = sets
        /\ failures' \in {failures, failures + 1}
    BY DEF RadioExecutes, RadioFails
  <2> QED BY <2>1, <2>2, <1>1, <1>2 DEF TypeOK
<1>4. TableInv(t')
  BY <1>2 DEF IndInv
<1>5. PICK token \in 0 .. next_key - 1, i \in Slots, v \in SUBSET Values :
        /\ t.updating = {<<token, i>>}
        /\ requests = {[token |-> token, index |-> i, value |-> v]}
        /\ results = {}
        /\ ~t.table[i].dirty => v = t.table[i].value
  BY DEF IndInv, OneUpdate
<1>6. update = [token |-> token, index |-> i, value |-> v]
  BY <1>5
<1>7. requests' = {} /\ next_key' = next_key
  BY <1>5, <1>6 DEF RadioExecutes, RadioFails
<1>8. \/ results' = {[token |-> token, ok |-> TRUE]} /\ radio' = [radio EXCEPT ![i] = v]
      \/ results' = {[token |-> token, ok |-> FALSE]}
  BY <1>5, <1>6 DEF RadioExecutes, RadioFails, Write
<1>9. OneUpdate'
  <2>1. CASE results' = {[token |-> token, ok |-> TRUE]} /\ radio' = [radio EXCEPT ![i] = v]
    <3>1. radio'[i] = v
      BY <2>1, <1>1 DEF TypeOK
    <3> QED BY <2>1, <3>1, <1>2, <1>5, <1>7 DEF OneUpdate
  <2>2. CASE results' = {[token |-> token, ok |-> FALSE]}
    BY <2>2, <1>2, <1>5, <1>7 DEF OneUpdate
  <2> QED BY <1>8, <2>1, <2>2
<1>10. CleanMeansSynced'
  <2>1. \A j \in Slots : j # i => radio'[j] = radio[j]
    BY <1>1, <1>2, <1>6 DEF TypeOK
  <2> QED BY <2>1, <1>2, <1>5 DEF IndInv, CleanMeansSynced
<1> QED BY <1>3, <1>4, <1>9, <1>10 DEF IndInv

LEMMA ReportKeepsInv ==
  ASSUME IndInv, NEW result \in results, ReportResult(result)
  PROVE  IndInv'
<1>1. TypeOK /\ t \in Tables /\ TableInv(t)
  BY DEF IndInv, TypeOK
<1>2. PICK token \in 0 .. next_key - 1, i \in Slots :
        /\ t.updating = {<<token, i>>}
        /\ requests = {}
        /\ \/ /\ results = {[token |-> token, ok |-> TRUE]}
              /\ ~t.table[i].dirty => radio[i] = t.table[i].value
           \/ results = {[token |-> token, ok |-> FALSE]}
  BY DEF IndInv, OneUpdate
<1>3. /\ results' = {} /\ requests' = {} /\ radio' = radio /\ next_key' = next_key
      /\ result.token = token /\ result.ok \in BOOLEAN
      /\ result.ok /\ ~t.table[i].dirty => radio[i] = t.table[i].value
  <2>1. \/ result = [token |-> token, ok |-> TRUE] /\ results = {result}
           /\ (~t.table[i].dirty => radio[i] = t.table[i].value)
        \/ result = [token |-> token, ok |-> FALSE] /\ results = {result}
    BY <1>2
  <2>2. results' = {} /\ requests' = {} /\ radio' = radio /\ next_key' = next_key
    BY <1>2, <2>1 DEF ReportResult
  <2>3. result.token = token /\ result.ok \in BOOLEAN
    <3>1. result.token = token
      BY <2>1
    <3>2. result.ok \in BOOLEAN
      BY <1>1 DEF TypeOK
    <3> QED BY <3>1, <3>2
  <2>4. \/ result.ok = TRUE /\ (~t.table[i].dirty => radio[i] = t.table[i].value)
        \/ result.ok = FALSE
    BY <2>1
  <2> QED BY <2>2, <2>3, <2>4
<1>4. \A j \in Slots : <<token, j>> \in t.updating <=> j = i
  BY <1>2
<1>5. DOMAIN t.table = Slots
  BY <1>1 DEF Tables
<1>6. t' = [t EXCEPT !.updating = {},
                     !.table = [j \in Slots |->
                        IF j = i /\ ~result.ok THEN [t.table[j] EXCEPT !.dirty = TRUE]
                        ELSE t.table[j]]]
  BY <1>3, <1>4, <1>5 DEF ReportResult, ReportUpdateResult
<1>7. /\ t' \in Tables
      /\ t'.values = t.values /\ t'.order = t.order /\ t'.updating = {}
      /\ \A j \in Slots : /\ t'.table[j].value = t.table[j].value
                          /\ j # i \/ result.ok => t'.table[j] = t.table[j]
      /\ ~result.ok => t'.table[i].dirty
  <2> DEFINE table == [j \in Slots |->
                        IF j = i /\ ~result.ok THEN [t.table[j] EXCEPT !.dirty = TRUE]
                        ELSE t.table[j]]
  <2>1. /\ table \in [Slots -> [dirty : BOOLEAN, value : SUBSET Values]]
        /\ \A j \in Slots : /\ table[j].value = t.table[j].value
                            /\ j # i \/ result.ok => table[j] = t.table[j]
        /\ ~result.ok => table[i].dirty
    BY <1>1 DEF Tables
  <2> HIDE DEF table
  <2>2. t' = [t EXCEPT !.updating = {}, !.table = table]
    BY <1>6 DEF table
  <2>3. /\ t'.values = t.values /\ t'.order = t.order /\ t'.table = table
        /\ t'.updating = {} /\ t' \in Tables
    BY <2>1, <2>2, <1>1 DEF Tables
  <2> QED BY <2>1, <2>3
<1>8. TableInv(t')
  BY <1>1, <1>7, FlagsKeepStructure
<1>9. TypeOK'
  BY <1>1, <1>3, <1>7 DEF TypeOK, ReportResult
<1>10. OneUpdate'
  BY <1>3, <1>7 DEF OneUpdate
<1>11. CleanMeansSynced'
  BY <1>2, <1>3, <1>7 DEF IndInv, CleanMeansSynced
<1> QED BY <1>8, <1>9, <1>10, <1>11 DEF IndInv

LEMMA NextInv == IndInv /\ [Next]_vars => IndInv'
<1> SUFFICES ASSUME IndInv, [Next]_vars PROVE IndInv'
  OBVIOUS
<1>1. TableInv(t)
  BY DEF IndInv
<1>2. ASSUME NEW v \in Values, Insert(v) PROVE IndInv'
  BY <1>1, <1>2, SetValueInv, OwnerKeepsInv DEF Insert
<1>3. ASSUME NEW v \in Values, Remove(v) PROVE IndInv'
  BY <1>1, <1>3, SetValueInv, OwnerKeepsInv DEF Remove
<1>4. ASSUME NEW v \in Values, PromoteOnly(v) PROVE IndInv'
  BY <1>1, <1>4, PromoteInv, OwnerKeepsInv DEF PromoteOnly
<1>5. CASE PollUpdate
  BY <1>5, PollKeepsInv
<1>6. ASSUME NEW update \in requests, RadioExecutes(update) \/ RadioFails(update)
      PROVE  IndInv'
  BY <1>6, RadioKeepsInv
<1>7. ASSUME NEW result \in results, ReportResult(result) PROVE IndInv'
  BY <1>7, ReportKeepsInv
<1>8. CASE UNCHANGED vars
  <2>1. TypeOK' /\ TableInv(t')
    BY <1>8 DEF vars, IndInv, TypeOK
  <2>2. OneUpdate'
    BY <1>8, Zenon DEF vars, IndInv, OneUpdate
  <2>3. CleanMeansSynced'
    BY <1>8 DEF vars, IndInv, CleanMeansSynced
  <2> QED BY <2>1, <2>2, <2>3 DEF IndInv
<1> QED BY <1>2, <1>3, <1>4, <1>5, <1>6, <1>7, <1>8 DEF Next

LEMMA IndInvHolds == Spec => []IndInv
  BY InitInv, NextInv, PTL DEF Spec

\* The fields of the table, the radio and the messages keep their types.
THEOREM TypeCorrect == Spec => []TypeOK
  BY IndInvHolds, PTL DEF IndInv

\* A slot the table takes for clean holds in the radio what the table says, for
\* any number of slots and addresses, whatever is set during an update and
\* whichever updates fail.
THEOREM Synced == Spec => []CleanMeansSynced
  BY IndInvHolds, PTL DEF IndInv

\* promote evicts an address only when no slot is free.
THEOREM EvictOnlyWhenFull == Spec => []FreeSlotsFirst
<1>1. IndInv => FreeSlotsFirst
  BY DEF IndInv, TableInv, FreeFirst, FreeSlotsFirst
<1> QED BY <1>1, IndInvHolds, PTL

\* The order of the slots remains a permutation of them.
THEOREM OrderStaysPermutation == Spec => []OrderIsPermutation
<1>1. IndInv => OrderIsPermutation
  BY DEF IndInv, TableInv, IsOrder, OrderIsPermutation
<1> QED BY <1>1, IndInvHolds, PTL

\* Between poll_update and the result it is reported, one update is under way at
\* most, its token is the one the table waits for, and a slot that was not
\* changed since then is being given, or has in the radio, the table's value.
THEOREM OneUpdateAtATime == Spec => []OneUpdate
  BY IndInvHolds, PTL DEF IndInv

\* No value is in two slots and no slot keeps a removed value.
THEOREM NoStaleSlot == Spec => []SlotsHoldValues
<1>1. IndInv => SlotsHoldValues
  BY DEF IndInv, TableInv, Holds, SlotsHoldValues
<1> QED BY <1>1, IndInvHolds, PTL

-----------------------------------------------------------------------------
(* The refinement of LruSet: what Cached is before and after a step.        *)

\* n free slots come first in the order, and s is what the others hold.
IsCache(tt, n, s) ==
  /\ n \in 0 .. Size
  /\ \A p \in Slots : Free(tt, p) <=> p <= n
  /\ s \in Seq(Values) /\ Len(s) = Size - n
  /\ \A p \in 1 .. Size - n : tt.table[tt.order[n + p]].value = {s[p]}

LEMMA LastFreeIs ==
  ASSUME NEW tt, NEW n \in 0 .. Size, \A p \in Slots : Free(tt, p) <=> p <= n
  PROVE  LastFree(tt) = n
<1> DEFINE Is(m) == (m > 0 => Free(tt, m)) /\ \A p \in m + 1 .. Size : ~Free(tt, p)
<1>1. Is(n)
  BY PendingTableAssumption DEF Slots
<1>2. ASSUME NEW m \in 0 .. Size, Is(m) PROVE m = n
  <2>1. CASE m < n
    <3>1. n \in m + 1 .. Size /\ n \in Slots
      BY <2>1, PendingTableAssumption DEF Slots
    <3> QED BY <3>1, <1>2
  <2>2. CASE n < m
    <3>1. m > 0 /\ m \in Slots
      BY <2>2, PendingTableAssumption DEF Slots
    <3> QED BY <3>1, <2>2, <1>2
  <2> QED BY <2>1, <2>2, PendingTableAssumption
<1> HIDE DEF Is
<1>3. LastFree(tt) = CHOOSE m \in 0 .. Size : Is(m)
  BY DEF LastFree, Is
<1>4. (CHOOSE m \in 0 .. Size : Is(m)) = n
  BY <1>1, <1>2
<1> QED BY <1>3, <1>4

LEMMA CachedIs ==
  ASSUME NEW tt, NEW n, NEW s, IsCache(tt, n, s)
  PROVE  Cached(tt) = s
<1>1. LastFree(tt) = n /\ n \in 0 .. Size
  BY LastFreeIs DEF IsCache
<1>2. s = [p \in 1 .. Size - n |-> s[p]]
  BY LenProperties DEF IsCache
<1>3. \A p \in 1 .. Size - n : (CHOOSE v \in tt.table[tt.order[n + p]].value : TRUE) = s[p]
  BY DEF IsCache
<1>4. Cached(tt) = [p \in 1 .. Size - n |-> CHOOSE v \in tt.table[tt.order[n + p]].value : TRUE]
  BY <1>1 DEF Cached
<1> QED BY <1>2, <1>3, <1>4, Zenon

\* A table that keeps its structure has such a cache.
LEMMA CacheExists ==
  ASSUME NEW tt, TableInv(tt)
  PROVE  \E n \in 0 .. Size : IsCache(tt, n, Cached(tt))
<1> DEFINE occupied == {p \in Slots : ~Free(tt, p)}
<1>1. \E n \in 0 .. Size : \A p \in Slots : Free(tt, p) <=> p <= n
  <2>1. CASE occupied = {}
    <3>1. Size \in 0 .. Size /\ \A p \in Slots : Free(tt, p) /\ p <= Size
      BY <2>1, PendingTableAssumption DEF Slots
    <3> QED BY <3>1
  <2>2. CASE occupied # {}
    <3>1. occupied \in SUBSET Nat
      BY DEF Slots
    <3>2. PICK x \in occupied : \A y \in occupied : x <= y
      BY <2>2, <3>1, LeastElementExists
    <3>3. x - 1 \in 0 .. Size
      BY PendingTableAssumption DEF Slots
    <3>4. ASSUME NEW p \in Slots PROVE Free(tt, p) <=> p <= x - 1
      <4>1. p <= x - 1 => Free(tt, p)
        BY <3>2, PendingTableAssumption DEF Slots
      <4>2. p = x => ~Free(tt, p)
        OBVIOUS
      <4>3. x < p => ~Free(tt, p)
        BY DEF TableInv, FreeFirst, Free
      <4> QED BY <4>1, <4>2, <4>3, PendingTableAssumption DEF Slots
    <3> QED BY <3>3, <3>4
  <2> QED BY <2>1, <2>2
<1>2. PICK n \in 0 .. Size : \A p \in Slots : Free(tt, p) <=> p <= n
  BY <1>1
<1>3. LastFree(tt) = n
  BY <1>2, LastFreeIs
<1> DEFINE at(p) == tt.table[tt.order[n + p]].value
           s == [p \in 1 .. Size - n |-> CHOOSE v \in at(p) : TRUE]
<1>4. Cached(tt) = s
  BY <1>3 DEF Cached
<1>5. ASSUME NEW p \in 1 .. Size - n
      PROVE  (CHOOSE v \in at(p) : TRUE) \in Values /\ at(p) = {CHOOSE v \in at(p) : TRUE}
  <2>1. n + p \in Slots /\ ~(n + p <= n)
    BY PendingTableAssumption DEF Slots
  <2>2. tt.order[n + p] \in Slots /\ at(p) # {}
    BY <2>1, <1>2 DEF Free, TableInv, IsOrder
  <2>3. at(p) \in SUBSET Values /\ \A v \in at(p) : at(p) = {v}
    BY <2>2 DEF TableInv, Tables, Holds
  <2> HIDE DEF at
  <2> QED BY <2>2, <2>3
<1> HIDE DEF at
<1>6. s \in [1 .. Size - n -> Values] /\ \A p \in 1 .. Size - n : at(p) = {s[p]}
  BY <1>5
<1> HIDE DEF s
<1>7. s \in Seq(Values) /\ Len(s) = Size - n
  BY <1>6, PendingTableAssumption
<1>8. IsCache(tt, n, s)
  BY <1>2, <1>6, <1>7 DEF IsCache, at
<1> QED BY <1>4, <1>8

\* A cached value is in the slot it is cached for, and in no other.
LEMMA CachePositions ==
  ASSUME NEW tt, TableInv(tt), NEW n, NEW s, IsCache(tt, n, s), NEW v \in Values
  PROVE  /\ Lru!PositionsOf(s, v) = {} <=> SlotsOf(tt, v) = {}
         /\ SlotsOf(tt, v) # {} =>
              LET pos == Position(tt.order, GetIndex(tt, v)) - n
              IN  pos \in 1 .. Len(s) /\ Lru!PositionsOf(s, v) = {pos}
<1>1. tt \in Tables /\ IsOrder(tt.order) /\ Holds(tt) /\ DOMAIN tt.table = Slots
  BY DEF TableInv, Tables
<1>2. /\ n \in 0 .. Size /\ Len(s) = Size - n
      /\ \A p \in 1 .. Len(s) : tt.table[tt.order[n + p]].value = {s[p]}
      /\ \A p \in Slots : Free(tt, p) <=> p <= n
  BY DEF IsCache
<1>3. ASSUME NEW p \in 1 .. Len(s), s[p] = v PROVE SlotsOf(tt, v) # {}
  <2>1. n + p \in Slots
    BY <1>2, PendingTableAssumption DEF Slots
  <2>2. tt.order[n + p] \in SlotsOf(tt, v)
    BY <2>1, <1>1, <1>2, <1>3 DEF SlotsOf, IsOrder
  <2> QED BY <2>2
<1>4. ASSUME SlotsOf(tt, v) # {}
      PROVE  LET pos == Position(tt.order, GetIndex(tt, v)) - n
             IN  pos \in 1 .. Len(s) /\ Lru!PositionsOf(s, v) = {pos}
  <2> DEFINE index == GetIndex(tt, v)
             at == Position(tt.order, index)
             pos == at - n
  <2>1. index \in Slots /\ tt.table[index].value = {v}
    BY <1>4, GetIndexHolds
  <2>2. at \in Slots /\ tt.order[at] = index
    BY <2>1, <1>1, OthersShape
  <2> HIDE DEF at, index
  <2>3. ~Free(tt, at)
    BY <2>1, <2>2 DEF Free
  <2>4. pos \in 1 .. Len(s) /\ n + pos = at
    BY <2>2, <2>3, <1>2, PendingTableAssumption DEF Slots
  <2>5. s[pos] = v
    <3>1. tt.table[tt.order[n + pos]].value = {s[pos]}
      BY <2>4, <1>2
    <3> QED BY <3>1, <2>1, <2>2, <2>4
  <2>6. ASSUME NEW p \in 1 .. Len(s), s[p] = v PROVE p = pos
    <3>1. n + p \in Slots
      BY <1>2, PendingTableAssumption DEF Slots
    <3>2. tt.table[tt.order[n + p]].value = {v} /\ tt.order[n + p] \in Slots
      BY <3>1, <1>1, <1>2, <2>6 DEF IsOrder
    <3>3. tt.order[n + p] = index
      BY <3>2, <2>1, <1>1 DEF Holds
    <3>4. n + p = at
      BY <3>1, <3>3, <2>2, <1>1 DEF IsOrder
    <3> QED BY <3>4, <1>2, PendingTableAssumption
  <2> HIDE DEF pos
  <2>7. Lru!PositionsOf(s, v) = {pos}
    BY <2>4, <2>5, <2>6 DEF Lru!PositionsOf
  <2> QED BY <2>4, <2>7 DEF pos, at, index
<1> QED BY <1>3, <1>4 DEF Lru!PositionsOf

\* Filter leaves the other values in their order.
LEMMA FilterShape ==
  ASSUME NEW s \in Seq(Values), NEW v, NEW pos \in 1 .. Len(s), Lru!PositionsOf(s, v) = {pos}
  PROVE  /\ Lru!Filter(s, v) \in Seq(Values) /\ Len(Lru!Filter(s, v)) = Len(s) - 1
         /\ \A i \in 1 .. Len(s) - 1 :
              Lru!Filter(s, v)[i] = IF i < pos THEN s[i] ELSE s[i + 1]
<1> DEFINE f == [i \in 1 .. Len(s) - 1 |-> IF i < pos THEN s[i] ELSE s[i + 1]]
<1>1. Lru!Filter(s, v) = f
  BY DEF Lru!Filter
<1>2. Len(s) \in Nat /\ \A i \in 1 .. Len(s) : s[i] \in Values
  BY LenProperties, ElementOfSeq
<1>3. f \in [1 .. Len(s) - 1 -> Values] /\ Len(s) - 1 \in Nat
  BY <1>2
<1>4. f \in Seq(Values) /\ Len(f) = Len(s) - 1
  BY <1>3
<1> QED BY <1>1, <1>4

\* A value that is in a slot becomes the last of the cache.
LEMMA PromoteCache ==
  ASSUME NEW tt, TableInv(tt), NEW v \in Values, SlotsOf(tt, v) # {}, NEW new,
         new = [tt EXCEPT !.order = PromoteIndex(@, GetIndex(tt, v))]
  PROVE  new.values = tt.values /\ Cached(new) = Append(Lru!Filter(Cached(tt), v), v)
<1> DEFINE index == GetIndex(tt, v)
           at == Position(tt.order, index)
           s == Cached(tt)
           rest == Lru!Filter(s, v)
           c == Append(rest, v)
<1>1. tt \in Tables /\ IsOrder(tt.order)
  BY DEF TableInv
<1>2. index \in Slots /\ tt.table[index].value = {v}
  BY GetIndexHolds
<1>3. at \in Slots /\ tt.order[at] = index
  BY <1>1, <1>2, OthersShape
<1>4. PromoteIndex(tt.order, index) =
        [p \in Slots |-> IF p = Size THEN index
                         ELSE IF p < at THEN tt.order[p] ELSE tt.order[p + 1]]
  BY <1>1, <1>2, PromoteShape
<1>5. /\ new.table = tt.table /\ new.values = tt.values
      /\ new.order = PromoteIndex(tt.order, index)
  BY <1>1 DEF Tables
<1>6. PICK n \in 0 .. Size : IsCache(tt, n, s)
  BY CacheExists
<1> DEFINE pos == at - n
<1>7. pos \in 1 .. Len(s) /\ Lru!PositionsOf(s, v) = {pos}
  BY <1>6, CachePositions
<1> HIDE DEF s
<1>8. /\ s \in Seq(Values) /\ Len(s) = Size - n
      /\ \A p \in Slots : Free(tt, p) <=> p <= n
      /\ \A p \in 1 .. Size - n : tt.table[tt.order[n + p]].value = {s[p]}
  BY <1>6 DEF IsCache
<1> HIDE DEF index, at
<1>9. /\ rest \in Seq(Values) /\ Len(rest) = Len(s) - 1
      /\ \A i \in 1 .. Len(s) - 1 : rest[i] = IF i < pos THEN s[i] ELSE s[i + 1]
  <2> HIDE DEF pos
  <2>1. s \in Seq(Values) /\ pos \in 1 .. Len(s) /\ Lru!PositionsOf(s, v) = {pos}
    BY <1>7, <1>8
  <2> QED BY <2>1, FilterShape, Zenon
<1> HIDE DEF rest
<1>10. /\ c \in Seq(Values) /\ Len(c) = Size - n
       /\ \A p \in 1 .. Size - n :
            c[p] = IF p = Size - n THEN v ELSE IF p < pos THEN s[p] ELSE s[p + 1]
  <2>1. /\ c \in Seq(Values) /\ Len(c) = Len(rest) + 1
        /\ \A p \in 1 .. Len(rest) : c[p] = rest[p]
        /\ c[Len(rest) + 1] = v
    BY <1>9, AppendProperties
  <2> HIDE DEF c, pos
  <2>2. Len(rest) = Size - n - 1 /\ Size - n \in Nat
    BY <1>8, <1>9, PendingTableAssumption
  <2> QED BY <2>1, <2>2, <1>8, <1>9
<1> HIDE DEF c
<1>11. \A p \in Slots : new.order[p] = IF p = Size THEN index
                                       ELSE IF p < at THEN tt.order[p] ELSE tt.order[p + 1]
  BY <1>4, <1>5
<1>12. ASSUME NEW p \in Slots PROVE Free(new, p) <=> p <= n
  <2>1. n < at
    <3>1. ~Free(tt, at)
      BY <1>2, <1>3 DEF Free
    <3>2. ~(at <= n)
      BY <3>1, <1>3, <1>8
    <3> QED BY <3>2, <1>3, PendingTableAssumption DEF Slots
  <2>2. CASE p = Size
    BY <2>1, <2>2, <1>2, <1>3, <1>5, <1>11, PendingTableAssumption DEF Free, Slots
  <2>3. CASE p # Size /\ p < at
    BY <2>3, <1>5, <1>8, <1>11 DEF Free
  <2>4. CASE p # Size /\ ~(p < at)
    <3>1. p + 1 \in Slots /\ ~(p <= n) /\ ~(p + 1 <= n)
      BY <2>1, <2>4, <1>3, PendingTableAssumption DEF Slots
    <3>2. ~Free(tt, p + 1)
      BY <3>1, <1>8
    <3>3. new.order[p] = tt.order[p + 1]
      BY <2>4, <1>11
    <3> QED BY <3>1, <3>2, <3>3, <1>5 DEF Free
  <2> QED BY <2>2, <2>3, <2>4
<1>13. ASSUME NEW p \in 1 .. Size - n PROVE new.table[new.order[n + p]].value = {c[p]}
  <2>1. n + p \in Slots /\ (n + p = Size <=> p = Size - n) /\ (n + p < at <=> p < pos)
    BY <1>3, PendingTableAssumption DEF Slots
  <2>2. CASE p = Size - n
    BY <2>1, <2>2, <1>2, <1>5, <1>10, <1>11
  <2>3. CASE p # Size - n /\ p < pos
    BY <2>1, <2>3, <1>5, <1>8, <1>10, <1>11
  <2>4. CASE p # Size - n /\ ~(p < pos)
    <3>1. p + 1 \in 1 .. Size - n /\ n + (p + 1) = n + p + 1
      BY <2>4, PendingTableAssumption
    <3>2. tt.table[tt.order[n + p + 1]].value = {s[p + 1]}
      BY <3>1, <1>8
    <3>3. new.order[n + p] = tt.order[n + p + 1]
      BY <2>1, <2>4, <1>11
    <3>4. c[p] = s[p + 1]
      BY <2>4, <1>10
    <3> QED BY <3>2, <3>3, <3>4, <1>5
  <2> QED BY <2>2, <2>3, <2>4
<1>14. IsCache(new, n, c)
  BY <1>10, <1>12, <1>13 DEF IsCache
<1> QED BY <1>5, <1>14, CachedIs DEF c, rest, s

\* A value that is in no slot goes to the end of the cache, at the expense of the
\* first one if no slot is free.
LEMMA OverwriteCache ==
  ASSUME NEW tt, TableInv(tt), NEW v \in Values, NEW new,
         new = Overwrite(tt, tt.order[1], v)
  PROVE  /\ new.values = tt.values
         /\ Cached(new) = IF Len(Cached(tt)) = Size THEN Append(Tail(Cached(tt)), v)
                          ELSE Append(Cached(tt), v)
<1> DEFINE first == tt.order[1]
           s == Cached(tt)
           rest == IF Len(s) = Size THEN Tail(s) ELSE s
           c == Append(rest, v)
<1>1. tt \in Tables /\ IsOrder(tt.order) /\ 1 \in Slots /\ first \in Slots
  <2>1. 1 \in Slots
    BY PendingTableAssumption DEF Slots
  <2> QED BY <2>1 DEF TableInv, IsOrder
<1>2. Position(tt.order, first) = 1
  BY <1>1, OthersShape DEF IsOrder
<1>3. /\ new.values = tt.values /\ new.order = PromoteIndex(tt.order, first)
      /\ new.table = [tt.table EXCEPT ![first] = [dirty |-> TRUE, value |-> {v}]]
  BY <1>1 DEF Overwrite, NewEntry, Tables
<1>4. \A i \in Slots : new.table[i].value = IF i = first THEN {v} ELSE tt.table[i].value
  BY <1>1, <1>3 DEF Tables
<1>5. \A p \in Slots : new.order[p] = IF p = Size THEN first ELSE tt.order[p + 1]
  <2>1. new.order = [p \in Slots |-> IF p = Size THEN first
                                    ELSE IF p < 1 THEN tt.order[p] ELSE tt.order[p + 1]]
    <3>1. PromoteIndex(tt.order, first) =
            [p \in Slots |-> IF p = Size THEN first
                             ELSE IF p < Position(tt.order, first) THEN tt.order[p]
                             ELSE tt.order[p + 1]]
      BY <1>1, PromoteShape
    <3> QED BY <3>1, <1>2, <1>3
  <2>2. \A p \in Slots : ~(p < 1)
    BY DEF Slots
  <2> HIDE DEF first
  <2> QED BY <2>1, <2>2
<1>6. PICK n \in 0 .. Size : IsCache(tt, n, s)
  BY CacheExists
<1> DEFINE m == IF n = 0 THEN 0 ELSE n - 1
<1> HIDE DEF s
<1>7. /\ s \in Seq(Values) /\ Len(s) = Size - n
      /\ \A p \in Slots : Free(tt, p) <=> p <= n
      /\ \A p \in 1 .. Size - n : tt.table[tt.order[n + p]].value = {s[p]}
  BY <1>6 DEF IsCache
<1>8. /\ m \in 0 .. Size /\ rest \in Seq(Values) /\ Len(rest) = Size - m - 1
      /\ \A p \in 1 .. Len(rest) : tt.table[tt.order[m + 1 + p]].value = {rest[p]}
  <2>1. CASE n = 0
    <3>1. Len(s) = Size /\ s # <<>> /\ rest = Tail(s) /\ m = 0
      BY <2>1, <1>7, PendingTableAssumption
    <3>2. /\ rest \in Seq(Values) /\ Len(rest) = Size - 1
          /\ \A p \in 1 .. Len(rest) : rest[p] = s[p + 1]
      BY <3>1, <1>7, HeadTailProperties
    <3>3. \A p \in 1 .. Len(rest) : p + 1 \in 1 .. Size - n /\ n + (p + 1) = m + 1 + p
      BY <2>1, <3>1, <3>2, PendingTableAssumption
    <3> HIDE DEF rest
    <3>4. ASSUME NEW p \in 1 .. Len(rest)
          PROVE  tt.table[tt.order[m + 1 + p]].value = {rest[p]}
      <4>1. tt.table[tt.order[n + (p + 1)]].value = {s[p + 1]}
        BY <3>3, <1>7
      <4> QED BY <4>1, <3>2, <3>3
    <3>5. m \in 0 .. Size /\ Len(rest) = Size - m - 1
      BY <3>1, <3>2, PendingTableAssumption
    <3> QED BY <3>2, <3>4, <3>5
  <2>2. CASE n # 0
    <3>1. rest = s /\ m = n - 1 /\ Len(s) = Size - m - 1
      BY <2>2, <1>7, PendingTableAssumption
    <3>2. m \in 0 .. Size /\ \A p \in 1 .. Len(s) : m + 1 + p = n + p /\ p \in 1 .. Size - n
      BY <2>2, <1>7, <3>1, PendingTableAssumption
    <3> HIDE DEF rest, m
    <3> QED BY <3>1, <3>2, <1>7
  <2> QED BY <2>1, <2>2
<1>9. /\ c \in Seq(Values) /\ Len(c) = Size - m
      /\ \A p \in 1 .. Size - m : c[p] = IF p = Size - m THEN v ELSE rest[p]
  <2> HIDE DEF rest, m
  <2>1. /\ c \in Seq(Values) /\ Len(c) = Len(rest) + 1
        /\ \A p \in 1 .. Len(rest) : c[p] = rest[p]
        /\ c[Len(rest) + 1] = v
    BY <1>8, AppendProperties
  <2> HIDE DEF c
  <2> QED BY <2>1, <1>8, PendingTableAssumption
<1> HIDE DEF rest, c
<1>10. m < Size
  BY PendingTableAssumption
<1>11. ASSUME NEW p \in Slots PROVE Free(new, p) <=> p <= m
  <2>1. CASE p = Size
    BY <2>1, <1>1, <1>4, <1>5, <1>10, PendingTableAssumption DEF Free, Slots
  <2>2. CASE p # Size
    <3>1. p + 1 \in Slots /\ (p + 1 <= n <=> p <= m)
      BY <2>2, PendingTableAssumption DEF Slots
    <3>2. new.order[p] = tt.order[p + 1]
      BY <2>2, <1>5
    <3>4. tt.order[p + 1] \in Slots /\ tt.order[p + 1] # first
      <4>1. p + 1 # 1
        BY DEF Slots
      <4> QED BY <4>1, <3>1, <1>1 DEF IsOrder
    <3>3. Free(new, p) <=> Free(tt, p + 1)
      BY <3>2, <3>4, <1>4 DEF Free
    <3> QED BY <3>1, <3>3, <1>7
  <2> QED BY <2>1, <2>2
<1>12. ASSUME NEW p \in 1 .. Size - m PROVE new.table[new.order[m + p]].value = {c[p]}
  <2>1. m + p \in Slots /\ (m + p = Size <=> p = Size - m)
    BY <1>8, PendingTableAssumption DEF Slots
  <2>2. CASE p = Size - m
    <3>1. new.order[m + p] = first /\ c[p] = v
      BY <2>1, <2>2, <1>5, <1>9
    <3> QED BY <3>1, <1>1, <1>4
  <2>3. CASE p # Size - m
    <3>1. m + p + 1 \in Slots /\ m + p + 1 # 1 /\ m + 1 + p = m + p + 1 /\ p \in 1 .. Len(rest)
      BY <2>1, <2>3, <1>8, PendingTableAssumption DEF Slots
    <3>2. new.order[m + p] = tt.order[m + p + 1]
      <4> HIDE DEF m
      <4> QED BY <2>1, <2>3, <1>5
    <3>3. tt.order[m + p + 1] \in Slots /\ tt.order[m + p + 1] # first
      BY <3>1, <1>1 DEF IsOrder
    <3>4. tt.table[tt.order[m + p + 1]].value = {rest[p]} /\ c[p] = rest[p]
      BY <2>3, <3>1, <1>8, <1>9
    <3> QED BY <3>2, <3>3, <3>4, <1>4
  <2> QED BY <2>2, <2>3
<1>13. IsCache(new, m, c)
  BY <1>8, <1>9, <1>11, <1>12 DEF IsCache
<1> QED BY <1>3, <1>13, CachedIs DEF c, rest, s

\* A value that is removed leaves the cache.
LEMMA FreeCache ==
  ASSUME NEW tt, TableInv(tt), NEW v \in Values, SlotsOf(tt, v) # {}, NEW left, NEW new,
         left = [tt EXCEPT !.values = @ \ {v}], new = FreeSlot(left, GetIndex(tt, v))
  PROVE  new.values = tt.values \ {v} /\ Cached(new) = Lru!Filter(Cached(tt), v)
<1> DEFINE index == GetIndex(tt, v)
           at == Position(tt.order, index)
           s == Cached(tt)
           c == Lru!Filter(s, v)
<1>1. tt \in Tables /\ IsOrder(tt.order)
  BY DEF TableInv
<1>2. index \in Slots /\ tt.table[index].value = {v}
  BY GetIndexHolds
<1>3. at \in Slots /\ tt.order[at] = index
  BY <1>1, <1>2, OthersShape
<1>4. DemoteIndex(tt.order, index) =
        [p \in Slots |-> IF p = 1 THEN index
                         ELSE IF p - 1 < at THEN tt.order[p - 1] ELSE tt.order[p]]
  BY <1>1, <1>2, DemoteShape
<1>5. /\ new.values = tt.values \ {v} /\ new.order = DemoteIndex(tt.order, index)
      /\ new.table = [tt.table EXCEPT ![index] = [dirty |-> TRUE, value |-> {}]]
  <2>1. /\ left.values = tt.values \ {v} /\ left.order = tt.order /\ left.table = tt.table
        /\ left = [values |-> left.values, table |-> tt.table, order |-> tt.order,
                   updating |-> tt.updating]
    BY <1>1 DEF Tables
  <2> QED BY <2>1 DEF FreeSlot, Default
<1>6. PICK n \in 0 .. Size : IsCache(tt, n, s)
  BY CacheExists
<1> DEFINE pos == at - n
<1>7. pos \in 1 .. Len(s) /\ Lru!PositionsOf(s, v) = {pos}
  BY <1>6, CachePositions
<1> HIDE DEF s
<1>8. /\ s \in Seq(Values) /\ Len(s) = Size - n
      /\ \A p \in Slots : Free(tt, p) <=> p <= n
      /\ \A p \in 1 .. Size - n : tt.table[tt.order[n + p]].value = {s[p]}
  BY <1>6 DEF IsCache
<1> HIDE DEF index, at
<1>9. /\ c \in Seq(Values) /\ Len(c) = Len(s) - 1
      /\ \A i \in 1 .. Len(s) - 1 : c[i] = IF i < pos THEN s[i] ELSE s[i + 1]
  <2> HIDE DEF pos
  <2>1. s \in Seq(Values) /\ pos \in 1 .. Len(s) /\ Lru!PositionsOf(s, v) = {pos}
    BY <1>7, <1>8
  <2> QED BY <2>1, FilterShape, Zenon
<1> HIDE DEF c
<1>10. n < at /\ n + 1 \in 0 .. Size
  <2>1. ~Free(tt, at)
    BY <1>2, <1>3 DEF Free
  <2>2. ~(at <= n)
    BY <2>1, <1>3, <1>8
  <2> QED BY <2>2, <1>3, PendingTableAssumption DEF Slots
<1>11. \A p \in Slots : new.order[p] = IF p = 1 THEN index
                                       ELSE IF p - 1 < at THEN tt.order[p - 1] ELSE tt.order[p]
  BY <1>4, <1>5
<1>12. \A i \in Slots : new.table[i].value = IF i = index THEN {} ELSE tt.table[i].value
  <2>1. \A i \in Slots :
          new.table[i] = IF i = index THEN [dirty |-> TRUE, value |-> {}] ELSE tt.table[i]
    BY <1>1, <1>5 DEF Tables
  <2> SUFFICES ASSUME NEW i \in Slots
               PROVE  new.table[i].value = IF i = index THEN {} ELSE tt.table[i].value
    OBVIOUS
  <2>2. CASE i = index
    <3>1. new.table[i] = [dirty |-> TRUE, value |-> {}]
      BY <2>1, <2>2
    <3>2. new.table[i].value = {}
      BY <3>1
    <3> QED BY <2>2, <3>2
  <2>3. CASE i # index
    BY <2>1, <2>3
  <2> QED BY <2>2, <2>3
<1>13. \A p \in Slots : p # at => tt.order[p] \in Slots /\ tt.order[p] # index
  BY <1>1, <1>3 DEF IsOrder
<1>14. ASSUME NEW p \in Slots PROVE Free(new, p) <=> p <= n + 1
  <2>1. CASE p = 1
    <3>1. Free(new, p)
      BY <2>1, <1>2, <1>11, <1>12 DEF Free
    <3>2. 1 <= n + 1
      BY PendingTableAssumption
    <3> QED BY <2>1, <3>1, <3>2
  <2>2. CASE p # 1 /\ p - 1 < at
    <3>1. p - 1 \in Slots /\ p - 1 # at /\ (p - 1 <= n <=> p <= n + 1)
      BY <2>2, <1>3, PendingTableAssumption DEF Slots
    <3>2. new.order[p] = tt.order[p - 1] /\ tt.order[p - 1] \in Slots /\ tt.order[p - 1] # index
      BY <2>2, <3>1, <1>11, <1>13
    <3>3. Free(new, p) <=> Free(tt, p - 1)
      BY <3>2, <1>12 DEF Free
    <3> QED BY <3>1, <3>3, <1>8
  <2>3. CASE p # 1 /\ ~(p - 1 < at)
    <3>1. p # at /\ ~(p <= n) /\ ~(p <= n + 1)
      BY <2>3, <1>3, <1>10 DEF Slots
    <3>2. new.order[p] = tt.order[p] /\ tt.order[p] \in Slots /\ tt.order[p] # index
      BY <2>3, <3>1, <1>11, <1>13
    <3>3. Free(new, p) <=> Free(tt, p)
      BY <3>2, <1>12 DEF Free
    <3> QED BY <3>1, <3>3, <1>8
  <2> QED BY <2>1, <2>2, <2>3
<1>15. ASSUME NEW p \in 1 .. Size - (n + 1) PROVE new.table[new.order[n + 1 + p]].value = {c[p]}
  <2>1. /\ n + 1 + p \in Slots /\ n + 1 + p # 1 /\ n + 1 + p - 1 = n + p /\ n + p \in Slots
        /\ (n + 1 + p - 1 < at <=> p < pos) /\ p \in 1 .. Len(s) - 1
    <3>1. n \in Nat /\ p \in Nat /\ 1 <= p /\ n + 1 + p <= Size /\ Size \in Nat /\ at \in Nat
      BY <1>3, PendingTableAssumption DEF Slots
    <3>2. n + 1 + p \in Slots /\ n + 1 + p # 1 /\ n + 1 + p - 1 = n + p /\ n + p \in Slots
      BY <3>1 DEF Slots
    <3>3. n + 1 + p - 1 < at <=> p < pos
      BY <3>1
    <3>4. p \in 1 .. Len(s) - 1
      BY <3>1, <1>8
    <3> QED BY <3>2, <3>3, <3>4
  <2>2. CASE p < pos
    <3>1. n + p # at /\ p \in 1 .. Size - n
      BY <2>2, <1>3, PendingTableAssumption DEF Slots
    <3>2. new.order[n + 1 + p] = tt.order[n + p]
      <4> DEFINE r == n + 1 + p
      <4>1. r \in Slots /\ r # 1
        BY <2>1
      <4> HIDE DEF r
      <4>2. new.order[r] = IF r - 1 < at THEN tt.order[r - 1] ELSE tt.order[r]
        BY <4>1, <1>11
      <4> QED BY <4>2, <2>1, <2>2 DEF r
    <3>3. tt.order[n + p] \in Slots /\ tt.order[n + p] # index
      BY <2>1, <3>1, <1>13
    <3>4. c[p] = s[p] /\ tt.table[tt.order[n + p]].value = {s[p]}
      BY <2>1, <2>2, <3>1, <1>8, <1>9
    <3> QED BY <3>2, <3>3, <3>4, <1>12
  <2>3. CASE ~(p < pos)
    <3>1. n + 1 + p # at /\ p + 1 \in 1 .. Size - n /\ n + (p + 1) = n + 1 + p
      BY <2>3, <1>3, PendingTableAssumption DEF Slots
    <3>2. new.order[n + 1 + p] = tt.order[n + 1 + p]
      <4> DEFINE r == n + 1 + p
      <4>1. r \in Slots /\ r # 1
        BY <2>1
      <4> HIDE DEF r
      <4>2. new.order[r] = IF r - 1 < at THEN tt.order[r - 1] ELSE tt.order[r]
        BY <4>1, <1>11
      <4> QED BY <4>2, <2>1, <2>3 DEF r
    <3>3. tt.order[n + 1 + p] \in Slots /\ tt.order[n + 1 + p] # index
      BY <2>1, <3>1, <1>13
    <3>4. c[p] = s[p + 1]
      BY <2>1, <2>3, <1>9
    <3>5. tt.table[tt.order[n + 1 + p]].value = {s[p + 1]}
      BY <3>1, <1>8
    <3> QED BY <3>2, <3>3, <3>4, <3>5, <1>12
  <2> QED BY <2>2, <2>3
<1>16. Len(c) = Size - (n + 1)
  BY <1>8, <1>9, PendingTableAssumption
<1>17. IsCache(new, n + 1, c)
  BY <1>9, <1>10, <1>14, <1>15, <1>16 DEF IsCache
<1> QED BY <1>5, <1>17, CachedIs DEF c, s

\* The cache depends on the order and on the slots' values only.
LEMMA SameCache ==
  ASSUME NEW tt, TableInv(tt), NEW new, new.order = tt.order,
         \A i \in Slots : new.table[i].value = tt.table[i].value
  PROVE  Cached(new) = Cached(tt)
<1> DEFINE s == Cached(tt)
<1>1. PICK n \in 0 .. Size : IsCache(tt, n, s)
  BY CacheExists
<1>2. \A p \in Slots : tt.order[p] \in Slots
  BY DEF TableInv, IsOrder
<1>3. \A p \in 1 .. Size - n : n + p \in Slots
  BY PendingTableAssumption DEF Slots
<1> HIDE DEF s
<1>4. IsCache(new, n, s)
  BY <1>1, <1>2, <1>3 DEF IsCache, Free
<1> QED BY <1>4, CachedIs DEF s

LEMMA InitLru == Init => Lru!Init
<1> SUFFICES ASSUME Init PROVE Lru!Init
  OBVIOUS
<1>1. /\ t.values = {} /\ t.order = [i \in Slots |-> i]
      /\ \A i \in Slots : t.table[i].value = {}
  BY DEF Init, AssumeEmpty, NewTable, Default, Slots
<1>2. \A p \in Slots : Free(t, p) /\ p <= Size
  BY <1>1 DEF Free, Slots
<1>3. <<>> \in Seq(Values) /\ Len(<<>>) = Size - Size /\ Size \in 0 .. Size
  BY PendingTableAssumption
<1>4. IsCache(t, Size, <<>>)
  BY <1>2, <1>3 DEF IsCache
<1>5. Cached(t) = <<>>
  BY <1>4, CachedIs
<1> QED BY <1>1, <1>5 DEF Lru!Init

\* promote of a value that was inserted is Touch.
LEMMA PromoteTouches ==
  ASSUME NEW tt, TableInv(tt), NEW v \in tt.values
  PROVE  /\ Promote(tt, v).values = tt.values
         /\ Cached(Promote(tt, v)) =
              IF Lru!PositionsOf(Cached(tt), v) # {} THEN Append(Lru!Filter(Cached(tt), v), v)
              ELSE IF Len(Cached(tt)) = Size THEN Append(Tail(Cached(tt)), v)
              ELSE Append(Cached(tt), v)
<1>1. v \in Values
  BY DEF TableInv, Tables
<1>2. Lru!PositionsOf(Cached(tt), v) = {} <=> SlotsOf(tt, v) = {}
  BY <1>1, CacheExists, CachePositions
<1>3. CASE SlotsOf(tt, v) # {}
  <2>1. Promote(tt, v) = [tt EXCEPT !.order = PromoteIndex(@, GetIndex(tt, v))]
    BY <1>3 DEF Promote
  <2> QED BY <2>1, <1>1, <1>2, <1>3, PromoteCache
<1>4. CASE SlotsOf(tt, v) = {}
  <2>1. Promote(tt, v) = Overwrite(tt, tt.order[1], v)
    BY <1>4 DEF Promote
  <2> QED BY <2>1, <1>1, <1>2, <1>4, OverwriteCache
<1> QED BY <1>3, <1>4

LEMMA InsertIsLru ==
  ASSUME IndInv, NEW v \in Values, Insert(v)
  PROVE  Lru!InsertValue(v)
<1> DEFINE more == [t EXCEPT !.values = @ \cup {v}]
<1>1. TableInv(t) /\ t \in Tables
  BY DEF IndInv, TypeOK
<1>2. /\ more.table = t.table /\ more.order = t.order /\ more.values = t.values \cup {v}
      /\ TableInv(more)
  BY <1>1 DEF TableInv, Tables, FreeFirst, Holds
<1>3. t' = Promote(more, v)
  BY DEF Insert, SetValue, InsertValue
<1> HIDE DEF more
<1>4. Cached(more) = Cached(t)
  BY <1>1, <1>2, SameCache
<1>5. v \in more.values
  BY <1>2
<1> QED BY <1>2, <1>3, <1>4, <1>5, PromoteTouches DEF Lru!InsertValue, Lru!Touch, Lru!InCache

LEMMA RemoveIsLru ==
  ASSUME IndInv, NEW v \in Values, Remove(v)
  PROVE  Lru!RemoveValue(v)
<1> DEFINE left == [t EXCEPT !.values = @ \ {v}]
<1>1. TableInv(t) /\ t \in Tables
  BY DEF IndInv, TypeOK
<1>2. t' = RemoveValue(t, v)
  BY DEF Remove, SetValue
<1>3. CASE v \in t.values /\ SlotsOf(t, v) # {}
  <2>1. t' = FreeSlot(left, GetIndex(t, v))
    BY <1>2, <1>3 DEF RemoveValue
  <2> QED BY <2>1, <1>1, <1>3, FreeCache DEF Lru!RemoveValue
<1>4. CASE ~(v \in t.values /\ SlotsOf(t, v) # {})
  <2>1. t' = left
    BY <1>2, <1>4 DEF RemoveValue
  <2>2. /\ left.table = t.table /\ left.order = t.order /\ left.values = t.values \ {v}
    BY <1>1 DEF Tables
  <2>3. SlotsOf(t, v) = {}
    BY <1>1, <1>4 DEF TableInv, Holds, SlotsOf, Tables
  <2>4. Lru!PositionsOf(Cached(t), v) = {}
    BY <2>3, <1>1, CacheExists, CachePositions
  <2>5. Cached(t') = Cached(t)
    BY <2>1, <2>2, <1>1, SameCache
  <2> QED BY <2>1, <2>2, <2>4, <2>5 DEF Lru!RemoveValue, Lru!Filter
<1> QED BY <1>3, <1>4

LEMMA PromoteIsLru ==
  ASSUME IndInv, NEW v \in Values, PromoteOnly(v)
  PROVE  Lru!Promote(v) \/ UNCHANGED Lru!lruVars
<1>1. TableInv(t)
  BY DEF IndInv
<1>2. CASE v \in t.values
  BY <1>1, <1>2, PromoteTouches DEF PromoteOnly, Lru!Promote, Lru!Touch, Lru!InCache
<1>3. CASE v \notin t.values
  BY <1>3 DEF PromoteOnly, Promote, Lru!lruVars
<1> QED BY <1>2, <1>3

\* Updates and their results are no concern of LruSet.
LEMMA OthersAreSteady ==
  ASSUME IndInv,
         \/ PollUpdate \/ UNCHANGED vars
         \/ \E update \in requests : RadioExecutes(update) \/ RadioFails(update)
         \/ \E result \in results : ReportResult(result)
  PROVE  UNCHANGED Lru!lruVars
<1>1. TableInv(t) /\ t \in Tables
  BY DEF IndInv, TypeOK
<1>2. /\ t'.values = t.values /\ t'.order = t.order
      /\ \A i \in Slots : t'.table[i].value = t.table[i].value
  <2>1. CASE PollUpdate
    <3> DEFINE i == FirstDirty(t)
               table == [t.table EXCEPT ![i].dirty = FALSE]
    <3>1. \A j \in Slots : table[j].value = t.table[j].value
      BY <1>1 DEF Tables
    <3>2. t' = [t EXCEPT !.table = table, !.updating = {<<next_key, i>>}]
      BY <2>1, <1>1 DEF PollUpdate, StartUpdate
    <3> HIDE DEF table, i
    <3> QED BY <3>1, <3>2, <1>1 DEF Tables
  <2>2. CASE \E update \in requests : RadioExecutes(update) \/ RadioFails(update)
    BY <2>2 DEF RadioExecutes, RadioFails
  <2>3. ASSUME NEW result \in results, ReportResult(result)
        PROVE  /\ t'.values = t.values /\ t'.order = t.order
               /\ \A i \in Slots : t'.table[i].value = t.table[i].value
    <3> DEFINE table == [i \in Slots |->
                           IF <<result.token, i>> \in t.updating /\ ~result.ok
                           THEN [t.table[i] EXCEPT !.dirty = TRUE] ELSE t.table[i]]
    <3>1. \A i \in Slots : table[i].value = t.table[i].value
      BY <1>1 DEF Tables
    <3>2. t' = t \/ t' = [t EXCEPT !.updating = {}, !.table = table]
      BY <2>3, <1>1 DEF ReportResult, ReportUpdateResult, Tables
    <3> HIDE DEF table
    <3> QED BY <3>1, <3>2, <1>1 DEF Tables
  <2>4. CASE UNCHANGED vars
    BY <2>4 DEF vars
  <2> QED BY <2>1, <2>2, <2>3, <2>4
<1>3. Cached(t') = Cached(t)
  BY <1>1, <1>2, SameCache
<1> QED BY <1>2, <1>3 DEF Lru!lruVars

\* PendingTable implements LruSet: every call of its owner is the abstract operation
\* of the same name (a promotion of a value that was not inserted is none), and
\* neither the updates sent to the radio nor their results change what is cached.
THEOREM RefinesLru == Spec => ImplementsLru
<1>1. IndInv /\ [Next]_vars => [Lru!Next]_Lru!lruVars
  <2> SUFFICES ASSUME IndInv, [Next]_vars PROVE [Lru!Next]_Lru!lruVars
    OBVIOUS
  <2>1. ASSUME NEW v \in Values, Insert(v) PROVE Lru!Next
    BY <2>1, InsertIsLru DEF Lru!Next
  <2>2. ASSUME NEW v \in Values, Remove(v) PROVE Lru!Next
    BY <2>2, RemoveIsLru DEF Lru!Next
  <2>3. ASSUME NEW v \in Values, PromoteOnly(v) PROVE [Lru!Next]_Lru!lruVars
    BY <2>3, PromoteIsLru DEF Lru!Next
  <2>4. CASE \/ PollUpdate \/ UNCHANGED vars
             \/ \E update \in requests : RadioExecutes(update) \/ RadioFails(update)
             \/ \E result \in results : ReportResult(result)
    BY <2>4, OthersAreSteady
  <2> QED BY <2>1, <2>2, <2>3, <2>4 DEF Next
<1> QED BY <1>1, InitLru, IndInvHolds, PTL DEF Spec, ImplementsLru, Lru!Spec
=============================================================================
