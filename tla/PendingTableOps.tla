--------------------------- MODULE PendingTableOps --------------------------
(***************************************************************************)
(* src/src/ieee802154/mac/pendingtable.rs as operators on a table value    *)
(* t = [values, table, order, updating]: the mirror of the fixed number of *)
(* pending-data slots in the radio.                                        *)
(*                                                                         *)
(* Slots are 1 .. size (0 .. size - 1 in the code).  An Option is a set    *)
(* with at most one element.                                               *)
(***************************************************************************)
EXTENDS Integers, Sequences

Default == [dirty |-> TRUE, value |-> {}]
NewEntry(value) == [dirty |-> TRUE, value |-> {value}]

NewTable(size) ==
  [values |-> {}, table |-> [i \in 1 .. size |-> Default],
   order |-> [i \in 1 .. size |-> i], updating |-> {}]

\* Once the radio has cleared its table, only slots with a value need sending.
AllClean(t) ==
  [t EXCEPT !.table = [i \in DOMAIN @ |-> [@[i] EXCEPT !.dirty = FALSE]]]
AssumeEmpty(t) ==
  [t EXCEPT !.table =
     [i \in DOMAIN @ |-> [dirty |-> @[i].value # {}, value |-> @[i].value]]]

\* The slots that hold value; get_index is the only one, if there is one.
SlotsOf(t, value) == {i \in DOMAIN t.table : t.table[i].value = {value}}
GetIndex(t, value) ==
  CHOOSE i \in SlotsOf(t, value) : \A j \in SlotsOf(t, value) : i <= j

\* order.retain(x # index), for an order in which index occurs once
Position(order, index) == CHOOSE p \in 1 .. Len(order) : order[p] = index
DropFirst(order, index) == Tail(order)
Others(order, index) ==
  [p \in 1 .. Len(order) - 1 |->
     IF p < Position(order, index) THEN order[p] ELSE order[p + 1]]

KeepOrder(order, index) == order
PromoteIndex(order, index) == Append(Others(order, index), index)
DemoteKeepsOld(order, index) == <<index>> \o order
DemoteIndex(order, index) == <<index>> \o Others(order, index)

\* promote of a value that is in values
OverwriteClean(t, index, value) ==
  [t EXCEPT !.table[index].value = {value},
            !.order = PromoteIndex(@, index)]
Overwrite(t, index, value) ==
  [t EXCEPT !.table[index] = NewEntry(value),
            !.order = PromoteIndex(@, index)]

Promote(t, value) ==
  CASE value \notin t.values -> t
    [] value \in t.values /\ SlotsOf(t, value) # {} ->
         [t EXCEPT !.order = PromoteIndex(@, GetIndex(t, value))]
    [] value \in t.values /\ SlotsOf(t, value) = {} ->
         Overwrite(t, t.order[1], value)

InsertValue(t, value) == Promote([t EXCEPT !.values = @ \cup {value}], value)

KeepSlot(t, index) == [t EXCEPT !.order = DemoteIndex(@, index)]
FreeSlot(t, index) ==
  [t EXCEPT !.table[index] = Default, !.order = DemoteIndex(@, index)]

RemoveValue(t, value) ==
  LET left == [t EXCEPT !.values = @ \ {value}]
  IN  IF value \in t.values /\ SlotsOf(t, value) # {}
      THEN FreeSlot(left, GetIndex(t, value)) ELSE left

SetValue(t, value, inserted) ==
  IF inserted THEN InsertValue(t, value) ELSE RemoveValue(t, value)

\* updating holds the token and the slot of the update the radio is working on
ForgetFailure(t, token, result) ==
  IF result /\ \E i \in DOMAIN t.table : <<token, i>> \in t.updating
  THEN [t EXCEPT !.updating = {}] ELSE t

ReportUpdateResult(t, token, result) ==
  IF \E i \in DOMAIN t.table : <<token, i>> \in t.updating
  THEN [t EXCEPT !.updating = {},
                 !.table = [i \in DOMAIN @ |->
                    IF <<token, i>> \in t.updating /\ ~result
                    THEN [@[i] EXCEPT !.dirty = TRUE] ELSE @[i]]]
  ELSE t

DirtySlots(t) == {i \in DOMAIN t.table : t.table[i].dirty}
FirstDirty(t) == CHOOSE i \in DirtySlots(t) : \A j \in DirtySlots(t) : i <= j

\* poll_update returns an update only when none is under way and a slot is dirty
AnyDirty(t) == DirtySlots(t) # {}
HasUpdate(t) == t.updating = {} /\ DirtySlots(t) # {}

StartUpdate(t, token) ==
  [t EXCEPT !.table[FirstDirty(t)].dirty = FALSE,
            !.updating = {<<token, FirstDirty(t)>>}]

Update(t, token) ==
  [token |-> token, index |-> FirstDirty(t), value |-> t.table[FirstDirty(t)].value]
=============================================================================
