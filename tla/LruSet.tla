------------------------------- MODULE LruSet -------------------------------
(***************************************************************************)
(* What PendingTable promises of the addresses it keeps in the radio's     *)
(* slots: of the values inserted, the Size most recently promoted ones     *)
(* that were not removed since, in the order of their promotion.  A value  *)
(* that was evicted is not brought back by a slot that becomes free.       *)
(***************************************************************************)
EXTENDS Integers, Sequences

CONSTANTS Values, Size

VARIABLES
  values,   \* the values inserted and not removed
  cached    \* those in a slot, the least recently promoted first

lruVars == <<values, cached>>

PositionsOf(s, v) == {i \in 1 .. Len(s) : s[i] = v}
InCache(v) == PositionsOf(cached, v) # {}

\* s without v, which it holds once at most
Filter(s, v) ==
  IF PositionsOf(s, v) = {} THEN s
  ELSE LET pos == CHOOSE i \in PositionsOf(s, v) : TRUE
       IN  [i \in 1 .. Len(s) - 1 |-> IF i < pos THEN s[i] ELSE s[i + 1]]

Init == values = {} /\ cached = <<>>

\* v becomes the most recent, at the expense of the least recent if need be.
Touch(v) ==
  cached' = IF InCache(v) THEN Append(Filter(cached, v), v)
            ELSE IF Len(cached) = Size THEN Append(Tail(cached), v)
            ELSE Append(cached, v)

InsertValue(v) == values' = values \cup {v} /\ Touch(v)

Promote(v) == v \in values /\ UNCHANGED values /\ Touch(v)

RemoveValue(v) == values' = values \ {v} /\ cached' = Filter(cached, v)

Next == \E v \in Values : InsertValue(v) \/ Promote(v) \/ RemoveValue(v)

Spec == Init /\ [][Next]_lruVars
=============================================================================
