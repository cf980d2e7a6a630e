---------------------------- MODULE PendingTable ----------------------------
(***************************************************************************)
(* One PendingTable (src/src/ieee802154/mac/pendingtable.rs) and the slots *)
(* of the radio it mirrors.  Its owner sets and promotes values at any     *)
(* time, also between an update's departure and its result; the radio      *)
(* executes an update or reports a failure, and may have executed it even  *)
(* so.  The table starts as assume_empty leaves it: the radio is clear.    *)
(***************************************************************************)
EXTENDS PendingTableOps

CONSTANTS
  Values,       \* addresses
  Size,         \* slots (8 in the code)
  MaxSets,      \* bound: set and promote calls
  MaxFailures   \* bound: updates the radio fails

ASSUME PendingTableAssumption ==
  /\ Size \in Nat \ {0}
  /\ MaxSets \in Nat
  /\ MaxFailures \in Nat

VARIABLES
  t,          \* the PendingTable
  next_key,   \* the next UniqueKey::new()
  requests,   \* the update sent to the radio and not executed yet, if any
  results,    \* the radio's answer that was not delivered yet, if any
  radio,      \* the radio's slots
  sets, failures

vars == <<t, next_key, requests, results, radio, sets, failures>>

Slots == 1 .. Size

Init ==
  /\ t = AssumeEmpty(NewTable(Size))
  /\ next_key = 0
  /\ requests = {}
  /\ results = {}
  /\ radio = [i \in Slots |-> {}]
  /\ sets = 0
  /\ failures = 0

Owner == sets < MaxSets /\ sets' = sets + 1
           /\ UNCHANGED <<next_key, requests, results, radio, failures>>

Insert(v) == Owner /\ t' = SetValue(t, v, TRUE)

Remove(v) == Owner /\ t' = SetValue(t, v, FALSE)

PromoteOnly(v) == Owner /\ t' = Promote(t, v)

PollUpdate ==
  /\ HasUpdate(t)
  /\ t' = StartUpdate(t, next_key)
  /\ requests' = requests \cup {Update(t, next_key)}
  /\ next_key' = next_key + 1
  /\ UNCHANGED <<results, radio, sets, failures>>

Write(update) == radio' = [radio EXCEPT ![update.index] = update.value]

\* The radio executes an update
RadioExecutes(update) ==
  /\ Write(update)
  /\ requests' = requests \ {update}
  /\ results' = results \cup {[token |-> update.token, ok |-> TRUE]}
  /\ UNCHANGED <<t, next_key, sets, failures>>

\* or reports an error for it, before or after the slot was written.
RadioFails(update) ==
  /\ failures < MaxFailures
  /\ failures' = failures + 1
  /\ Write(update) \/ UNCHANGED radio
  /\ requests' = requests \ {update}
  /\ results' = results \cup {[token |-> update.token, ok |-> FALSE]}
  /\ UNCHANGED <<t, next_key, sets>>

ReportResult(result) ==
  /\ results' = results \ {result}
  /\ t' = ReportUpdateResult(t, result.token, result.ok)
  /\ UNCHANGED <<next_key, requests, radio, sets, failures>>

Next ==
  \/ \E v \in Values : Insert(v) \/ Remove(v) \/ PromoteOnly(v)
  \/ PollUpdate
  \/ \E update \in requests : RadioExecutes(update) \/ RadioFails(update)
  \/ \E result \in results : ReportResult(result)

Spec == Init /\ [][Next]_vars

\* A woken task polls, the radio answers, and an answer is delivered.
Fairness ==
  /\ WF_vars(PollUpdate)
  /\ WF_vars(\E update \in requests : RadioExecutes(update) \/ RadioFails(update))
  /\ WF_vars(\E result \in results : ReportResult(result))

FairSpec == Spec /\ Fairness

-----------------------------------------------------------------------------
Tables ==
  [values : SUBSET Values,
   table : [Slots -> [dirty : BOOLEAN, value : SUBSET Values]],
   order : [Slots -> Slots],
   updating : SUBSET (Nat \X Slots)]

\* The fields keep their types.
TypeOK ==
  /\ t \in Tables
  /\ next_key \in Nat
  /\ requests \in SUBSET [token : Nat, index : Slots, value : SUBSET Values]
  /\ results \in SUBSET [token : Nat, ok : BOOLEAN]
  /\ radio \in [Slots -> SUBSET Values]
  /\ sets \in Nat
  /\ failures \in Nat

\* order lists every slot exactly once: no promotion or demotion loses a slot
\* or makes one be overwritten ahead of its turn.
OrderIsPermutation ==
  /\ \A i \in Slots : \E p \in Slots : t.order[p] = i
  /\ \A p, r \in Slots : t.order[p] = t.order[r] => p = r

\* The free slots come first in order, so promote evicts an address only when
\* every slot holds one.
FreeSlotsFirst ==
  \A p, r \in Slots :
    p < r /\ t.table[t.order[r]].value = {} => t.table[t.order[p]].value = {}

\* A slot holds at most one value, one that was inserted and not removed, and no
\* value is in two slots.
SlotsHoldValues ==
  \A i \in Slots :
    /\ \A v \in t.table[i].value : v \in t.values /\ t.table[i].value = {v}
    /\ \A j \in Slots :
         t.table[i].value # {} /\ t.table[i].value = t.table[j].value => i = j

\* At most one update is under way, and it is the one the table remembers.
OneUpdate ==
  \/ /\ t.updating = {} /\ requests = {} /\ results = {}
  \/ \E token \in 0 .. next_key - 1, i \in Slots :
       /\ t.updating = {<<token, i>>}
       /\ \/ \E v \in SUBSET Values :
               /\ requests = {[token |-> token, index |-> i, value |-> v]}
               /\ results = {}
               /\ ~t.table[i].dirty => v = t.table[i].value
          \/ /\ requests = {}
             /\ \/ /\ results = {[token |-> token, ok |-> TRUE]}
                   /\ ~t.table[i].dirty => radio[i] = t.table[i].value
                \/ results = {[token |-> token, ok |-> FALSE]}

\* A slot that is neither dirty nor being updated holds in the radio what the
\* table says, whatever was set while updates were in flight and whichever
\* updates failed.
CleanMeansSynced ==
  \A i \in Slots :
    ~t.table[i].dirty /\ (\A u \in t.updating : u[2] # i) =>
      radio[i] = t.table[i].value

\* Once the owner stops changing values the radio's slots become those of the
\* table, for good.
EventuallySynced == <>[](\A i \in Slots : radio[i] = t.table[i].value)

\* The slots behind the free ones hold, in the order in which they will be
\* overwritten, the least recently promoted values first: of the values inserted the
\* table keeps the ones LruSet keeps, whichever updates are under way or fail.
Free(tt, p) == tt.table[tt.order[p]].value = {}
LastFree(tt) ==
  CHOOSE n \in 0 .. Size : (n > 0 => Free(tt, n)) /\ \A p \in n + 1 .. Size : ~Free(tt, p)
Cached(tt) ==
  [p \in 1 .. Size - LastFree(tt) |->
     CHOOSE v \in tt.table[tt.order[LastFree(tt) + p]].value : TRUE]

Lru == INSTANCE LruSet WITH values <- t.values, cached <- Cached(t)
ImplementsLru == Lru!Spec
=============================================================================
