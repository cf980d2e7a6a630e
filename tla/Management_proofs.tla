------------------------- MODULE Management_proofs --------------------------
(***************************************************************************)
(* Proofs about Management for any set of radio parameters, any values of  *)
(* the PIB's properties and any number of requests and failures.           *)
(***************************************************************************)
EXTENDS Management, SequenceTheorems, TLAPS

(* Queues of messages whose keys increase.                                  *)
Elems(s) == {s[i] : i \in 1 .. Len(s)}

LEMMA EmptyElems == Elems(<<>>) = {}
  BY DEF Elems

LEMMA AppendElems ==
  ASSUME NEW S, NEW s \in Seq(S), NEW e \in S
  PROVE  /\ Append(s, e) \in Seq(S)
         /\ Elems(Append(s, e)) = Elems(s) \cup {e}
<1> DEFINE t == Append(s, e)
           n == Len(s)
<1>1. /\ t \in Seq(S) /\ Len(t) = n + 1 /\ n \in Nat
      /\ \A i \in 1 .. n : t[i] = s[i]
      /\ t[n + 1] = e
  BY AppendProperties, LenProperties
<1> HIDE DEF t, n
<1>2. 1 .. Len(t) = (1 .. n) \cup {n + 1}
  BY <1>1
<1>3. Elems(t) = Elems(s) \cup {e}
  BY <1>1, <1>2 DEF Elems, n
<1> QED BY <1>1, <1>3 DEF t

KeysIncrease(s) == \A i, j \in 1 .. Len(s) : i < j => s[i].key < s[j].key

LEMMA AppendIncrease ==
  ASSUME NEW S, NEW s \in Seq(S), NEW e \in S, KeysIncrease(s),
         \A x \in Elems(s) : x.key < e.key
  PROVE  KeysIncrease(Append(s, e))
<1> DEFINE t == Append(s, e)
           n == Len(s)
<1>1. /\ Len(t) = n + 1 /\ n \in Nat
      /\ \A i \in 1 .. n : t[i] = s[i]
      /\ t[n + 1] = e
  BY AppendProperties, LenProperties
<1>2. \A i \in 1 .. n : s[i].key < e.key
  BY DEF Elems
<1>3. \A i, j \in 1 .. n : i < j => s[i].key < s[j].key
  BY DEF KeysIncrease
<1> HIDE DEF t, n
<1> SUFFICES ASSUME NEW i \in 1 .. Len(t), NEW j \in 1 .. Len(t), i < j
             PROVE  t[i].key < t[j].key
  BY DEF KeysIncrease, t
<1>4. i \in 1 .. n /\ (j \in 1 .. n \/ j = n + 1)
  BY <1>1
<1>5. CASE j \in 1 .. n
  BY <1>1, <1>3, <1>4, <1>5
<1>6. CASE j = n + 1
  BY <1>1, <1>2, <1>4, <1>6
<1> QED BY <1>4, <1>5, <1>6

\* The first message has the least key.
LEMMA TailIncrease ==
  ASSUME NEW S, NEW s \in Seq(S), s # <<>>, KeysIncrease(s), \A x \in S : x.key \in Nat
  PROVE  /\ Tail(s) \in Seq(S) /\ Head(s) \in S /\ Head(s) \in Elems(s)
         /\ KeysIncrease(Tail(s))
         /\ Elems(s) = Elems(Tail(s)) \cup {Head(s)}
         /\ \A x \in Elems(Tail(s)) : Head(s).key < x.key
<1> DEFINE t == Tail(s)
           n == Len(s)
<1>1. /\ t \in Seq(S) /\ n \in Nat \ {0} /\ Len(t) = n - 1
      /\ \A i \in 1 .. Len(t) : t[i] = s[i + 1]
      /\ Head(s) = s[1] /\ Head(s) \in S
  BY HeadTailProperties, EmptySeq
<1>2. \A i, j \in 1 .. n : i < j => s[i].key < s[j].key
  BY DEF KeysIncrease
<1> HIDE DEF t, n
<1>3. /\ \A i \in 1 .. Len(t) : i + 1 \in 1 .. n /\ 1 < i + 1 /\ t[i] = s[i + 1]
      /\ \A i \in 1 .. n : i # 1 => i - 1 \in 1 .. Len(t) /\ t[i - 1] = s[i]
      /\ 1 \in 1 .. n
  <2>1. \A i \in 1 .. n : i # 1 => i - 1 \in 1 .. Len(t) /\ (i - 1) + 1 = i
    BY <1>1
  <2> QED BY <1>1, <2>1
<1>4. KeysIncrease(t)
  <2> SUFFICES ASSUME NEW i \in 1 .. Len(t), NEW j \in 1 .. Len(t), i < j
               PROVE  t[i].key < t[j].key
    BY DEF KeysIncrease
  <2>1. i + 1 \in 1 .. n /\ j + 1 \in 1 .. n /\ i + 1 < j + 1
    BY <1>3
  <2> QED BY <2>1, <1>2, <1>3
<1>5. \A x \in Elems(t) : x \in Elems(s) /\ Head(s).key < x.key
  BY <1>1, <1>2, <1>3 DEF Elems, n
<1>6. \A x \in Elems(s) : x \in Elems(t) \/ x = Head(s)
  BY <1>1, <1>3 DEF Elems, n
<1>7. Head(s) \in Elems(s)
  BY <1>1, <1>3 DEF Elems, n
<1> QED BY <1>1, <1>4, <1>5, <1>6, <1>7 DEF t

\* No key occurs twice.
LEMMA KeysDiffer ==
  ASSUME NEW S, NEW s \in Seq(S), KeysIncrease(s), \A x \in S : x.key \in Nat
  PROVE  \A x, y \in Elems(s) : x.key = y.key => x = y
<1> SUFFICES ASSUME NEW i \in 1 .. Len(s), NEW j \in 1 .. Len(s), s[i].key = s[j].key
             PROVE  s[i] = s[j]
  BY DEF Elems
<1>1. s[i] \in S /\ s[j] \in S
  BY ElementOfSeq
<1>2. s[i].key \in Nat
  BY <1>1
<1>3. ~(i < j) /\ ~(j < i)
  BY <1>2 DEF KeysIncrease
<1>4. i = j
  BY <1>3
<1> QED BY <1>4

LEMMA ElemsType ==
  ASSUME NEW S, NEW s \in Seq(S)
  PROVE  Elems(s) \subseteq S
  BY ElementOfSeq DEF Elems

-----------------------------------------------------------------------------
(* The inductive invariant.                                                 *)

\* The properties the radio parameters and the beacons are made from.
PibFields == DOMAIN SettableTypes \cup Unreadable \cup ReadOnly \cup {"mac_associated_pan_coord"}

PibInv(p) ==
  /\ p = [field \in PibFields |-> p[field]]
  /\ p.mac_extended_address = ExtendedAddr
  /\ p.mac_bsn \in Seqs /\ p.mac_dsn \in Seqs
  /\ p.phy_current_channel \in Channels
  /\ p.mac_pan_id \in Pans \cup {BroadcastPan}
  /\ p.mac_short_address \in Shorts \cup {InvalidShort, NoneAssigned}
  /\ p.phy_tx_power \in Powers

\* The link keeps the order of the keys.
Requests == Elems(requests)
Results == Elems(results)

LinkInv ==
  /\ KeysIncrease(requests) /\ KeysIncrease(results)
  /\ \A request \in Requests : request.key < next_key
  /\ \A result \in Results : result.key < next_key
  /\ \A request \in Requests, result \in Results : result.key < request.key

\* The request a parameter waits for is the last one for that parameter, and
\* carries the value that was last requested unless that changed since.
NoneFor(param) == \A request \in Requests : request.param # param

InFlight(param, key) ==
  LET info == radio_params[param] IN
  \/ \E request \in Requests :
       /\ request.key = key /\ request.param = param
       /\ ~info.dirty => request.value = info.requested_value
       /\ \A later \in Requests : later.param = param => later.key <= key
  \/ \E result \in Results :
       /\ result.key = key
       /\ NoneFor(param)
       /\ result.ok /\ ~info.dirty => radio[param] = info.requested_value

Tracked(param) ==
  LET info == radio_params[param] IN
  \/ info.updating = {} /\ info.dirty
  \/ info.updating = {} /\ ~info.dirty /\ NoneFor(param) /\ radio[param] = info.requested_value
  \/ \E key \in Nat : info.updating = {key} /\ InFlight(param, key)

\* The PAN coordinator a started device has entered is itself.
CoordinatorInv ==
  \/ pib.mac_associated_pan_coord = {} /\ started = {}
  \/ \E short \in Shorts \cup {NoneAssigned} :
       /\ short # InvalidShort /\ started = {short}
       /\ pib.mac_associated_pan_coord = {<<ExtendedAddr, short>>}

\* The MAC takes nothing in before a beacon is sent.
OneBeacon ==
  outgoing # <<>> =>
    \E beacon : outgoing = <<beacon>> /\
      (beacon.pan_coordinator => /\ started = {pib.mac_short_address}
                                 /\ beacon.source.address # InvalidShort)

IndInv ==
  /\ TypeOK /\ PibInv(pib) /\ RequestedIsPib /\ LinkInv
  /\ \A param \in Params : Tracked(param)
  /\ CoordinatorInv /\ OneBeacon

-----------------------------------------------------------------------------
(* The PIB.                                                                 *)
LEMMA PibFieldsAre ==
  /\ DOMAIN SettableTypes =
       {"mac_association_permit", "mac_beacon_payload", "mac_bsn", "mac_dsn", "mac_pan_id",
        "mac_short_address", "mac_beacon_auto_respond", "mac_transaction_persistence_time",
        "phy_current_channel", "phy_max_tx_power", "phy_tx_power"}
  /\ PibFields = DOMAIN SettableTypes
                   \cup {"mac_max_frame_retries", "mac_extended_address", "mac_associated_pan_coord"}
<1>1. DOMAIN SettableTypes =
       {"mac_association_permit", "mac_beacon_payload", "mac_bsn", "mac_dsn", "mac_pan_id",
        "mac_short_address", "mac_beacon_auto_respond", "mac_transaction_persistence_time",
        "phy_current_channel", "phy_max_tx_power", "phy_tx_power"}
  BY DEF SettableTypes
<1> QED BY <1>1 DEF PibFields, Unreadable, ReadOnly

\* A changed field does not change what the others say.
LEMMA ChangedField ==
  ASSUME NEW p, p = [field \in PibFields |-> p[field]], NEW f \in PibFields, NEW v
  PROVE  LET q == [p EXCEPT ![f] = v] IN
         /\ q = [field \in PibFields |-> q[field]]
         /\ q[f] = v
         /\ \A g \in PibFields : g # f => q[g] = p[g]
  OBVIOUS

LEMMA NewPibInv ==
  ASSUME NEW channel \in Channels, NEW power \in Powers, NEW bsn \in Seqs, NEW dsn \in Seqs
  PROVE  LET q == NewPib(ExtendedAddr, channel, power, bsn, dsn) IN
         PibInv(q) /\ q.mac_associated_pan_coord = {} /\ q.phy_current_channel = channel
<1> DEFINE q == NewPib(ExtendedAddr, channel, power, bsn, dsn)
<1>1. q = [field \in PibFields |-> q[field]]
  BY PibFieldsAre DEF NewPib
<1>2. /\ q.mac_extended_address = ExtendedAddr /\ q.mac_associated_pan_coord = {}
      /\ q.mac_bsn = bsn /\ q.mac_dsn = dsn /\ q.phy_current_channel = channel
      /\ q.mac_pan_id = BroadcastPan /\ q.mac_short_address = InvalidShort
      /\ q.phy_tx_power = power
  BY DEF NewPib
<1> HIDE DEF q
<1>3. PibInv(q)
  BY <1>1, <1>2 DEF PibInv
<1> QED BY <1>2, <1>3 DEF q

\* The fields a change may not spoil, by name.
LEMMA PibFieldNames ==
  /\ "mac_extended_address" \in PibFields /\ "mac_bsn" \in PibFields /\ "mac_dsn" \in PibFields
  /\ "phy_current_channel" \in PibFields /\ "mac_pan_id" \in PibFields
  /\ "mac_short_address" \in PibFields /\ "phy_tx_power" \in PibFields
  /\ "mac_associated_pan_coord" \in PibFields /\ "mac_beacon_auto_respond" \in PibFields
  BY PibFieldsAre

\* MLME-SET leaves a PIB, and the coordinator as it was.
LEMMA SetKeepsPib ==
  ASSUME NEW p, PibInv(p),
         NEW property, NEW value,
         \/ <<property, value>> \in SetInputs
         \/ property = "mac_beacon_auto_respond" /\ value \in Typed("Bool", BOOLEAN)
  PROVE  /\ PibInv(SetProperty(p, property, value))
         /\ SetProperty(p, property, value).mac_associated_pan_coord = p.mac_associated_pan_coord
<1> DEFINE q == SetProperty(p, property, value)
<1>1. CASE SetResult(property, value) # Success
  BY <1>1 DEF SetProperty
<1>2. CASE SetResult(property, value) = Success
  <2>0. property \notin ReadOnly
    <3>1. ReadOnly \cap DOMAIN SettableTypes = {}
      BY PibFieldsAre DEF ReadOnly
    <3> QED BY <1>2, <3>1 DEF SetResult, Success
  <2>00. property \notin Unreadable
    <3>1. Unreadable \cap (ReadOnly \cup DOMAIN SettableTypes) = {}
      BY PibFieldsAre DEF Unreadable, ReadOnly
    <3> QED BY <1>2, <3>1, <2>0 DEF SetResult, Success
  <2>1. value.type = SettableTypes[property] \/ property \notin DOMAIN SettableTypes
    BY <1>2, <2>0 DEF SetResult, Success
  <2>2. \/ property = "mac_pan_id" /\ value.value \in Pans
        \/ property = "mac_short_address" /\ value.value \in Shorts \cup {NoneAssigned}
        \/ property = "phy_current_channel" /\ value.value \in Channels
        \/ property = "phy_tx_power" /\ value.value \in Powers
        \/ property = "mac_beacon_auto_respond"
    <3>1. "mac_pan_id" \in DOMAIN SettableTypes /\ SettableTypes["mac_pan_id"] = "PANID"
      BY DEF SettableTypes
    <3>2. ~(property = "mac_pan_id" /\ value.type = "U16")
      BY <3>1, <2>1
    <3>3. \A type, S : value \in Typed(type, S) => value.type = type /\ value.value \in S
      BY DEF Typed
    <3>4. \/ property = "mac_pan_id" /\ value \in Typed("PANID", Pans)
          \/ property = "mac_short_address"
             /\ value \in Typed("ShortAddress", Shorts \cup {NoneAssigned})
          \/ property = "phy_current_channel" /\ value \in Typed("U16", Channels)
          \/ property = "phy_tx_power" /\ value \in Typed("U16", Powers)
          \/ property \in {"mac_pan_id", "mac_max_frame_retries"} /\ value \in Typed("U16", Powers)
          \/ property = "mac_extended_address"
          \/ property = "mac_beacon_auto_respond"
      BY DEF SetInputs
    <3> QED BY <3>2, <3>3, <3>4, <2>0, <2>00 DEF ReadOnly, Unreadable
  <2>3. q = [p EXCEPT ![property] = value.value]
    BY <1>2 DEF SetProperty
  <2>4. property \in PibFields
    BY <2>2, PibFieldNames
  <2>5. /\ q = [field \in PibFields |-> q[field]]
        /\ q[property] = value.value
        /\ \A g \in PibFields : g # property => q[g] = p[g]
    BY <2>3, <2>4, ChangedField DEF PibInv
  <2> HIDE DEF q
  <2>6. ASSUME property = "mac_pan_id" /\ value.value \in Pans
        PROVE  PibInv(q) /\ q.mac_associated_pan_coord = p.mac_associated_pan_coord
    BY <2>5, <2>6, PibFieldNames DEF PibInv
  <2>7. ASSUME property = "mac_short_address" /\ value.value \in Shorts \cup {NoneAssigned}
        PROVE  PibInv(q) /\ q.mac_associated_pan_coord = p.mac_associated_pan_coord
    BY <2>5, <2>7, PibFieldNames DEF PibInv
  <2>8. ASSUME property = "phy_current_channel" /\ value.value \in Channels
        PROVE  PibInv(q) /\ q.mac_associated_pan_coord = p.mac_associated_pan_coord
    BY <2>5, <2>8, PibFieldNames DEF PibInv
  <2>9. ASSUME property = "phy_tx_power" /\ value.value \in Powers
        PROVE  PibInv(q) /\ q.mac_associated_pan_coord = p.mac_associated_pan_coord
    BY <2>5, <2>9, PibFieldNames DEF PibInv
  <2>10. ASSUME property = "mac_beacon_auto_respond"
        PROVE  PibInv(q) /\ q.mac_associated_pan_coord = p.mac_associated_pan_coord
    BY <2>5, <2>10, PibFieldNames DEF PibInv
  <2>11. PibInv(q) /\ q.mac_associated_pan_coord = p.mac_associated_pan_coord
    BY <2>2, <2>6, <2>7, <2>8, <2>9, <2>10
  <2> QED BY <2>11 DEF q
<1> QED BY <1>1, <1>2

LEMMA StartKeepsPib ==
  ASSUME NEW p, PibInv(p), NEW pan_id \in Pans, NEW channel \in Channels
  PROVE  /\ PibInv(StartedPib(p, pan_id, channel))
         /\ StartedPib(p, pan_id, channel).mac_associated_pan_coord =
              {<<ExtendedAddr, p.mac_short_address>>}
<1> DEFINE coord == {<<p.mac_extended_address, p.mac_short_address>>}
           a == [p EXCEPT !.phy_current_channel = channel]
           b == [a EXCEPT !.mac_pan_id = pan_id]
           q == [b EXCEPT !.mac_associated_pan_coord = coord]
<1>0. StartedPib(p, pan_id, channel) = q
  BY DEF StartedPib
<1>00. p = [field \in PibFields |-> p[field]]
  BY DEF PibInv
<1>1. /\ a = [field \in PibFields |-> a[field]] /\ a.phy_current_channel = channel
      /\ \A g \in PibFields : g # "phy_current_channel" => a[g] = p[g]
  BY <1>00, PibFieldNames, ChangedField
<1> HIDE DEF a
<1>2. /\ b = [field \in PibFields |-> b[field]] /\ b.mac_pan_id = pan_id
      /\ \A g \in PibFields : g # "mac_pan_id" => b[g] = a[g]
  BY <1>1, PibFieldNames, ChangedField
<1> HIDE DEF b
<1>3. /\ q = [field \in PibFields |-> q[field]] /\ q.mac_associated_pan_coord = coord
      /\ \A g \in PibFields : g # "mac_associated_pan_coord" => q[g] = b[g]
  BY <1>2, PibFieldNames, ChangedField
<1> HIDE DEF q
<1>4. /\ q.mac_extended_address = p.mac_extended_address /\ q.mac_bsn = p.mac_bsn
      /\ q.mac_dsn = p.mac_dsn /\ q.phy_current_channel = channel /\ q.mac_pan_id = pan_id
      /\ q.mac_short_address = p.mac_short_address /\ q.phy_tx_power = p.phy_tx_power
  BY <1>1, <1>2, <1>3, PibFieldNames
<1>5. PibInv(q)
  BY <1>3, <1>4 DEF PibInv
<1> QED BY <1>0, <1>3, <1>5 DEF PibInv

LEMMA BeaconKeepsPib ==
  ASSUME NEW p, PibInv(p)
  PROVE  /\ PibInv(BeaconSent(p))
         /\ \A g \in PibFields : g # "mac_bsn" => BeaconSent(p)[g] = p[g]
<1> DEFINE n == NextSequenceNr(p.mac_bsn)
           q == [p EXCEPT !.mac_bsn = n]
<1>0. BeaconSent(p) = q
  BY DEF BeaconSent
<1>1. n \in Seqs
  BY ManagementAssumption DEF NextSequenceNr, Seqs, PibInv
<1>00. p = [field \in PibFields |-> p[field]]
  BY DEF PibInv
<1>2. /\ q = [field \in PibFields |-> q[field]] /\ q.mac_bsn = n
      /\ \A g \in PibFields : g # "mac_bsn" => q[g] = p[g]
  BY <1>00, PibFieldNames, ChangedField
<1> HIDE DEF q, n
<1>3. PibInv(q)
  BY <1>1, <1>2, PibFieldNames DEF PibInv
<1> QED BY <1>0, <1>2, <1>3

LEMMA ResetKeepsPib ==
  ASSUME NEW p, PibInv(p), NEW bsn \in Seqs, NEW dsn \in Seqs
  PROVE  PibInv(ResetPib(p, bsn, dsn)) /\ ResetPib(p, bsn, dsn).mac_associated_pan_coord = {}
  BY NewPibInv DEF ResetPib, PibInv

-----------------------------------------------------------------------------
(* The radio parameters.                                                    *)
Infos == [requested_value : Values, updating : SUBSET Nat, dirty : BOOLEAN]

LEMMA ParamValueType ==
  ASSUME NEW p, PibInv(p), NEW param \in Params
  PROVE  ParamValue(p, param) \in Values
  BY ParamsAssumption DEF ParamValue, RadioParams, PibInv, Values

LEMMA BeaconKeepsParams ==
  ASSUME NEW p, PibInv(p), NEW param \in Params
  PROVE  ParamValue(BeaconSent(p), param) = ParamValue(p, param)
<1> DEFINE q == BeaconSent(p)
<1>1. \A g \in PibFields : g # "mac_bsn" => q[g] = p[g]
  BY BeaconKeepsPib
<1> HIDE DEF q
<1>2. /\ q.phy_current_channel = p.phy_current_channel /\ q.mac_pan_id = p.mac_pan_id
      /\ q.mac_short_address = p.mac_short_address /\ q.phy_tx_power = p.phy_tx_power
  BY <1>1, PibFieldNames
<1>3. ParamValue(q, param) = ParamValue(p, param)
  BY <1>2, ParamsAssumption DEF ParamValue, RadioParams
<1> QED BY <1>3 DEF q

LEMMA NewParamsType ==
  ASSUME NEW p, PibInv(p)
  PROVE  /\ NewParams(p) \in [Params -> Infos]
         /\ \A param \in Params : /\ NewParams(p)[param].requested_value = ParamValue(p, param)
                                  /\ NewParams(p)[param].updating = {}
                                  /\ NewParams(p)[param].dirty
<1>1. \A param \in Params :
        [requested_value |-> ParamValue(p, param), updating |-> {}, dirty |-> TRUE] \in Infos
  BY ParamValueType DEF Infos
<1> QED BY <1>1 DEF NewParams

LEMMA UpdateParamsType ==
  ASSUME NEW params \in [Params -> Infos], NEW p, PibInv(p)
  PROVE  /\ UpdateParams(params, p) \in [Params -> Infos]
         /\ \A param \in Params :
              LET new == UpdateParams(params, p)[param] IN
              /\ new.requested_value = ParamValue(p, param)
              /\ new.updating = params[param].updating
              /\ new = params[param] \/ new.dirty
<1> DEFINE news == UpdateParams(params, p)
           Changed(param) == [params[param] EXCEPT !.requested_value = ParamValue(p, param),
                                                   !.dirty = TRUE]
<1>1. ASSUME NEW param \in Params
      PROVE  /\ Changed(param) \in Infos
             /\ Changed(param).requested_value = ParamValue(p, param)
             /\ Changed(param).updating = params[param].updating
             /\ Changed(param).dirty
  <2>1. params[param] \in Infos /\ ParamValue(p, param) \in Values
    BY ParamValueType
  <2> DEFINE yes == TRUE
             new == Changed(param)
             value == ParamValue(p, param)
  <2>2. yes \in BOOLEAN /\ yes
    OBVIOUS
  <2>3. new = [params[param] EXCEPT !.requested_value = value, !.dirty = yes]
    OBVIOUS
  <2> HIDE DEF yes, new, value
  <2>4. new = [requested_value |-> value, updating |-> params[param].updating, dirty |-> yes]
    BY <2>1, <2>3 DEF Infos
  <2>5. value \in Values /\ params[param].updating \in SUBSET Nat
    BY <2>1 DEF Infos, value
  <2>6. /\ new \in Infos /\ new.requested_value = value /\ new.updating = params[param].updating
        /\ new.dirty = yes
    BY <2>2, <2>4, <2>5 DEF Infos
  <2> QED BY <2>2, <2>6 DEF new, value
<1>2. \A param \in Params :
        news[param] = IF params[param].requested_value # ParamValue(p, param)
                      THEN Changed(param) ELSE params[param]
  BY DEF UpdateParams
<1>3. news = [param \in Params |-> news[param]]
  BY DEF UpdateParams
<1> HIDE DEF Changed, news
<1>4. \A param \in Params :
        /\ news[param] \in Infos
        /\ news[param].requested_value = ParamValue(p, param)
        /\ news[param].updating = params[param].updating
        /\ news[param] = params[param] \/ news[param].dirty
  BY <1>1, <1>2
<1>5. news \in [Params -> Infos]
  BY <1>3, <1>4
<1> QED BY <1>4, <1>5 DEF news

\* process_set_param_result: a parameter that waits for the result is to be sent
\* again if it failed, the others keep what they have.
LEMMA ResultProps ==
  ASSUME NEW info \in Infos, NEW result \in [key : Nat, ok : BOOLEAN]
  PROVE  LET new == ProcessSetParamResult(info, result) IN
         /\ new \in Infos
         /\ new.requested_value = info.requested_value
         /\ info.updating # {result.key} => new = info
         /\ info.updating = {result.key} =>
              new.updating = {} /\ (new.dirty <=> info.dirty \/ ~result.ok)
<1> DEFINE new == ProcessSetParamResult(info, result)
<1>1. CASE info.updating # {result.key}
  BY <1>1 DEF ProcessSetParamResult
<1>2. CASE info.updating = {result.key}
  <2> DEFINE d == info.dirty \/ ~result.ok
  <2>1. d \in BOOLEAN
    BY DEF Infos
  <2>2. new = [info EXCEPT !.updating = {}, !.dirty = d]
    BY <1>2 DEF ProcessSetParamResult
  <2> HIDE DEF d, new
  <2>3. new = [requested_value |-> info.requested_value, updating |-> {}, dirty |-> d]
    BY <2>2 DEF Infos
  <2>4. info.requested_value \in Values /\ {} \in SUBSET Nat
    BY DEF Infos
  <2>5. /\ new \in Infos /\ new.requested_value = info.requested_value
        /\ new.updating = {} /\ new.dirty = d
    BY <2>1, <2>3, <2>4 DEF Infos
  <2> QED BY <1>2, <2>5 DEF d, new
<1> QED BY <1>1, <1>2

LEMMA SendProps ==
  ASSUME NEW info \in Infos, NEW key \in Nat
  PROVE  LET new == SendParam(info, key) IN
         /\ new \in Infos /\ new.requested_value = info.requested_value
         /\ new.updating = {key} /\ ~new.dirty
<1> DEFINE new == SendParam(info, key)
           no == FALSE
           keys == {key}
<1>1. info.requested_value \in Values /\ keys \in SUBSET Nat /\ no \in BOOLEAN /\ ~no
  BY DEF Infos
<1>2. new = [info EXCEPT !.dirty = no, !.updating = keys]
  BY DEF SendParam
<1> HIDE DEF new, no, keys
<1>3. new = [requested_value |-> info.requested_value, updating |-> keys, dirty |-> no]
  BY <1>2 DEF Infos
<1>4. /\ new \in Infos /\ new.requested_value = info.requested_value /\ new.updating = keys
      /\ new.dirty = no
  BY <1>1, <1>3 DEF Infos
<1> QED BY <1>1, <1>4 DEF new, keys

-----------------------------------------------------------------------------
(* Init and the steps.                                                      *)
RequestType == [key : Nat, param : Params, value : Values]
ResultType == [key : Nat, ok : BOOLEAN]

LEMMA Types ==
  /\ RequestedIsPib <=>
       \A param \in Params : radio_params[param].requested_value = ParamValue(pib, param)
  /\ TypeOK <=>
       /\ DOMAIN pib = PibFields
       /\ pib.mac_bsn \in Seqs /\ pib.mac_dsn \in Seqs
       /\ radio_params \in [Params -> Infos]
       /\ next_key \in Nat
       /\ requests \in Seq(RequestType)
       /\ results \in Seq(ResultType)
       /\ radio \in [Params -> Values]
  BY DEF RequestedIsPib, TypeOK, PibFields, Infos, RequestType, ResultType

LEMMA InitInv == Init => IndInv
<1> SUFFICES ASSUME Init PROVE IndInv
  OBVIOUS
<1>1. PICK channel \in Channels, power \in Powers, bsn \in Seqs, dsn \in Seqs :
        /\ pib = NewPib(ExtendedAddr, channel, power, bsn, dsn)
        /\ radio = [param \in Params |->
                     IF param \in {"Channel", "RxMode"} THEN ParamValue(pib, param)
                     ELSE Unknown]
  BY DEF Init
<1>2. PibInv(pib) /\ pib.mac_associated_pan_coord = {}
  BY <1>1, NewPibInv
<1>3. radio \in [Params -> Values]
  <2>1. Unknown \in Values
    BY DEF Values
  <2> QED BY <1>1, <1>2, <2>1, ParamValueType
<1>4. /\ radio_params \in [Params -> Infos]
      /\ \A param \in Params : /\ radio_params[param].requested_value = ParamValue(pib, param)
                               /\ radio_params[param].updating = {} /\ radio_params[param].dirty
  BY <1>2, NewParamsType DEF Init
<1>5. TypeOK /\ RequestedIsPib
  <2>1. next_key \in Nat /\ requests \in Seq(RequestType) /\ results \in Seq(ResultType)
    BY DEF Init
  <2>2. DOMAIN pib = PibFields /\ pib.mac_bsn \in Seqs /\ pib.mac_dsn \in Seqs
    BY <1>2 DEF PibInv
  <2> QED BY <1>3, <1>4, <2>1, <2>2, Types
<1>6. LinkInv
  BY EmptyElems DEF Init, LinkInv, Requests, Results, KeysIncrease
<1>7. \A param \in Params : Tracked(param)
  BY <1>4 DEF Tracked
<1>8. CoordinatorInv /\ OneBeacon
  BY <1>2 DEF Init, CoordinatorInv, OneBeacon
<1> QED BY <1>2, <1>5, <1>6, <1>7, <1>8 DEF IndInv

\* A parameter whose value changes is dirty, so what is on its way need not
\* carry the new value.
LEMMA TrackedKept ==
  ASSUME NEW param \in Params, Tracked(param), UNCHANGED <<requests, results, radio>>,
         radio_params'[param].updating = radio_params[param].updating,
         radio_params'[param] = radio_params[param] \/ radio_params'[param].dirty
  PROVE  Tracked(param)'
  BY DEF Tracked, InFlight, NoneFor, Requests, Results

LEMMA TypesNext ==
  /\ RequestedIsPib' <=>
       \A param \in Params : radio_params'[param].requested_value = ParamValue(pib', param)
  /\ TypeOK' <=>
       /\ DOMAIN pib' = PibFields
       /\ pib'.mac_bsn \in Seqs /\ pib'.mac_dsn \in Seqs
       /\ radio_params' \in [Params -> Infos]
       /\ next_key' \in Nat
       /\ requests' \in Seq(RequestType)
       /\ results' \in Seq(ResultType)
       /\ radio' \in [Params -> Values]
  BY DEF RequestedIsPib, TypeOK, PibFields, Infos, RequestType, ResultType

\* What the requests and frames have in common: the MAC takes them when it has
\* nothing to send, and the link stays as it is.
LEMMA InputKeepsInv ==
  ASSUME IndInv, Input, PibInv(pib'), radio_params' \in [Params -> Infos],
         \A param \in Params :
           /\ radio_params'[param].requested_value = ParamValue(pib', param)
           /\ \/ /\ radio_params'[param].updating = radio_params[param].updating
                 /\ radio_params'[param] = radio_params[param] \/ radio_params'[param].dirty
              \/ /\ radio_params'[param].updating = {} /\ radio_params'[param].dirty,
         CoordinatorInv', OneBeacon'
  PROVE  IndInv'
<1>1. UNCHANGED <<next_key, requests, results, radio>>
  BY DEF Input, linkVars
<1>2. TypeOK' /\ RequestedIsPib'
  <2>1. DOMAIN pib' = PibFields /\ pib'.mac_bsn \in Seqs /\ pib'.mac_dsn \in Seqs
    BY DEF PibInv
  <2>2. /\ next_key \in Nat /\ requests \in Seq(RequestType) /\ results \in Seq(ResultType)
        /\ radio \in [Params -> Values]
    BY Types DEF IndInv
  <2> QED BY <1>1, <2>1, <2>2, TypesNext
<1>3. LinkInv'
  BY <1>1 DEF IndInv, LinkInv, Requests, Results
<1>4. ASSUME NEW param \in Params PROVE Tracked(param)'
  <2>1. CASE /\ radio_params'[param].updating = radio_params[param].updating
             /\ radio_params'[param] = radio_params[param] \/ radio_params'[param].dirty
    BY <1>1, <2>1, TrackedKept DEF IndInv
  <2>2. CASE radio_params'[param].updating = {} /\ radio_params'[param].dirty
    BY <2>2 DEF Tracked
  <2> QED BY <2>1, <2>2
<1> QED BY <1>2, <1>3, <1>4 DEF IndInv

LEMMA SetKeepsInv ==
  ASSUME IndInv, NEW property, NEW value,
         \/ <<property, value>> \in SetInputs
         \/ property = "mac_beacon_auto_respond" /\ value \in Typed("Bool", BOOLEAN),
         ProcessMlmeSetRequest(property, value)
  PROVE  IndInv'
<1>1. /\ Input /\ pib' = SetProperty(pib, property, value)
      /\ radio_params' = UpdateParams(radio_params, pib')
      /\ UNCHANGED <<outgoing, started>>
  BY DEF ProcessMlmeSetRequest
<1>2. PibInv(pib') /\ pib'.mac_associated_pan_coord = pib.mac_associated_pan_coord
  BY <1>1, SetKeepsPib DEF IndInv
<1>3. /\ radio_params' \in [Params -> Infos]
      /\ \A param \in Params :
           /\ radio_params'[param].requested_value = ParamValue(pib', param)
           /\ radio_params'[param].updating = radio_params[param].updating
           /\ radio_params'[param] = radio_params[param] \/ radio_params'[param].dirty
  <2>1. radio_params \in [Params -> Infos]
    BY Types DEF IndInv
  <2> QED BY <1>1, <1>2, <2>1, UpdateParamsType
<1>4. CoordinatorInv'
  BY <1>1, <1>2 DEF IndInv, CoordinatorInv
<1>5. OneBeacon'
  BY <1>1 DEF Input, Quiet, OneBeacon
<1> QED BY <1>1, <1>2, <1>3, <1>4, <1>5, InputKeepsInv

LEMMA GetKeepsInv ==
  ASSUME IndInv, NEW property, ProcessMlmeGetRequest(property)
  PROVE  IndInv'
<1>1. Input /\ UNCHANGED <<pib, radio_params, outgoing, started>>
  BY DEF ProcessMlmeGetRequest, serviceVars
<1>2. radio_params \in [Params -> Infos] /\ RequestedIsPib
  BY Types DEF IndInv
<1>3. CoordinatorInv' /\ OneBeacon' /\ PibInv(pib')
  BY <1>1 DEF IndInv, CoordinatorInv, OneBeacon
<1> QED BY <1>1, <1>2, <1>3, InputKeepsInv DEF RequestedIsPib

LEMMA ResetKeepsInv ==
  ASSUME IndInv, NEW set_default_pib \in BOOLEAN, NEW bsn \in Seqs, NEW dsn \in Seqs,
         ProcessMlmeResetRequest(set_default_pib, bsn, dsn)
  PROVE  IndInv'
<1>1. /\ Input /\ radio_params' = NewParams(pib') /\ outgoing' = <<>>
      /\ set_default_pib => pib' = ResetPib(pib, bsn, dsn) /\ started' = {}
      /\ ~set_default_pib => pib' = pib /\ started' = started
  BY DEF ProcessMlmeResetRequest
<1>2. PibInv(pib') /\ CoordinatorInv'
  <2>1. CASE set_default_pib
    BY <1>1, <2>1, ResetKeepsPib DEF IndInv, CoordinatorInv
  <2>2. CASE ~set_default_pib
    BY <1>1, <2>2 DEF IndInv, CoordinatorInv
  <2> QED BY <2>1, <2>2
<1>3. /\ radio_params' \in [Params -> Infos]
      /\ \A param \in Params : /\ radio_params'[param].requested_value = ParamValue(pib', param)
                               /\ radio_params'[param].updating = {} /\ radio_params'[param].dirty
  BY <1>1, <1>2, NewParamsType
<1>4. OneBeacon'
  BY <1>1 DEF OneBeacon
<1> QED BY <1>1, <1>2, <1>3, <1>4, InputKeepsInv

LEMMA StartKeepsInv ==
  ASSUME IndInv, NEW pan_id \in Pans, NEW channel \in Channels, NEW supported \in BOOLEAN,
         ProcessMlmeStartRequest(pan_id, channel, supported)
  PROVE  IndInv'
<1>1. Input /\ outgoing' = outgoing
  BY DEF ProcessMlmeStartRequest
<1>2. OneBeacon'
  BY <1>1 DEF Input, Quiet, OneBeacon
<1>3. radio_params \in [Params -> Infos] /\ RequestedIsPib /\ PibInv(pib)
  BY Types DEF IndInv
<1>4. CASE StartResult(pib, supported) # Success
  <2>1. UNCHANGED <<pib, radio_params, started>>
    BY <1>4 DEF ProcessMlmeStartRequest
  <2>2. CoordinatorInv' /\ PibInv(pib')
    BY <2>1 DEF IndInv, CoordinatorInv
  <2> QED BY <1>1, <1>2, <1>3, <2>1, <2>2, InputKeepsInv DEF RequestedIsPib
<1>5. CASE StartResult(pib, supported) = Success
  <2>1. /\ pib' = StartedPib(pib, pan_id, channel)
        /\ radio_params' = UpdateParams(radio_params, pib')
        /\ started' = {pib.mac_short_address}
    BY <1>5 DEF ProcessMlmeStartRequest
  <2>2. pib.mac_short_address # InvalidShort
    BY <1>5 DEF StartResult, Success
  <2>3. /\ PibInv(pib')
        /\ pib'.mac_associated_pan_coord = {<<ExtendedAddr, pib.mac_short_address>>}
    BY <1>3, <2>1, StartKeepsPib
  <2>4. CoordinatorInv'
    BY <1>3, <2>1, <2>2, <2>3 DEF CoordinatorInv, PibInv
  <2>5. /\ radio_params' \in [Params -> Infos]
        /\ \A param \in Params :
             /\ radio_params'[param].requested_value = ParamValue(pib', param)
             /\ radio_params'[param].updating = radio_params[param].updating
             /\ radio_params'[param] = radio_params[param] \/ radio_params'[param].dirty
    BY <1>3, <2>1, <2>3, UpdateParamsType
  <2> QED BY <1>1, <1>2, <2>3, <2>4, <2>5, InputKeepsInv
<1> QED BY <1>4, <1>5

LEMMA BeaconKeepsInv ==
  ASSUME IndInv, Input, UNCHANGED <<radio_params, started>>,
         QueueBeacon \/ UNCHANGED <<pib, outgoing>>
  PROVE  IndInv'
<1>1. radio_params \in [Params -> Infos] /\ RequestedIsPib /\ PibInv(pib)
  BY Types DEF IndInv
<1>2. CASE UNCHANGED <<pib, outgoing>>
  <2>1. CoordinatorInv' /\ OneBeacon' /\ PibInv(pib')
    BY <1>2 DEF IndInv, CoordinatorInv, OneBeacon
  <2> QED BY <1>1, <1>2, <2>1, InputKeepsInv DEF RequestedIsPib
<1>3. CASE QueueBeacon
  <2> DEFINE b == Beacon(pib)
  <2>1. outgoing' = <<b>> /\ pib' = BeaconSent(pib)
    BY <1>3 DEF QueueBeacon, Input, Quiet
  <2>2. PibInv(pib') /\ \A g \in PibFields : g # "mac_bsn" => pib'[g] = pib[g]
    BY <1>1, <2>1, BeaconKeepsPib
  <2>3. /\ pib'.mac_associated_pan_coord = pib.mac_associated_pan_coord
        /\ pib'.mac_short_address = pib.mac_short_address
    BY <2>2, PibFieldNames
  <2>4. CoordinatorInv'
    BY <2>3 DEF IndInv, CoordinatorInv
  <2>5. b.pan_coordinator => /\ started = {pib.mac_short_address}
                             /\ b.source.address # InvalidShort
    <3>1. b.pan_coordinator = IsPanCoordinator(pib) /\ b.source = GetFullShortAddress(pib)
      BY DEF Beacon
    <3> SUFFICES ASSUME IsPanCoordinator(pib)
                 PROVE  /\ started = {pib.mac_short_address}
                        /\ GetFullShortAddress(pib).address # InvalidShort
      BY <3>1
    <3>2. pib.mac_associated_pan_coord = {<<ExtendedAddr, pib.mac_short_address>>}
      BY <1>1 DEF IsPanCoordinator, PibInv
    <3>3. PICK short \in Shorts \cup {NoneAssigned} :
            /\ short # InvalidShort /\ started = {short}
            /\ pib.mac_associated_pan_coord = {<<ExtendedAddr, short>>}
      BY <3>2 DEF IndInv, CoordinatorInv
    <3>4. short = pib.mac_short_address
      <4>1. <<ExtendedAddr, short>> = <<ExtendedAddr, pib.mac_short_address>>
        BY <3>2, <3>3, Zenon
      <4> QED BY <4>1
    <3>5. GetFullShortAddress(pib).address # InvalidShort
      BY <1>1, <3>3, <3>4, ManagementAssumption DEF GetFullShortAddress, PibInv
    <3> QED BY <3>3, <3>4, <3>5
  <2> HIDE DEF b
  <2>6. OneBeacon'
    BY <2>1, <2>3, <2>5 DEF OneBeacon
  <2>7. \A param \in Params : ParamValue(pib', param) = ParamValue(pib, param)
    BY <1>1, <2>1, BeaconKeepsParams
  <2> QED BY <1>1, <2>2, <2>4, <2>6, <2>7, InputKeepsInv DEF RequestedIsPib
<1> QED BY <1>2, <1>3

-----------------------------------------------------------------------------
(* poll_action, the link and the results.                                   *)
LEMMA LinkTypes ==
  ASSUME IndInv
  PROVE  /\ requests \in Seq(RequestType) /\ results \in Seq(ResultType)
         /\ next_key \in Nat
         /\ \A r \in RequestType : r.key \in Nat /\ r.param \in Params /\ r.value \in Values
         /\ \A r \in ResultType : r.key \in Nat /\ r.ok \in BOOLEAN
         /\ Requests \subseteq RequestType /\ Results \subseteq ResultType
<1>1. requests \in Seq(RequestType) /\ results \in Seq(ResultType) /\ next_key \in Nat
  BY Types DEF IndInv
<1>2. Requests \subseteq RequestType /\ Results \subseteq ResultType
  BY <1>1, ElemsType DEF Requests, Results
<1> QED BY <1>1, <1>2 DEF RequestType, ResultType

\* A parameter is sent with the greatest key yet, after all that is on its way.
LEMMA PollParamKeepsInv ==
  ASSUME IndInv, NEW param \in Params, PollParam(param)
  PROVE  IndInv'
<1> DEFINE r == [key |-> next_key, param |-> param,
                 value |-> radio_params[param].requested_value]
<1>1. /\ radio_params' = [radio_params EXCEPT ![param] = SendParam(radio_params[param], next_key)]
      /\ requests' = Append(requests, r)
      /\ next_key' = next_key + 1
      /\ UNCHANGED <<pib, outgoing, results, radio, started>>
  BY DEF PollParam
<1>2. radio_params \in [Params -> Infos] /\ RequestedIsPib /\ radio \in [Params -> Values]
  BY Types DEF IndInv
<1>3. /\ requests \in Seq(RequestType) /\ results \in Seq(ResultType) /\ next_key \in Nat
      /\ Requests \subseteq RequestType /\ Results \subseteq ResultType
      /\ \A q \in RequestType : q.key \in Nat
      /\ \A q \in ResultType : q.key \in Nat
  BY LinkTypes
<1>4. r \in RequestType /\ r.key = next_key /\ r.param = param
      /\ r.value = radio_params[param].requested_value
  BY <1>2, <1>3 DEF RequestType, Infos
<1>5. /\ radio_params' \in [Params -> Infos]
      /\ \A q \in Params : q # param => radio_params'[q] = radio_params[q]
      /\ radio_params'[param].requested_value = radio_params[param].requested_value
      /\ radio_params'[param].updating = {next_key} /\ ~radio_params'[param].dirty
  BY <1>1, <1>2, <1>3, SendProps
<1> HIDE DEF r
<1>6. requests' \in Seq(RequestType) /\ Requests' = Requests \cup {r} /\ Results' = Results
  BY <1>1, <1>3, <1>4, AppendElems DEF Requests, Results
<1>7. TypeOK' /\ RequestedIsPib'
  <2>1. DOMAIN pib = PibFields /\ pib.mac_bsn \in Seqs /\ pib.mac_dsn \in Seqs
    BY Types DEF IndInv
  <2>2. \A q \in Params : radio_params'[q].requested_value = ParamValue(pib', q)
    BY <1>1, <1>2, <1>5 DEF RequestedIsPib
  <2>3. next_key' \in Nat
    BY <1>1, <1>3
  <2> QED BY <1>1, <1>2, <1>3, <1>5, <1>6, <2>1, <2>2, <2>3, TypesNext
<1>8. LinkInv'
  <2>0. LinkInv
    BY DEF IndInv
  <2>1. KeysIncrease(requests')
    BY <1>1, <1>3, <1>4, <2>0, AppendIncrease DEF LinkInv, Requests
  <2>2. \A request \in Requests' : request.key < next_key'
    BY <1>1, <1>3, <1>4, <1>6, <2>0 DEF LinkInv
  <2>3. \A result \in Results' : result.key < next_key'
    BY <1>1, <1>3, <1>6, <2>0 DEF LinkInv
  <2>4. \A request \in Requests', result \in Results' : result.key < request.key
    BY <1>3, <1>4, <1>6, <2>0 DEF LinkInv
  <2> QED BY <1>1, <2>0, <2>1, <2>2, <2>3, <2>4 DEF LinkInv
<1>9. ASSUME NEW q \in Params PROVE Tracked(q)'
  <2>1. CASE q = param
    <3>0. PICK key \in Nat : key = next_key
      BY <1>3
    <3>1. InFlight(q, key)'
      <4>1. \A later \in Requests' : later.key <= next_key
        BY <1>3, <1>4, <1>6 DEF IndInv, LinkInv
      <4>2. r \in Requests' /\ (~radio_params'[q].dirty => r.value = radio_params'[q].requested_value)
        BY <1>4, <1>5, <1>6, <2>1
      <4>3. \E request \in Requests' :
              /\ request.key = key /\ request.param = q
              /\ ~radio_params'[q].dirty => request.value = radio_params'[q].requested_value
              /\ \A later \in Requests' : later.param = q => later.key <= key
        BY <1>4, <2>1, <3>0, <4>1, <4>2
      <4> QED BY <4>3 DEF InFlight
    <3> QED BY <1>5, <2>1, <3>0, <3>1 DEF Tracked
  <2>2. CASE q # param
    <3>1. Tracked(q) /\ radio_params'[q] = radio_params[q] /\ radio' = radio
      BY <1>1, <1>5, <2>2 DEF IndInv
    <3>2. NoneFor(q) => NoneFor(q)'
      BY <1>4, <1>6, <2>2 DEF NoneFor
    <3>3. ASSUME NEW key \in Nat, InFlight(q, key) PROVE InFlight(q, key)'
      <4>1. CASE \E request \in Requests :
                   /\ request.key = key /\ request.param = q
                   /\ ~radio_params[q].dirty => request.value = radio_params[q].requested_value
                   /\ \A later \in Requests : later.param = q => later.key <= key
        BY <1>4, <1>6, <2>2, <3>1, <4>1 DEF InFlight
      <4>2. CASE \E result \in Results :
                   /\ result.key = key
                   /\ NoneFor(q)
                   /\ result.ok /\ ~radio_params[q].dirty => radio[q] = radio_params[q].requested_value
        BY <1>6, <3>1, <3>2, <4>2 DEF InFlight
      <4> QED BY <3>3, <4>1, <4>2 DEF InFlight
    <3> QED BY <3>1, <3>2, <3>3 DEF Tracked
  <2> QED BY <2>1, <2>2
<1>10. PibInv(pib') /\ CoordinatorInv' /\ OneBeacon'
  BY <1>1 DEF IndInv, CoordinatorInv, OneBeacon
<1> QED BY <1>7, <1>8, <1>9, <1>10 DEF IndInv

\* The radio works on the oldest request; a parameter that waits for another
\* request, or for none, is not touched by it unless it is to be sent again.
LEMMA AnswerKeepsInv ==
  ASSUME IndInv, NEW ok \in BOOLEAN, Answer(ok), Apply \/ (~ok /\ UNCHANGED radio)
  PROVE  IndInv'
<1> DEFINE h == Head(requests)
           r == [key |-> Head(requests).key, ok |-> ok]
<1>1. /\ requests # <<>> /\ requests' = Tail(requests) /\ results' = Append(results, r)
      /\ UNCHANGED <<pib, radio_params, outgoing, next_key, started>>
  BY DEF Answer, serviceVars
<1>2. radio_params \in [Params -> Infos] /\ RequestedIsPib /\ radio \in [Params -> Values]
  BY Types DEF IndInv
<1>3. /\ requests \in Seq(RequestType) /\ results \in Seq(ResultType) /\ next_key \in Nat
      /\ Requests \subseteq RequestType /\ Results \subseteq ResultType
      /\ \A q \in RequestType : q.key \in Nat /\ q.param \in Params /\ q.value \in Values
      /\ \A q \in ResultType : q.key \in Nat
  BY LinkTypes
<1>0. LinkInv
  BY DEF IndInv
<1>4. /\ requests' \in Seq(RequestType) /\ h \in RequestType /\ h \in Requests
      /\ KeysIncrease(requests')
      /\ Requests = Requests' \cup {h}
      /\ \A q \in Requests' : h.key < q.key
  BY <1>0, <1>1, <1>3, TailIncrease DEF LinkInv, Requests
<1>5. r \in ResultType /\ r.key = h.key /\ r.ok = ok
  BY <1>3, <1>4 DEF ResultType
<1>6. radio' = radio \/ radio' = [radio EXCEPT ![h.param] = h.value]
  BY DEF Apply
<1>7. ok => radio' = [radio EXCEPT ![h.param] = h.value]
  BY DEF Apply
<1> HIDE DEF h, r
<1>8. results' \in Seq(ResultType) /\ Results' = Results \cup {r} /\ KeysIncrease(results')
  <2>1. \A q \in Elems(results) : q.key < r.key
    BY <1>0, <1>4, <1>5 DEF LinkInv, Results
  <2> QED BY <1>0, <1>1, <1>3, <1>5, <2>1, AppendElems, AppendIncrease DEF LinkInv, Results
<1>9. radio' \in [Params -> Values]
  BY <1>2, <1>3, <1>4, <1>6
<1>10. TypeOK' /\ RequestedIsPib'
  <2>1. DOMAIN pib = PibFields /\ pib.mac_bsn \in Seqs /\ pib.mac_dsn \in Seqs
    BY Types DEF IndInv
  <2>2. \A q \in Params : radio_params'[q].requested_value = ParamValue(pib', q)
    BY <1>1, <1>2 DEF RequestedIsPib
  <2> QED BY <1>1, <1>2, <1>3, <1>4, <1>8, <1>9, <2>1, <2>2, TypesNext
<1>11. LinkInv'
  <2>1. \A request \in Requests', result \in Results' : result.key < request.key
    BY <1>0, <1>4, <1>5, <1>8 DEF LinkInv
  <2>2. /\ \A request \in Requests' : request.key < next_key'
        /\ \A result \in Results' : result.key < next_key'
    BY <1>0, <1>1, <1>4, <1>5, <1>8 DEF LinkInv
  <2> QED BY <1>4, <1>8, <2>1, <2>2 DEF LinkInv
<1>12. ASSUME NEW q \in Params PROVE Tracked(q)'
  <2>1. Tracked(q) /\ radio_params'[q] = radio_params[q]
    BY <1>1 DEF IndInv
  <2>2. NoneFor(q) => NoneFor(q)' /\ radio'[q] = radio[q]
    <3>1. NoneFor(q) => NoneFor(q)' /\ h.param # q
      BY <1>4 DEF NoneFor
    <3> QED BY <3>1, <1>2, <1>6
  <2>3. ASSUME NEW key \in Nat, InFlight(q, key) PROVE InFlight(q, key)'
    <3>1. ASSUME NEW request \in Requests, request.key = key, request.param = q,
                 ~radio_params[q].dirty => request.value = radio_params[q].requested_value,
                 \A later \in Requests : later.param = q => later.key <= key
          PROVE  InFlight(q, key)'
      <4>1. CASE request \in Requests'
        <5>1. \A later \in Requests' : later.param = q => later.key <= key
          BY <3>1, <1>4
        <5>2. ~radio_params'[q].dirty => request.value = radio_params'[q].requested_value
          BY <2>1, <3>1
        <5> QED BY <3>1, <4>1, <5>1, <5>2 DEF InFlight
      <4>2. CASE request = h
        <5>1. NoneFor(q)'
          <6> SUFFICES ASSUME NEW later \in Requests', later.param = q PROVE FALSE
            BY DEF NoneFor
          <6>1. later.key <= key /\ h.key < later.key /\ later.key \in Nat /\ key = h.key
            BY <1>3, <1>4, <3>1, <4>2
          <6> QED BY <6>1
        <5>2. ok /\ ~radio_params'[q].dirty => radio'[q] = radio_params'[q].requested_value
          BY <1>2, <1>7, <2>1, <3>1, <4>2
        <5>3. r \in Results' /\ r.key = key
          BY <1>5, <1>8, <3>1, <4>2
        <5> QED BY <1>5, <5>1, <5>2, <5>3 DEF InFlight
      <4> QED BY <1>4, <4>1, <4>2
    <3>2. ASSUME NEW result \in Results, result.key = key, NoneFor(q),
                 result.ok /\ ~radio_params[q].dirty => radio[q] = radio_params[q].requested_value
          PROVE  InFlight(q, key)'
      <4>1. /\ result \in Results' /\ NoneFor(q)'
            /\ result.ok /\ ~radio_params'[q].dirty => radio'[q] = radio_params'[q].requested_value
        BY <1>8, <2>1, <2>2, <3>2
      <4> QED BY <3>2, <4>1 DEF InFlight
    <3> QED BY <2>3, <3>1, <3>2 DEF InFlight
  <2> QED BY <2>1, <2>2, <2>3 DEF Tracked
<1>13. PibInv(pib') /\ CoordinatorInv' /\ OneBeacon'
  BY <1>1 DEF IndInv, CoordinatorInv, OneBeacon
<1> QED BY <1>10, <1>11, <1>12, <1>13 DEF IndInv

\* Results come back in the order of the requests: the one a parameter waits
\* for comes after every request for that parameter was worked on.
LEMMA DeliverKeepsInv ==
  ASSUME IndInv, Deliver
  PROVE  IndInv'
<1> DEFINE r == Head(results)
<1>1. /\ results # <<>> /\ results' = Tail(results)
      /\ radio_params' = [param \in Params |-> ProcessSetParamResult(radio_params[param], r)]
      /\ UNCHANGED <<pib, outgoing, next_key, requests, radio, started>>
  BY DEF Deliver
<1>2. radio_params \in [Params -> Infos] /\ RequestedIsPib /\ radio \in [Params -> Values]
  BY Types DEF IndInv
<1>3. /\ requests \in Seq(RequestType) /\ results \in Seq(ResultType) /\ next_key \in Nat
      /\ Requests \subseteq RequestType /\ Results \subseteq ResultType
      /\ \A q \in RequestType : q.key \in Nat
      /\ \A q \in ResultType : q.key \in Nat /\ q.ok \in BOOLEAN
  BY LinkTypes
<1>0. LinkInv
  BY DEF IndInv
<1>4. /\ results' \in Seq(ResultType) /\ r \in ResultType /\ r \in Results
      /\ KeysIncrease(results')
      /\ Results = Results' \cup {r}
  BY <1>0, <1>1, <1>3, TailIncrease DEF LinkInv, Results
<1>5. \A q \in Results : q.key = r.key => q = r
  BY <1>0, <1>3, <1>4, KeysDiffer DEF LinkInv, Results
<1>6. \A q \in Requests : q.key # r.key
  BY <1>0, <1>3, <1>4 DEF LinkInv
<1> HIDE DEF r
<1>7. /\ radio_params' \in [Params -> Infos]
      /\ \A q \in Params :
           /\ radio_params'[q].requested_value = radio_params[q].requested_value
           /\ radio_params[q].updating # {r.key} => radio_params'[q] = radio_params[q]
           /\ radio_params[q].updating = {r.key} =>
                /\ radio_params'[q].updating = {}
                /\ radio_params'[q].dirty <=> radio_params[q].dirty \/ ~r.ok
  <2>1. \A q \in Params :
          LET new == ProcessSetParamResult(radio_params[q], r) IN
          /\ new \in Infos
          /\ new.requested_value = radio_params[q].requested_value
          /\ radio_params[q].updating # {r.key} => new = radio_params[q]
          /\ radio_params[q].updating = {r.key} =>
                new.updating = {} /\ (new.dirty <=> radio_params[q].dirty \/ ~r.ok)
    BY <1>2, <1>4, ResultProps DEF ResultType
  <2>2. \A q \in Params : radio_params'[q] = ProcessSetParamResult(radio_params[q], r)
    BY <1>1
  <2>3. radio_params' = [q \in Params |-> radio_params'[q]]
    BY <1>1
  <2>4. \A q \in Params : radio_params'[q] \in Infos
    BY <2>1, <2>2
  <2>5. radio_params' \in [Params -> Infos]
    BY <2>3, <2>4
  <2> QED BY <2>1, <2>2, <2>5
<1>8. TypeOK' /\ RequestedIsPib'
  <2>1. DOMAIN pib = PibFields /\ pib.mac_bsn \in Seqs /\ pib.mac_dsn \in Seqs
    BY Types DEF IndInv
  <2>2. \A q \in Params : radio_params'[q].requested_value = ParamValue(pib', q)
    BY <1>1, <1>2, <1>7 DEF RequestedIsPib
  <2> QED BY <1>1, <1>2, <1>3, <1>4, <1>7, <2>1, <2>2, TypesNext
<1>9. Requests' = Requests
  BY <1>1 DEF Requests
<1>10. LinkInv'
  BY <1>0, <1>1, <1>4, <1>9 DEF LinkInv
<1>11. ASSUME NEW q \in Params PROVE Tracked(q)'
  <2>1. Tracked(q) /\ radio' = radio /\ (NoneFor(q)' <=> NoneFor(q))
    BY <1>1, <1>9 DEF IndInv, NoneFor
  <2>2. CASE radio_params[q].updating = {}
    <3>1. radio_params'[q] = radio_params[q]
      BY <1>7, <2>2
    <3> QED BY <2>1, <2>2, <3>1 DEF Tracked
  <2>3. ASSUME NEW key \in Nat, radio_params[q].updating = {key}, InFlight(q, key),
               key # r.key
        PROVE  Tracked(q)'
    <3>1. radio_params'[q] = radio_params[q]
      BY <1>7, <2>3
    <3>2. InFlight(q, key)'
      BY <1>4, <1>9, <2>1, <2>3, <3>1 DEF InFlight
    <3> QED BY <2>3, <3>1, <3>2 DEF Tracked
  <2>4. ASSUME radio_params[q].updating = {r.key}, InFlight(q, r.key)
        PROVE  Tracked(q)'
    <3>1. NoneFor(q) /\ (r.ok /\ ~radio_params[q].dirty => radio[q] = radio_params[q].requested_value)
      BY <1>5, <1>6, <2>4 DEF InFlight
    <3>2. /\ radio_params'[q].updating = {}
          /\ ~radio_params'[q].dirty => ~radio_params[q].dirty /\ r.ok
          /\ radio_params'[q].requested_value = radio_params[q].requested_value
      BY <1>4, <1>7, <2>4
    <3> QED BY <2>1, <3>1, <3>2 DEF Tracked
  <2>5. \/ radio_params[q].updating = {}
        \/ \E key \in Nat : radio_params[q].updating = {key} /\ InFlight(q, key)
    BY <2>1 DEF Tracked
  <2> QED BY <2>2, <2>3, <2>4, <2>5
<1>12. PibInv(pib') /\ CoordinatorInv' /\ OneBeacon'
  BY <1>1 DEF IndInv, CoordinatorInv, OneBeacon
<1> QED BY <1>8, <1>10, <1>11, <1>12 DEF IndInv

\* A step that leaves all but the beacons as it is.
LEMMA SentBeaconKeepsInv ==
  ASSUME IndInv, UNCHANGED <<pib, radio_params, next_key, requests, results, radio, started>>,
         OneBeacon'
  PROVE  IndInv'
<1>1. TypeOK' /\ RequestedIsPib'
  <2>1. TypeOK /\ RequestedIsPib
    BY DEF IndInv
  <2> QED BY <2>1, Types, TypesNext
<1>2. LinkInv'
  BY DEF IndInv, LinkInv, Requests, Results
<1>3. \A param \in Params : Tracked(param)'
  BY TrackedKept DEF IndInv
<1>4. PibInv(pib') /\ CoordinatorInv'
  BY DEF IndInv, CoordinatorInv
<1> QED BY <1>1, <1>2, <1>3, <1>4 DEF IndInv

LEMMA NextInv == IndInv /\ [Next]_vars => IndInv'
<1> SUFFICES ASSUME IndInv, [Next]_vars PROVE IndInv'
  OBVIOUS
<1>1. ASSUME NEW input \in SetInputs, ProcessMlmeSetRequest(input[1], input[2]) PROVE IndInv'
  <2>1. <<input[1], input[2]>> = input
    BY DEF SetInputs
  <2> QED BY <1>1, <2>1, SetKeepsInv
<1>2. ASSUME NEW value \in Typed("Bool", BOOLEAN),
             ProcessMlmeSetRequest("mac_beacon_auto_respond", value)
      PROVE  IndInv'
  BY <1>2, SetKeepsInv
<1>3. ASSUME NEW property \in DOMAIN pib, ProcessMlmeGetRequest(property) PROVE IndInv'
  BY <1>3, GetKeepsInv
<1>4. ASSUME NEW set_default_pib \in BOOLEAN, NEW bsn \in Seqs, NEW dsn \in Seqs,
             ProcessMlmeResetRequest(set_default_pib, bsn, dsn)
      PROVE  IndInv'
  BY <1>4, ResetKeepsInv
<1>5. ASSUME NEW pan_id \in Pans, NEW channel \in Channels, NEW supported \in BOOLEAN,
             ProcessMlmeStartRequest(pan_id, channel, supported)
      PROVE  IndInv'
  BY <1>5, StartKeepsInv
<1>6. ASSUME NEW channel \in Channels, NEW supported \in BOOLEAN,
             ProcessMlmeBeaconRequest(channel, supported)
      PROVE  IndInv'
  <2>1. /\ Input /\ UNCHANGED <<radio_params, started>>
        /\ QueueBeacon \/ UNCHANGED <<pib, outgoing>>
    BY <1>6 DEF ProcessMlmeBeaconRequest
  <2> QED BY <2>1, BeaconKeepsInv
<1>7. CASE ProcessFrameBeaconRequest
  <2>1. /\ Input /\ UNCHANGED <<radio_params, started>>
        /\ QueueBeacon \/ UNCHANGED <<pib, outgoing>>
    BY <1>7 DEF ProcessFrameBeaconRequest
  <2> QED BY <2>1, BeaconKeepsInv
<1>8. ASSUME NEW param \in Params, PollParam(param) PROVE IndInv'
  BY <1>8, PollParamKeepsInv
<1>9. CASE PollOutgoing
  <2>1. /\ outgoing # <<>> /\ outgoing' = Tail(outgoing)
        /\ UNCHANGED <<pib, radio_params, next_key, requests, results, radio, started>>
    BY <1>9 DEF PollOutgoing, linkVars
  <2>2. PICK beacon : outgoing = <<beacon>>
    BY <2>1 DEF IndInv, OneBeacon
  <2>3. outgoing' = <<>>
    BY <2>1, <2>2
  <2>4. OneBeacon'
    BY <2>3 DEF OneBeacon
  <2> QED BY <2>1, <2>4, SentBeaconKeepsInv
<1>10. CASE RadioExecutes
  <2>1. TRUE \in BOOLEAN /\ Answer(TRUE) /\ Apply
    BY <1>10 DEF RadioExecutes
  <2> QED BY <2>1, AnswerKeepsInv
<1>11. CASE RadioFails
  <2>1. FALSE \in BOOLEAN /\ Answer(FALSE) /\ (Apply \/ UNCHANGED radio)
    BY <1>11 DEF RadioFails
  <2> QED BY <2>1, AnswerKeepsInv
<1>12. CASE Deliver
  BY <1>12, DeliverKeepsInv
<1>13. CASE UNCHANGED vars
  <2>1. UNCHANGED <<pib, radio_params, outgoing, next_key, requests, results, radio, started>>
    BY <1>13 DEF vars, serviceVars, linkVars
  <2>2. OneBeacon'
    BY <2>1 DEF IndInv, OneBeacon
  <2> QED BY <2>1, <2>2, SentBeaconKeepsInv
<1> QED BY <1>1, <1>2, <1>3, <1>4, <1>5, <1>6, <1>7, <1>8, <1>9, <1>10, <1>11, <1>12, <1>13 DEF Next

-----------------------------------------------------------------------------
(* The theorems.                                                            *)
LEMMA Invariance == Spec => []IndInv
  BY InitInv, NextInv, PTL DEF Spec

\* The PIB keeps its fields, the sequence numbers wrap within theirs, and what
\* goes to the radio and comes back keeps its type.
THEOREM TypeCorrect == Spec => []TypeOK
  BY Invariance, PTL DEF IndInv

\* What update_radio_parameters asks of the radio is what the PIB says, after
\* every request and frame, accepted or refused, and across resets.
THEOREM AsksWhatPibSays == Spec => []RequestedIsPib
  BY Invariance, PTL DEF IndInv

\* A parameter with nothing to send and nothing on its way has in the radio the
\* value last requested, for any number of changes, failures and resets while
\* requests are in the link: ManagementService never takes an old result for the
\* answer to a new request.
THEOREM SettledIsApplied == Spec => []SettledMeansApplied
<1>1. IndInv => SettledMeansApplied
  BY DEF IndInv, Tracked, SettledMeansApplied
<1> QED BY Invariance, <1>1, PTL

\* A beacon that says "PAN coordinator" carries the address that MLME-START was
\* accepted for.
THEOREM BeaconsAreTrue == Spec => []BeaconsTellTheTruth
<1>1. IndInv => BeaconsTellTheTruth
  <2> SUFFICES ASSUME IndInv, NEW i \in 1 .. Len(outgoing), outgoing[i].pan_coordinator
               PROVE  /\ started = {pib.mac_short_address}
                      /\ outgoing[i].source.address # InvalidShort
    BY DEF BeaconsTellTheTruth
  <2>1. outgoing # <<>>
    OBVIOUS
  <2>2. PICK beacon : outgoing = <<beacon>> /\
          (beacon.pan_coordinator => /\ started = {pib.mac_short_address}
                                     /\ beacon.source.address # InvalidShort)
    BY <2>1 DEF IndInv, OneBeacon
  <2>3. i = 1 /\ outgoing[i] = beacon
    BY <2>2
  <2> QED BY <2>2, <2>3
<1> QED BY Invariance, <1>1, PTL
=============================================================================
