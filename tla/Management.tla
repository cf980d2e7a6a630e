----------------------------- MODULE Management -----------------------------
(***************************************************************************)
(* The ManagementService (src/src/ieee802154/mac/management.rs) with its   *)
(* PIB: MLME requests and frames change the PIB, and the radio parameters  *)
(* derived from it are kept up to date in the radio by SetParam requests,  *)
(* one at a time for each parameter, repeated when they fail.              *)
(*                                                                         *)
(* The MAC (mac/service.rs) takes an input only when poll_action has       *)
(* nothing left to do.  The link to the radio keeps the order of requests  *)
(* and of results; the device works on one request at a time.              *)
(***************************************************************************)
EXTENDS ManagementOps

CONSTANTS
  Pans, Shorts, Channels, Powers,  \* the values MLME-SET and MLME-START are given
  MaxInputs,    \* bound: MLME requests and frames
  MaxFailures   \* bound: SetParam requests the radio fails

ASSUME ManagementAssumption ==
  /\ SeqSpace \in Nat \ {0}
  /\ MaxInputs \in Nat
  /\ MaxFailures \in Nat
  /\ InvalidShort \notin {NoneAssigned, ExtendedAddr}   \* two short addresses, two types

VARIABLES
  pib,
  radio_params,  \* RadioParam -> [requested_value, updating, dirty]
  outgoing,      \* beacons to be sent
  next_key,      \* the next UniqueKey::new()
  requests,      \* SetParam requests on their way to the radio
  results,       \* their results on the way back
  radio,         \* the radio's parameters
  confirm,       \* the result in the last MLME confirm, with the request's name
  started,       \* history: short address at the last successful MLME-START
                 \* since the PIB was last reset
  inputs, failures

serviceVars == <<radio_params, outgoing>>
linkVars == <<next_key, requests, results, radio, failures>>
vars == <<pib, serviceVars, linkVars, confirm, started, inputs>>

Seqs == 0 .. SeqSpace - 1

\* What the radio holds before is not known, but the start-up has read the
\* channel from it and set its RxMode.
Unknown == "unknown"

Init ==
  /\ \E channel \in Channels, power \in Powers, bsn, dsn \in Seqs :
       /\ pib = NewPib(ExtendedAddr, channel, power, bsn, dsn)
       /\ radio = [param \in Params |->
                     IF param \in {"Channel", "RxMode"} THEN ParamValue(pib, param)
                     ELSE Unknown]
  /\ radio_params = NewParams(pib)
  /\ outgoing = <<>>
  /\ next_key = 0
  /\ requests = <<>> /\ results = <<>>
  /\ confirm = {} /\ started = {}
  /\ inputs = 0 /\ failures = 0

-----------------------------------------------------------------------------
(* poll_action                                                              *)
\* The map is iterated in no particular order.
PollParam(param) ==
  /\ ToSend(radio_params[param])
  /\ radio_params' = [radio_params EXCEPT ![param] = SendParam(@, next_key)]
  /\ requests' = Append(requests, [key |-> next_key, param |-> param,
                          value |-> radio_params[param].requested_value])
  /\ next_key' = next_key + 1
  /\ UNCHANGED <<pib, outgoing, results, radio, failures, confirm, started,
                 inputs>>

PollOutgoing ==
  /\ \A param \in Params : ~ToSend(radio_params[param])
  /\ outgoing # <<>>
  /\ outgoing' = Tail(outgoing)
  /\ UNCHANGED <<pib, radio_params, linkVars, confirm, started, inputs>>

Quiet == outgoing = <<>> /\ \A param \in Params : ~ToSend(radio_params[param])

-----------------------------------------------------------------------------
(* MLME requests and frames                                                 *)
Input == Quiet /\ inputs < MaxInputs /\ inputs' = inputs + 1
           /\ UNCHANGED <<linkVars>>

Confirm(request, result) == confirm' = {[request |-> request, result |-> result]}

\* MLME-SET; radio parameters are updated whether or not the set succeeded.
ProcessMlmeSetRequest(property, value) ==
  /\ Input
  /\ pib' = SetProperty(pib, property, value)
  /\ radio_params' = UpdateParams(radio_params, pib')
  /\ Confirm("Set", SetResult(property, value))
  /\ UNCHANGED <<outgoing, started>>

ProcessMlmeGetRequest(property) ==
  /\ Input
  /\ Confirm("Get", GetResult(property))
  /\ UNCHANGED <<pib, serviceVars, started>>

\* MLME-RESET; the service starts afresh and forgets what is on its way.  (The
\* new DataService is the reset of CombinedPendingTable and DataService.)
ProcessMlmeResetRequest(set_default_pib, bsn, dsn) ==
  /\ Input
  /\ pib' = IF set_default_pib THEN ResetPib(pib, bsn, dsn) ELSE pib
  /\ started' = IF set_default_pib THEN {} ELSE started
  /\ radio_params' = NewParams(pib')
  /\ outgoing' = <<>>
  /\ Confirm("Reset", Success)

ProcessMlmeStartRequest(pan_id, channel, supported) ==
  /\ Input
  /\ Confirm("Start", StartResult(pib, supported))
  /\ IF StartResult(pib, supported) = Success
     THEN /\ pib' = StartedPib(pib, pan_id, channel)
          /\ radio_params' = UpdateParams(radio_params, pib')
          /\ started' = {pib.mac_short_address}
     ELSE UNCHANGED <<pib, radio_params, started>>
  /\ UNCHANGED outgoing

QueueBeacon ==
  /\ outgoing' = Append(outgoing, Beacon(pib))
  /\ pib' = BeaconSent(pib)

\* MLME-BEACON; supported stands for order 15 on page 0
ProcessMlmeBeaconRequest(channel, supported) ==
  /\ Input
  /\ IF supported /\ channel = pib.phy_current_channel
     THEN QueueBeacon /\ Confirm("Beacon", Success)
     ELSE UNCHANGED <<pib, outgoing>> /\ Confirm("Beacon", "InvalidParameter")
  /\ UNCHANGED <<radio_params, started>>

\* A beacon request frame is answered, or left to the next higher layer.
ProcessFrameBeaconRequest ==
  /\ Input
  /\ IF pib.mac_beacon_auto_respond THEN QueueBeacon ELSE UNCHANGED <<pib, outgoing>>
  /\ UNCHANGED <<radio_params, confirm, started>>

-----------------------------------------------------------------------------
(* The radio, and process_set_param_result                                  *)
Answer(ok) ==
  /\ requests # <<>>
  /\ requests' = Tail(requests)
  /\ results' = Append(results, [key |-> Head(requests).key, ok |-> ok])
  /\ UNCHANGED <<pib, serviceVars, next_key, confirm, started, inputs>>

Apply == radio' = [radio EXCEPT ![Head(requests).param] = Head(requests).value]

RadioExecutes ==
  /\ Answer(TRUE)
  /\ Apply
  /\ UNCHANGED failures

\* An error, before or after the parameter was changed.
RadioFails ==
  /\ Answer(FALSE)
  /\ failures < MaxFailures
  /\ failures' = failures + 1
  /\ Apply \/ UNCHANGED radio

Deliver ==
  /\ Quiet
  /\ results # <<>>
  /\ results' = Tail(results)
  /\ radio_params' = [param \in Params |->
                        ProcessSetParamResult(radio_params[param], Head(results))]
  /\ UNCHANGED <<pib, outgoing, next_key, requests, radio, failures, confirm, started,
                 inputs>>

-----------------------------------------------------------------------------
\* One property of each kind: those of the parameters, a value of the wrong
\* type, the unsupported property and the read-only one.
Typed(type, S) == {[type |-> type, value |-> v] : v \in S}
SetInputs ==
  ({"mac_pan_id"} \X Typed("PANID", Pans))
    \cup ({"mac_short_address"} \X Typed("ShortAddress", Shorts \cup {NoneAssigned}))
    \cup ({"phy_current_channel"} \X Typed("U16", Channels))
    \cup ({"phy_tx_power"} \X Typed("U16", Powers))
    \cup ({"mac_pan_id", "mac_max_frame_retries"} \X Typed("U16", Powers))
    \cup ({"mac_extended_address"} \X Typed("ExtendedAddress", {ExtendedAddr}))

Next ==
  \/ \E input \in SetInputs : ProcessMlmeSetRequest(input[1], input[2])
  \/ \E value \in Typed("Bool", BOOLEAN) :
        ProcessMlmeSetRequest("mac_beacon_auto_respond", value)
  \/ \E property \in DOMAIN pib : ProcessMlmeGetRequest(property)
  \/ \E set_default_pib \in BOOLEAN, bsn, dsn \in Seqs :
        ProcessMlmeResetRequest(set_default_pib, bsn, dsn)
  \/ \E pan_id \in Pans, channel \in Channels, supported \in BOOLEAN :
        ProcessMlmeStartRequest(pan_id, channel, supported)
  \/ \E channel \in Channels, supported \in BOOLEAN :
        ProcessMlmeBeaconRequest(channel, supported)
  \/ ProcessFrameBeaconRequest
  \/ \E param \in Params : PollParam(param)
  \/ PollOutgoing
  \/ RadioExecutes \/ RadioFails
  \/ Deliver

Spec == Init /\ [][Next]_vars

\* The MAC polls, the radio answers, and answers are delivered.
Fairness ==
  /\ WF_vars(PollOutgoing \/ \E param \in Params : PollParam(param))
  /\ WF_vars(RadioExecutes \/ RadioFails)
  /\ WF_vars(Deliver)

FairSpec == Spec /\ Fairness
-----------------------------------------------------------------------------
Values == Pans \cup Shorts \cup Channels \cup Powers
            \cup {BroadcastPan, InvalidShort, NoneAssigned, RxMode, Unknown}

\* The service's parameters and the link keep their types.
TypeOK ==
  /\ DOMAIN pib = DOMAIN SettableTypes \cup Unreadable \cup ReadOnly
                    \cup {"mac_associated_pan_coord"}
  /\ pib.mac_bsn \in Seqs /\ pib.mac_dsn \in Seqs
  /\ radio_params \in [Params -> [requested_value : Values, updating : SUBSET Nat,
                                  dirty : BOOLEAN]]
  /\ next_key \in Nat
  /\ requests \in Seq([key : Nat, param : Params, value : Values])
  /\ results \in Seq([key : Nat, ok : BOOLEAN])
  /\ radio \in [Params -> Values]

\* What is asked of the radio is what the PIB says, after every request and
\* frame, accepted or refused, and across resets.
RequestedIsPib ==
  \A param \in Params : radio_params[param].requested_value = ParamValue(pib, param)

\* A parameter for which nothing is to be sent and nothing on its way has in
\* the radio the value that was last requested, whatever was requested, failed
\* or reset while requests were on their way.
SettledMeansApplied ==
  \A param \in Params :
    ~radio_params[param].dirty /\ radio_params[param].updating = {} =>
      radio[param] = radio_params[param].requested_value

\* A beacon says "PAN coordinator" only with the address that MLME-START was
\* accepted for, which was an assigned one.
BeaconsTellTheTruth ==
  \A i \in 1 .. Len(outgoing) : outgoing[i].pan_coordinator =>
    /\ started = {pib.mac_short_address}
    /\ outgoing[i].source.address # InvalidShort

\* Once requests and failures stop the radio ends up with the PIB's values.
EventuallyApplied ==
  <>[](\A param \in Params : radio[param] = ParamValue(pib, param))
=============================================================================
