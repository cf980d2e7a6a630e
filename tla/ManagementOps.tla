---------------------------- MODULE ManagementOps ---------------------------
(***************************************************************************)
(* The operations of the ManagementService (src/src/ieee802154/mac/        *)
(* management.rs) as operators on the PIB p and on the radio parameters,   *)
(* a function from parameters to [requested_value, updating, dirty].       *)
(***************************************************************************)
EXTENDS Pib, Sequences

CONSTANT Params   \* the radio parameters that are looked at, of the five in the code

\* The parameters update_radio_parameters sets
RadioParams == {"Channel", "PanId", "ShortAddress", "RxMode", "TxPower"}

ASSUME ParamsAssumption == Params \subseteq RadioParams

\* update_radio_parameters: the value each parameter gets from the PIB
RxMode == "filter+autoack"
ParamValue(p, param) ==
  CASE param = "Channel" -> p.phy_current_channel
    [] param = "PanId" -> p.mac_pan_id
    [] param = "ShortAddress" -> p.mac_short_address
    [] param = "RxMode" -> RxMode
    [] param = "TxPower" -> p.phy_tx_power

\* ManagementService::new: no parameter is known yet, so each one is inserted.
NewParams(p) ==
  [param \in Params |->
     [requested_value |-> ParamValue(p, param), updating |-> {}, dirty |-> TRUE]]

\* update_radio_parameter for each of the parameters, which all exist by now
KeepParams(params, p) == params
UpdateParams(params, p) ==
  [param \in Params |->
     IF params[param].requested_value # ParamValue(p, param)
     THEN [params[param] EXCEPT !.requested_value = ParamValue(p, param),
                                !.dirty = TRUE]
     ELSE params[param]]

\* poll_radio_param_update, for a parameter that is to be sent
ToSend(info) == info.dirty /\ info.updating = {}
SendParam(info, key) == [info EXCEPT !.dirty = FALSE, !.updating = {key}]

DropFailure(info, result) ==
  IF info.updating = {result.key} THEN [info EXCEPT !.updating = {}] ELSE info
StickOnFailure(info, result) ==
  IF info.updating = {result.key} /\ result.ok THEN [info EXCEPT !.updating = {}] ELSE info
ProcessSetParamResult(info, result) ==
  IF info.updating = {result.key}
  THEN [info EXCEPT !.updating = {}, !.dirty = @ \/ ~result.ok] ELSE info

-----------------------------------------------------------------------------
(* MLME-START and MLME-BEACON, and the frames of a device that joins        *)
\* supported stands for the conditions on the request's other fields
StartResult(p, supported) ==
  CASE p.mac_short_address = InvalidShort -> "NoShortAddress"
    [] p.mac_short_address # InvalidShort /\ ~supported -> "InvalidParameter"
    [] OTHER -> Success

StartedPib(p, pan_id, channel) ==
  [p EXCEPT !.phy_current_channel = channel, !.mac_pan_id = pan_id,
            !.mac_associated_pan_coord = {<<p.mac_extended_address, p.mac_short_address>>}]

\* Some coordinator is known, itself or not.
HasCoordinator(p) == p.mac_associated_pan_coord # {}
IsPanCoordinator(p) ==
  p.mac_associated_pan_coord = {<<p.mac_extended_address, p.mac_short_address>>}

Beacon(p) ==
  [sequence_number |-> p.mac_bsn, source |-> GetFullShortAddress(p),
   pan_coordinator |-> IsPanCoordinator(p),
   association_permit |-> p.mac_association_permit, payload |-> p.mac_beacon_payload]

BeaconSent(p) == [p EXCEPT !.mac_bsn = NextSequenceNr(@)]

\* process_frame_association_request: the request becomes an indication
AssociationAllowed(p, destination) ==
  p.mac_association_permit /\ destination = GetFullShortAddress(p)
=============================================================================
