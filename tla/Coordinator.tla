----------------------------- MODULE Coordinator ----------------------------
(***************************************************************************)
(* The coordinator as a whole: the main loop (src/src/main.rs) starts a    *)
(* PAN and answers indications, the MAC loop (src/src/ieee802154/mac/      *)
(* service.rs) drives the management and the data service over one link to *)
(* the radio, and a device scans, associates and asks for its frames.      *)
(*                                                                         *)
(* Main loop and MAC run in parallel and talk over unbounded channels.     *)
(* The MAC polls the management service, then the data service, and when   *)
(* both have nothing to do takes one input: from the radio, else from      *)
(* mlme_in, else from mcps_in.  As in DataService the radio's answer is    *)
(* made and delivered in one step, and so is a frame received.  The radio  *)
(* is not relied upon to filter frames.  The device, as in 802.15.4,       *)
(* listens after a data request only if the acknowledgement, which the     *)
(* radio makes from its own pending tables, says that a frame is pending.  *)
(* Other devices associate as well, and their marks compete with its own.  *)
(*                                                                         *)
(* The link stands for the tasks of RadioService: each request is written  *)
(* and answered, with success or not, but a send may never complete        *)
(* (MacHangs).                                                             *)
(***************************************************************************)
EXTENDS ManagementOps, FiniteSets

CONSTANTS
  Channels,         \* what the radio may be tuned to at first
  OldShort, OldExtended,   \* what the radio's pending slots may hold at first
  OtherDevices,     \* the extended addresses of other devices
  Size,             \* slots of each pending table
  MaxFrameRetries,
  NoPayload,
  MaxScans,         \* bound: beacon requests of the device
  MaxDenied,        \* bound: data requests that come before the mark of a waiting frame
  MaxDisturbances   \* bound: requests the radio fails, frames the air loses,
                    \* transactions that expire and other devices that associate

ASSUME CoordinatorAssumption ==
  /\ {Size, SeqSpace} \subseteq Nat \ {0}
  /\ {MaxFrameRetries, MaxScans, MaxDenied, MaxDisturbances} \subseteq Nat
  /\ IsFiniteSet(OtherDevices)

VARIABLES
  script,        \* requests the main loop has yet to send
  reply,         \* the data request it sends after an association response
  mlme_in, mcps_in, mlme_out,   \* the channels
  stopped,       \* the tasks that have panicked or ended; "hung": the MAC waits for ever
  passed,        \* the MAC may have found mlme_in empty before it got its message
  pib, radio_params, outgoing,  \* the management service
  queues, msdu_handles, tables, next_key, link, asleep, quiet, requests, outcomes,
  radio,         \* the radio's parameters and its pending tables
  device,        \* coordinator, status, listening, ack (what it has still to send)
  accepted,      \* history: the addresses the device's accepted requests were sent to
  others,        \* the other devices that have yet to associate
  denied, scans, disturbances    \* counted up to their bounds

mainVars == <<script, reply, mcps_in>>
managementVars == <<pib, radio_params, outgoing>>
dataVars == <<queues, msdu_handles, tables, asleep, quiet, requests, outcomes>>
linkVars == <<next_key, link>>
airVars == <<radio, device, accepted, others, denied, scans, disturbances>>
vars == <<mainVars, mlme_in, mlme_out, stopped, passed, managementVars, dataVars,
          linkVars, airVars>>

\* Each association makes two requests, the response and the data.
MaxRequests == 2 * (MaxScans + Cardinality(OtherDevices))

Data == INSTANCE DataService WITH
          mac_dsn <- pib.mac_dsn, Destinations <- {}, MaxDataRequests <- 0, MaxResets <- 0,
          MaxFailures <- 0, datarequests <- 0, failures <- 0, resets <- 0

Seqs == 0 .. SeqSpace - 1

\* The values main.rs has
Channel == 25
Pan == "0x1234"
CoordinatorAddress == "0x0000"
DeviceAddress == "0x4567"
Device == "device"
Home == [pan_id |-> Pan, address |-> CoordinatorAddress]

Set(attribute, type, value) ==
  [type |-> "Set", attribute |-> attribute, value |-> [type |-> type, value |-> value]]
Start == [type |-> "Start", pan_id |-> Pan, channel |-> Channel]

StartTooEarly ==
  << [type |-> "Reset"],
     Set("phy_current_channel", "U16", Channel),
     Set("mac_association_permit", "Bool", TRUE),
     Start,
     Set("mac_short_address", "ShortAddress", CoordinatorAddress),
     Set("mac_beacon_payload", "Blob", "payload"),
     Set("mac_beacon_auto_respond", "Bool", TRUE) >>
Script ==
  << [type |-> "Reset"],
     Set("phy_current_channel", "U16", Channel),
     Set("mac_association_permit", "Bool", TRUE),
     Set("mac_short_address", "ShortAddress", CoordinatorAddress),
     Set("mac_beacon_payload", "Blob", "payload"),
     Set("mac_beacon_auto_respond", "Bool", TRUE),
     Start >>

\* What the radio holds before is not known.
Unknown == "unknown"
Slots == 1 .. Size

Init ==
  /\ script = Script /\ reply = {}
  /\ mlme_in = <<>> /\ mcps_in = <<>> /\ mlme_out = <<>>
  /\ stopped = {} /\ passed = FALSE
  /\ \E channel \in Channels, bsn, dsn \in Seqs :
       pib = NewPib(ExtendedAddr, channel, "power", bsn, dsn)
  /\ radio_params = NewParams(pib) /\ outgoing = <<>>
  /\ Data!Init
  /\ radio \in [params : [Params -> {Unknown}],
                short : [Slots -> OldShort], extended : [Slots -> OldExtended]]
  /\ device = [coordinator |-> {}, status |-> "scanning", listening |-> FALSE, ack |-> {}]
  /\ accepted = <<>> /\ others = OtherDevices
  /\ denied = 0 /\ scans = 0 /\ disturbances = 0

-----------------------------------------------------------------------------
(* The main loop                                                            *)
MainRuns ==
  "mac" \notin stopped /\ UNCHANGED <<stopped, managementVars, dataVars, linkVars, airVars>>

\* The MAC polls mlme_in and then mcps_in: it may be past mlme_in when this comes.
ToMlme(message) ==
  /\ mlme_in' = Append(mlme_in, message)
  /\ passed' = (passed \/ (mlme_in = <<>> /\ asleep))

MainStarts ==
  /\ MainRuns
  /\ script # <<>>
  /\ ToMlme(Head(script))
  /\ script' = Tail(script)
  /\ UNCHANGED <<reply, mcps_in, mlme_out>>

MainTakes(type) ==
  /\ MainRuns
  /\ script = <<>> /\ reply = {}
  /\ mlme_out # <<>> /\ Head(mlme_out).type = type
  /\ mlme_out' = Tail(mlme_out)
  /\ UNCHANGED <<script, mcps_in>>

MainTakesConfirm == MainTakes("Confirm") /\ UNCHANGED <<reply, mlme_in, passed>>

MainSendsBeacon ==
  /\ MainTakes("BeaconRequest")
  /\ ToMlme([type |-> "Beacon", channel |-> Channel])
  /\ UNCHANGED reply

\* Every device gets the same short address.
DirectData == [destination |-> Data!Short(Pan, DeviceAddress), indirect |-> FALSE, ack |-> TRUE]
AssociateData ==
  [destination |-> Data!Short(Pan, DeviceAddress), indirect |-> TRUE, ack |-> TRUE]

MainAnswersAssociate ==
  /\ MainTakes("Associate")
  /\ ToMlme([type |-> "AssociateResponse", device |-> Head(mlme_out).device,
             fast_association |-> Head(mlme_out).fast_association])
  /\ reply' = {AssociateData}

MainSendsData ==
  /\ MainRuns
  /\ reply # {}
  /\ mcps_in' = mcps_in \o << CHOOSE request \in reply : TRUE >>
  /\ reply' = {}
  /\ UNCHANGED <<script, mlme_in, mlme_out, passed>>

\* Without a MAC a send fails, and a receive returns None.
MainStops ==
  /\ stopped = {"mac"}
  /\ stopped' = {"mac", "main"}
  /\ UNCHANGED <<mainVars, mlme_in, mlme_out, passed, managementVars, dataVars, linkVars,
                 airVars>>

Main == MainStarts \/ MainTakesConfirm \/ MainSendsBeacon \/ MainAnswersAssociate
          \/ MainSendsData

-----------------------------------------------------------------------------
(* The MAC polls: management first.                                         *)
MacRuns == stopped = {} /\ passed' = FALSE /\ UNCHANGED <<stopped, script, reply>>

PollParam(param) ==
  /\ MacRuns
  /\ ToSend(radio_params[param])
  /\ radio_params' = [radio_params EXCEPT ![param] = SendParam(@, next_key)]
  /\ link' = Data!ToRadio("SetParam", next_key,
                          [type |-> "SetParam", param |-> param,
                           value |-> radio_params[param].requested_value])
  /\ next_key' = next_key + 1
  /\ UNCHANGED <<mlme_in, mcps_in, mlme_out, pib, outgoing, dataVars, airVars>>

ParamsSent == \A param \in Params : ~ToSend(radio_params[param])

PollOutgoing ==
  /\ MacRuns
  /\ ParamsSent /\ outgoing # <<>>
  /\ outgoing' = Tail(outgoing)
  /\ link' = Data!ToRadio("SendPacket", next_key,
                          [type |-> "Beacon", beacon |-> Head(outgoing)])
  /\ next_key' = next_key + 1
  /\ UNCHANGED <<mlme_in, mcps_in, mlme_out, pib, radio_params, dataVars, airVars>>

PollData ==
  /\ MacRuns
  /\ ParamsSent /\ outgoing = <<>>
  /\ \E dsn \in Seqs : pib' = [pib EXCEPT !.mac_dsn = dsn]
  /\ Data!Poll
  /\ UNCHANGED <<mlme_in, mcps_in, mlme_out, radio_params, outgoing, airVars>>

MacPolls == PollOutgoing \/ PollData \/ \E param \in Params : PollParam(param)

\* The next poll gives the MAC something to send to the radio.
HasRequest ==
  \/ ~ParamsSent \/ outgoing # <<>>
  \/ /\ ~asleep
     /\ \/ Data!PollTables(tables, next_key).action # Data!NoUpdate
        \/ \E d \in DOMAIN queues :
             Data!PollNextAction(queues[d], next_key, pib.mac_dsn).action.type = "SendFrame"

\* The circular wait of RadioService: the MAC sends, the request task waits for the map
\* with another request, and the response task has locked it with the answer to a
\* third.  The channels stay open, so the main loop notices nothing.
MacHangs ==
  /\ stopped = {}
  /\ HasRequest /\ Len(link) >= 2
  /\ stopped' = {"hung"}
  /\ UNCHANGED <<mainVars, mlme_in, mlme_out, passed, managementVars, dataVars, linkVars,
                 airVars>>

-----------------------------------------------------------------------------
(* MLME requests and responses                                              *)
QueueBeacon == outgoing' = Append(outgoing, Beacon(pib)) /\ pib' = BeaconSent(pib)

TakeMlme(type) ==
  /\ MacRuns
  /\ mlme_in # <<>> /\ Head(mlme_in).type = type
  /\ mlme_in' = Tail(mlme_in)
  /\ UNCHANGED <<mcps_in, airVars>>

Confirm(request, result) ==
  mlme_out' = Append(mlme_out, [type |-> "Confirm", request |-> request, result |-> result])

ProcessReset ==
  /\ TakeMlme("Reset")
  /\ \E bsn, dsn \in Seqs :
       pib' = ResetPib(pib, bsn, dsn) /\ Data!ProcessMlmeResetRequest(dsn)
  /\ radio_params' = NewParams(pib') /\ outgoing' = <<>>
  /\ Confirm("Reset", Success)

ProcessSet ==
  LET request == Head(mlme_in) IN
  /\ TakeMlme("Set")
  /\ pib' = SetProperty(pib, request.attribute, request.value)
  /\ radio_params' = UpdateParams(radio_params, pib')
  /\ Confirm("Set", SetResult(request.attribute, request.value))
  /\ Data!OtherInput
  /\ UNCHANGED outgoing

ProcessStart ==
  LET request == Head(mlme_in)
      result  == StartResult(pib, TRUE)
  IN  /\ TakeMlme("Start")
      /\ IF result = Success
         THEN /\ pib' = StartedPib(pib, request.pan_id, request.channel)
              /\ radio_params' = UpdateParams(radio_params, pib')
         ELSE UNCHANGED <<pib, radio_params>>
      /\ Confirm("Start", result)
      /\ Data!OtherInput
      /\ UNCHANGED outgoing

ProcessBeacon ==
  LET allowed == Head(mlme_in).channel = pib.phy_current_channel IN
  /\ TakeMlme("Beacon")
  /\ IF allowed THEN QueueBeacon ELSE UNCHANGED <<pib, outgoing>>
  /\ Confirm("Beacon", IF allowed THEN Success ELSE "InvalidParameter")
  /\ Data!OtherInput
  /\ UNCHANGED radio_params

\* The response goes to the device in the PAN of the moment.
ResponseWithoutPan(p, address) == Data!Extended(BroadcastPan, address)
ResponseAddress(p, address) == Data!Extended(p.mac_pan_id, address)

ProcessAssociateResponse ==
  LET response == Head(mlme_in) IN
  /\ TakeMlme("AssociateResponse")
  /\ UNCHANGED <<managementVars, mlme_out>>
  /\ Data!ProcessMlmeAssociateResponse(ResponseAddress(pib, response.device),
                                       response.fast_association)

ProcessMlme == ProcessReset \/ ProcessSet \/ ProcessStart \/ ProcessBeacon
                 \/ ProcessAssociateResponse

ProcessMcps ==
  LET request == Head(mcps_in) IN
  /\ MacRuns
  /\ mcps_in # <<>>
  /\ mlme_in = <<>> \/ passed
  /\ mcps_in' = Tail(mcps_in)
  /\ UNCHANGED <<mlme_in, mlme_out, managementVars, airVars>>
  /\ Data!ProcessMcpsDataRequest(request.destination, request.indirect, request.ack)

-----------------------------------------------------------------------------
(* The radio answers.                                                       *)
Disturbed == disturbances < MaxDisturbances /\ disturbances' = disturbances + 1

Execute(content) ==
  CASE content.type = "SetParam" ->
         [radio EXCEPT !.params[content.param] = content.value]
    [] content.type = "Init" ->
         [radio EXCEPT !.short = [i \in Slots |-> {}], !.extended = [i \in Slots |-> {}]]
    [] content.type = "UpdateShort" -> [radio EXCEPT !.short[content.index] = content.value]
    [] content.type = "UpdateExtended" ->
         [radio EXCEPT !.extended[content.index] = content.value]
    [] OTHER -> radio

\* The device's own address in the PAN it found
OwnAddress ==
  LET pan_id == (CHOOSE c \in device.coordinator : TRUE).pan_id
  IN  IF device.status = "waiting" THEN Data!Extended(pan_id, Device)
      ELSE Data!Short(pan_id, DeviceAddress)

Hears(content) ==
  \/ content.type = "Beacon" /\ device.status = "scanning"
  \/ /\ content.type = "SendFrame"
     /\ device.listening
     /\ requests[content.key].destination = OwnAddress

Heard(content) ==
  IF content.type = "Beacon"
  THEN [device EXCEPT !.status = "found", !.coordinator = {content.beacon.source}]
  ELSE [device EXCEPT !.status = IF @ = "waiting" THEN "joined" ELSE "served",
                      !.listening = FALSE, !.ack = {content.seq}]

\* ok is what the radio answers, done whether it did as asked, heard whether the
\* device got the frame.
RadioAnswers(ok, done, heard) ==
  LET content == Head(link).content IN
  /\ MacRuns
  /\ link # <<>>
  /\ ok => done
  /\ heard => done /\ Hears(content)
  /\ IF ok /\ (Hears(content) => heard) THEN UNCHANGED disturbances ELSE Disturbed
  /\ radio' = IF done THEN Execute(content) ELSE radio
  /\ device' = IF heard THEN Heard(content) ELSE device
  /\ UNCHANGED <<mlme_in, mcps_in, mlme_out, pib, outgoing, accepted, others, denied, scans>>

\* process_set_param_result
AnswersParam(ok, done) ==
  /\ RadioAnswers(ok, done, FALSE)
  /\ Head(link).type = "SetParam"
  /\ radio_params' = [param \in Params |->
                        ProcessSetParamResult(radio_params[param],
                                              [key |-> Head(link).key, ok |-> ok])]
  /\ Data!Input
  /\ link' = Tail(link)
  /\ UNCHANGED <<queues, msdu_handles, tables, requests, outcomes, next_key>>

\* The result of a beacon belongs to no queue.
AnswersData(ok, done, heard) ==
  /\ RadioAnswers(ok, done, heard)
  /\ Head(link).type # "SetParam"
  /\ UNCHANGED radio_params
  /\ Data!RadioAnswers(ok)

Answers ==
  \E ok, done \in BOOLEAN :
    AnswersParam(ok, done) \/ \E heard \in BOOLEAN : AnswersData(ok, done, heard)

-----------------------------------------------------------------------------
(* Frames received, and timers                                              *)
Receive ==
  /\ MacRuns
  /\ UNCHANGED <<mlme_in, mcps_in, radio_params, radio>>

\* A beacon request is answered, or left to the main loop.
ReceiveBeaconRequest ==
  /\ Receive /\ UNCHANGED disturbances
  /\ device.status = "scanning"
  /\ scans < MaxScans
  /\ scans' = scans + 1
  /\ IF pib.mac_beacon_auto_respond THEN QueueBeacon /\ UNCHANGED mlme_out
     ELSE /\ mlme_out' = Append(mlme_out, [type |-> "BeaconRequest"])
          /\ UNCHANGED <<pib, outgoing>>
  /\ Data!OtherInput
  /\ UNCHANGED <<device, accepted, others, denied>>

\* An association request; the device's source address is its extended one.
ReceiveAssociationRequest(fast_association) ==
  /\ Receive /\ UNCHANGED disturbances
  /\ device.status = "found"
  /\ device' = [device EXCEPT !.status = "waiting", !.listening = fast_association]
  /\ \E destination \in device.coordinator :
       IF AssociationAllowed(pib, destination)
       THEN /\ mlme_out' = Append(mlme_out, [type |-> "Associate", device |-> Device,
                                             fast_association |-> fast_association])
            /\ accepted' = Append(accepted, destination)
       ELSE UNCHANGED <<mlme_out, accepted>>
  /\ UNCHANGED <<pib, outgoing, others, denied, scans>>
  /\ Data!OtherInput

\* Another device found the PAN that was started and associates.  Those who are not
\* accepted leave no trace.
ReceiveOtherAssociation(other) ==
  /\ Receive /\ Disturbed
  /\ other \in others
  /\ AssociationAllowed(pib, Home)
  /\ others' = others \ {other}
  /\ mlme_out' = Append(mlme_out, [type |-> "Associate", device |-> other,
                                   fast_association |-> FALSE])
  /\ UNCHANGED <<pib, outgoing, device, accepted, denied, scans>>
  /\ Data!OtherInput

ToUs(p, destination) ==
  destination \in {GetFullShortAddress(p), GetFullExtendedAddress(p)}

MarkedInRadio(address) ==
  IF address.mode = "Short"
  THEN \E i \in Slots : radio.short[i] = {<<address.pan_id, address.address>>}
  ELSE \E i \in Slots : radio.extended[i] = {address.address}

\* A data request of the device, with the acknowledgement the radio gives it
ReceiveDataRequest ==
  /\ Receive /\ UNCHANGED disturbances
  /\ device.status \in {"waiting", "joined"}
  /\ device' = [device EXCEPT !.listening = MarkedInRadio(OwnAddress)]
  /\ denied' = denied + (IF Data!Awaited(OwnAddress) /\ ~MarkedInRadio(OwnAddress)
                          THEN 1 ELSE 0)
  /\ denied' <= MaxDenied
  /\ UNCHANGED <<mlme_out, pib, outgoing, accepted, others, scans>>
  /\ \E destination \in device.coordinator :
       IF ToUs(pib, destination) THEN Data!ProcessFrameDataRequest(OwnAddress)
       ELSE Data!OtherInput

ReceiveAck ==
  /\ Receive /\ UNCHANGED disturbances
  /\ device.ack # {}
  /\ device' = [device EXCEPT !.ack = {}]
  /\ UNCHANGED <<mlme_out, pib, outgoing, accepted, others, denied, scans>>
  /\ Data!ProcessFrameAck(device.ack)

\* Frame::unpack(...).unwrap(): the task is gone with its services and its ends of
\* the channels.
ReceiveUndecodable ==
  /\ stopped = {} /\ asleep
  /\ stopped' = {"mac"}
  /\ Data!Wake /\ passed' = FALSE
  /\ mlme_in' = <<>> /\ mcps_in' = <<>> /\ outgoing' = <<>>
  /\ queues' = <<>> /\ msdu_handles' = {} /\ tables' = Data!NewTables(Size)
  /\ radio_params' = NewParams(pib)
  /\ link' = <<>>
  /\ UNCHANGED <<script, reply, mlme_out, pib, requests, outcomes, next_key, airVars>>

AckTimeout ==
  /\ MacRuns /\ UNCHANGED <<mlme_in, mcps_in, mlme_out, managementVars, airVars>>
  /\ \E d \in DOMAIN queues : Data!AckTimeout(d)
TransactionTimeout ==
  /\ MacRuns /\ Disturbed
  /\ UNCHANGED <<mlme_in, mcps_in, mlme_out, managementVars, radio, device, accepted,
                 others, denied, scans>>
  /\ \E d \in DOMAIN queues :
       \E i \in 1 .. Len(queues[d].entries) : Data!TransactionTimeout(d, i)

-----------------------------------------------------------------------------
Next ==
  \/ Main \/ MainStops
  \/ MacPolls \/ MacHangs
  \/ ProcessMlme \/ ProcessMcps
  \/ Answers
  \/ ReceiveBeaconRequest
  \/ \E fast_association \in BOOLEAN : ReceiveAssociationRequest(fast_association)
  \/ \E other \in OtherDevices : ReceiveOtherAssociation(other)
  \/ ReceiveDataRequest \/ ReceiveAck \/ ReceiveUndecodable
  \/ AckTimeout \/ TransactionTimeout

Spec == Init /\ [][Next]_vars

\* Both tasks are polled, and a send of the MAC completes unless it is caught in the
\* circular wait.  The radio answers.  Packets come before other inputs, but leave room
\* for them; a device that waits for an answer asks for it again and again; the timeout
\* of an acknowledgement elapses.
Fairness ==
  /\ WF_vars(Main) /\ WF_vars(MacPolls)
  /\ SF_vars(Answers \/ ProcessMlme \/ ProcessMcps)
  /\ SF_vars(ReceiveDataRequest)
  /\ WF_vars(AckTimeout)

FairSpec == Spec /\ Fairness

-----------------------------------------------------------------------------
\* Whatever the services, the link and the radio went through: when the MAC sleeps
\* and the radio has answered everything, the radio has the PIB's parameters, and
\* of the short addresses it marks those that have a frame waiting for them.
RestMeansInStep ==
  asleep /\ link = <<>> =>
    /\ \A param \in Params : radio.params[param] = ParamValue(pib, param)
    /\ LET address == Data!Short(Pan, DeviceAddress)
       IN  MarkedInRadio(address) <=> Data!Awaited(address)

\* The data that the main loop sends behind its association response goes to the
\* radio only once the device has got the response and with it the short address:
\* the MAC may take the two in either order, but the data waits to be asked for.
DataFollowsResponse ==
  \A i \in 1 .. Len(link) :
    link[i].content.type = "SendFrame" /\ requests[link[i].content.key].mcps =>
      device.status \in {"joined", "served"}

\* The node becomes the coordinator of its PAN, and the radio with it, although
\* the main loop looks at no confirm; unless the MAC panicked over a packet or was
\* caught in the circular wait.
EventuallyCoordinator ==
  <>[](\/ stopped # {}
       \/ /\ IsPanCoordinator(pib) /\ pib.mac_pan_id = Pan
          /\ \A param \in Params : radio.params[param] = ParamValue(pib, param))

\* A device whose request was accepted in the PAN that was started gets the response,
\* if it goes on asking: unless it gives up, the response expires or is not acknowledged,
\* the MAC panicked or hangs, or another device's mark has evicted its own from the
\* pending table, after which asking does not help ("TODO2").
Responses == {k \in 1 .. Len(requests) :
                ~requests[k].mcps /\ requests[k].destination.address = Device}
Waits == /\ accepted # <<>> /\ accepted[Len(accepted)] = Home
         /\ device.status = "waiting" /\ device.coordinator = {Home}
NoResponseLeft ==
  Cardinality(Responses) = Len(accepted) /\ \A k \in Responses : Data!Queued(k) = {}
Evicted ==
  /\ asleep /\ Data!Awaited(Data!Extended(Pan, Device))
  /\ \A i \in Slots : tables.extended.table[i].value # {Device}
DeviceIsAnswered ==
  Waits ~> (device.status # "waiting" \/ NoResponseLeft \/ Evicted \/ stopped # {})
=============================================================================
