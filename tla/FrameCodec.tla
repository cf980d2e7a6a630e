----------------------------- MODULE FrameCodec -----------------------------
(***************************************************************************)
(* Frames and their bytes: Frame::pack and Frame::unpack of                *)
(* src/src/ieee802154/frame.rs, with the integers and options of           *)
(* src/src/pack/pack.rs they are made of.                                  *)
(*                                                                         *)
(* One frame makes its way from a sender to the receiver: it is packed,    *)
(* here or by another stack, may lose its end, and is unpacked.  A u64 is  *)
(* the sequence of its bytes, the most significant first; an Option is a   *)
(* set with at most one element.                                           *)
(***************************************************************************)
EXTENDS Integers, SequencesExt

CONSTANTS
  Pans, Shorts, Extendeds,   \* PANID, ShortAddress (u16) and ExtendedAddress (u64)
  SequenceNumbers,           \* Option<u8>
  Orders,                    \* the orders and the final slot of beacons (usize)
  Payloads                   \* sequences of bytes

Byte == 0 .. 255
U16 == 0 .. 2^16 - 1

\* The integers have their width, and an Option has at most one element.
ASSUME FrameCodecAssumption ==
  /\ Pans \subseteq U16 /\ Shorts \subseteq U16
  /\ \A e \in Extendeds : e \in Seq(Byte) /\ Len(e) = 8
  /\ \A number \in SequenceNumbers : number = {} \/ \E n \in Byte : number = {n}
  /\ Orders \subseteq Nat /\ Payloads \subseteq Seq(Byte)

VARIABLES
  frame,     \* the frame that is sent
  wire,      \* its bytes
  encoding,  \* "none", "refused" and "own" (Frame::pack), "other"
  cut,       \* bytes were lost at the end
  result     \* what unpack returned, or {} before

vars == <<frame, wire, encoding, cut, result>>

-----------------------------------------------------------------------------
(* Frames                                                                   *)
Addresses == [mode : {2}, value : Shorts] \cup [mode : {3}, value : Extendeds]
FullAddresses == [pan_id : Pans, address : Addresses]
Options(S) == {{}} \cup {{x} : x \in S}

Capabilities ==
  [device_type : 0 .. 1, power_source : 0 .. 1, receiver_on_when_idle : BOOLEAN,
   fast_association : BOOLEAN, security_capable : BOOLEAN, allocate_address : BOOLEAN]
AssociationErrors == 1 .. 3
Responses ==
  [fast_association : BOOLEAN,
   status : [ok : {TRUE}, value : Shorts] \cup [ok : {FALSE}, value : AssociationErrors]]
Beacons ==
  [beacon_order : Orders, superframe_order : Orders, final_cap_slot : Orders,
   battery_life_extension : BOOLEAN, pan_coordinator : BOOLEAN,
   association_permit : BOOLEAN, payload : Payloads]

\* FrameType: a beacon (0), a command (3), and the types that are a payload
PayloadTags == {1, 2, 4, 5, 6, 7}
FrameTypes ==
  [tag : {0}, content : Beacons] \cup [tag : PayloadTags, content : Payloads]
    \cup [tag : {3}, command : {1}, content : Capabilities]
    \cup [tag : {3}, command : {2}, content : Responses]
    \cup [tag : {3}, command : {4, 7}, content : {<<>>}]
IsAssociationRequest(f) == f.frame_type.tag = 3 /\ f.frame_type.command = 1

-----------------------------------------------------------------------------
(* Packing                                                                  *)
Bit(b) == IF b THEN 1 ELSE 0
Low(v) == v % 256
High(v) == v \div 256
PackU16(v) == <<Low(v), High(v)>>
PackAddress(a) == IF a.mode = 2 THEN PackU16(a.value) ELSE Reverse(a.value)
PackFullAddress(a) == PackU16(a.pan_id) \o PackAddress(a.address)

\* An option, whose content is packed already
PackOption(packed) == IF packed = {} THEN <<>> ELSE CHOOSE bytes \in packed : TRUE
ModeOf(option) == IF option = {} THEN 0 ELSE (CHOOSE a \in option : TRUE).address.mode
PanOf(option) == {a.pan_id : a \in option}

CompressAlways(f) == f.destination # {} /\ f.source # {}
PanIdCompression(f) == f.destination # {} /\ PanOf(f.destination) = PanOf(f.source)

\* FrameControl; the other fields are 0
FrameControl(f, compression) ==
  f.frame_type.tag + Bit(f.frame_pending) * 16 + Bit(f.acknowledge_request) * 32
    + Bit(compression) * 64 + Bit(f.sequence_number = {}) * 256
    + ModeOf(f.destination) * 1024 + ModeOf(f.source) * 16384

SuperframeSpecification(b) ==
  b.beacon_order + b.superframe_order * 16 + b.final_cap_slot * 256
    + Bit(b.battery_life_extension) * 4096 + Bit(b.pan_coordinator) * 16384
    + Bit(b.association_permit) * 32768

InvalidAddress == 65535
PackResponse(r) ==
  PackU16(IF r.status.ok THEN r.status.value ELSE InvalidAddress)
    \o <<(IF r.status.ok THEN 0 ELSE r.status.value) + Bit(r.fast_association) * 128>>

\* CapabilityInformation::pack writes nothing.
PackCapabilities(c) == <<>>

PackContent(t) ==
  CASE t.tag = 0 -> PackU16(SuperframeSpecification(t.content)) \o <<0, 0>> \o t.content.payload
    [] t.tag \in PayloadTags -> t.content
    [] t.tag = 3 -> <<t.command>> \o
         (CASE t.command = 1 -> PackCapabilities(t.content)
            [] t.command = 2 -> PackResponse(t.content)
            [] OTHER -> <<>>)

\* A beacon with an order or a slot of more than four bits is NotAllowed.
Allowed(f) ==
  f.frame_type.tag = 0 =>
    \A order \in {f.frame_type.content.beacon_order, f.frame_type.content.superframe_order,
                  f.frame_type.content.final_cap_slot} : order <= 15

Assemble(f, control, compression, content) ==
  PackU16(control) \o PackOption({<<n>> : n \in f.sequence_number})
    \o PackOption({PackFullAddress(a) : a \in f.destination})
    \o PackOption({IF compression THEN PackAddress(a.address) ELSE PackFullAddress(a) :
                      a \in f.source})
    \o content

PackFrame(f) ==
  Assemble(f, FrameControl(f, PanIdCompression(f)), PanIdCompression(f),
           PackContent(f.frame_type))

-----------------------------------------------------------------------------
(* Unpacking: a parser returns the value and the bytes that are left, or an *)
(* error; Then goes on unless there was one.                                *)
Ok(value, rest) == [ok |-> TRUE, value |-> value, rest |-> rest]
Err(error) == [ok |-> FALSE, error |-> error]
Then(parsed, More(_, _)) == IF parsed.ok THEN More(parsed.value, parsed.rest) ELSE parsed

MissingIsZero(n, data) ==
  Ok([i \in 1 .. n |-> IF i <= Len(data) THEN data[i] ELSE 0], SubSeq(data, n + 1, Len(data)))
UnpackBytes(n, data) ==
  IF Len(data) < n THEN Err("NotEnoughData")
  ELSE Ok(SubSeq(data, 1, n), SubSeq(data, n + 1, Len(data)))
UnpackU8(data) == Then(UnpackBytes(1, data), LAMBDA b, rest : Ok(b[1], rest))
UnpackU16(data) == Then(UnpackBytes(2, data), LAMBDA b, rest : Ok(b[1] + b[2] * 256, rest))
UnpackU64(data) == Then(UnpackBytes(8, data), LAMBDA b, rest : Ok(Reverse(b), rest))

\* Bits low .. high of a bit field
Field(v, high, low) == (v \div 2^low) % 2^(high - low + 1)
IsSet(v, bit) == Field(v, bit, bit) # 0

\* The derived unpack_data and unpack of an enum find the variant of a tag that
\* was read before, or of the byte in front.
UnpackTagged(tag, tags, data) ==
  IF tag \in tags THEN Ok(tag, data) ELSE Err("InvalidEnumTag")
UnpackEnum(tags, data) ==
  Then(UnpackU8(data), LAMBDA tag, rest : UnpackTagged(tag, tags, rest))

UnpackAddressData(mode, data) ==
  Then(UnpackTagged(mode, {2, 3}, data), LAMBDA tag, bytes :
    Then(IF tag = 2 THEN UnpackU16(bytes) ELSE UnpackU64(bytes),
         LAMBDA v, rest : Ok([mode |-> tag, value |-> v], rest)))

UnpackAddress(mode, previous_pan, data) ==
  IF mode = 0 THEN Ok({}, data)
  ELSE Then(IF previous_pan # {} THEN Ok(CHOOSE pan \in previous_pan : TRUE, data)
            ELSE UnpackU16(data),
            LAMBDA pan, rest :
              Then(UnpackAddressData(mode, rest),
                   LAMBDA a, last : Ok({[pan_id |-> pan, address |-> a]}, last)))

UnpackBeacon(data) ==
  Then(UnpackU16(data), LAMBDA ss, r1 :
  Then(UnpackBytes(2, r1), LAMBDA lists, payload :
    IF lists # <<0, 0>> THEN Err("Unimplemented")
    ELSE Ok([beacon_order |-> Field(ss, 3, 0), superframe_order |-> Field(ss, 7, 4),
             final_cap_slot |-> Field(ss, 11, 8),
             battery_life_extension |-> IsSet(ss, 12), pan_coordinator |-> IsSet(ss, 14),
             association_permit |-> IsSet(ss, 15), payload |-> payload], <<>>)))

UnpackCapabilities(data) ==
  Then(UnpackU8(data), LAMBDA c, rest :
    Ok([device_type |-> Field(c, 1, 1), power_source |-> Field(c, 2, 2),
        receiver_on_when_idle |-> IsSet(c, 3), fast_association |-> IsSet(c, 4),
        security_capable |-> IsSet(c, 6), allocate_address |-> IsSet(c, 7)], rest))

ErrorOf(status) == status % 128

UnpackResponse(data) ==
  Then(UnpackU16(data), LAMBDA address, r1 :
  Then(UnpackU8(r1), LAMBDA status, rest :
  Then(IF ErrorOf(status) = 0 THEN Ok([ok |-> TRUE, value |-> address], rest)
       ELSE Then(UnpackTagged(ErrorOf(status), AssociationErrors, rest),
                 LAMBDA e, bytes : Ok([ok |-> FALSE, value |-> e], bytes)),
       LAMBDA outcome, last :
         Ok([fast_association |-> IsSet(status, 7), status |-> outcome], last))))

UnpackCommand(data) ==
  Then(UnpackEnum({1, 2, 4, 7}, data), LAMBDA tag, bytes :
    Then(CASE tag = 1 -> UnpackCapabilities(bytes)
           [] tag = 2 -> UnpackResponse(bytes)
           [] OTHER -> Ok(<<>>, bytes),
         LAMBDA content, rest :
           Ok([tag |-> 3, command |-> tag, content |-> content], rest)))

UnpackFrameType(tag, data) ==
  Then(UnpackTagged(tag, 0 .. 7, data), LAMBDA t, bytes :
    CASE t = 0 -> Then(UnpackBeacon(bytes), LAMBDA b, rest : Ok([tag |-> 0, content |-> b], rest))
      [] t = 3 -> UnpackCommand(bytes)
      [] OTHER -> Ok([tag |-> t, content |-> bytes], <<>>))

PreviousPan(control, destination) == IF IsSet(control, 6) THEN PanOf(destination) ELSE {}

UnpackFrame(data) ==
  Then(UnpackU16(data), LAMBDA fc, r1 :
  Then(IF IsSet(fc, 8) THEN Ok({}, r1)
       ELSE Then(UnpackU8(r1), LAMBDA n, rest : Ok({n}, rest)), LAMBDA number, r2 :
  Then(UnpackAddress(Field(fc, 11, 10), {}, r2), LAMBDA destination, r3 :
  Then(UnpackAddress(Field(fc, 15, 14), PreviousPan(fc, destination), r3), LAMBDA source, r4 :
    IF IsSet(fc, 9) \/ IsSet(fc, 3) THEN Err("Unimplemented")
    ELSE Then(UnpackFrameType(Field(fc, 2, 0), r4), LAMBDA type, rest :
           Ok([frame_pending |-> IsSet(fc, 4), acknowledge_request |-> IsSet(fc, 5),
               sequence_number |-> number, destination |-> destination,
               source |-> source, frame_type |-> type], rest))))))

-----------------------------------------------------------------------------
Frames ==
  [frame_pending : BOOLEAN, acknowledge_request : BOOLEAN,
   sequence_number : SequenceNumbers, destination : Options(FullAddresses),
   source : Options(FullAddresses), frame_type : FrameTypes]

Init ==
  /\ frame \in Frames
  /\ wire = <<>> /\ encoding = "none" /\ cut = FALSE /\ result = {}

Pack ==
  /\ encoding = "none" /\ Allowed(frame)
  /\ wire' = PackFrame(frame)
  /\ encoding' = "own"
  /\ UNCHANGED <<frame, cut, result>>

PackNotAllowed ==
  /\ encoding = "none" /\ ~Allowed(frame)
  /\ encoding' = "refused"
  /\ UNCHANGED <<frame, wire, cut, result>>

\* Another stack: it need not compress the PAN, may set the reserved bit and a
\* later frame version, and does write the capabilities.
CapabilityByte(c) ==
  c.device_type * 2 + c.power_source * 4 + Bit(c.receiver_on_when_idle) * 8
    + Bit(c.fast_association) * 16 + Bit(c.security_capable) * 64
    + Bit(c.allocate_address) * 128
OtherContent(t) ==
  IF t.tag = 3 /\ t.command = 1 THEN <<1, CapabilityByte(t.content)>> ELSE PackContent(t)

PackElsewhere(compression, extra) ==
  /\ encoding = "none" /\ Allowed(frame)
  /\ compression => PanIdCompression(frame)
  /\ wire' = Assemble(frame, FrameControl(frame, compression) + extra, compression,
                      OtherContent(frame.frame_type))
  /\ encoding' = "other"
  /\ UNCHANGED <<frame, cut, result>>

\* Only the first n bytes get through.
Cut(n) ==
  /\ encoding \in {"own", "other"} /\ ~cut /\ result = {}
  /\ wire' = SubSeq(wire, 1, n)
  /\ cut' = TRUE
  /\ UNCHANGED <<frame, encoding, result>>

Unpack ==
  /\ encoding \in {"own", "other"} /\ result = {}
  /\ result' = {UnpackFrame(wire)}
  /\ UNCHANGED <<frame, wire, encoding, cut>>

ReservedAndVersion == 128 + 4096

Next ==
  \/ Pack
  \/ PackNotAllowed
  \/ \E compression \in BOOLEAN, extra \in {0, ReservedAndVersion} :
        PackElsewhere(compression, extra)
  \/ \E n \in 0 .. Len(wire) - 1 : Cut(n)
  \/ Unpack

Spec == Init /\ [][Next]_vars

-----------------------------------------------------------------------------
\* A whole frame is received as it was sent, with nothing left over, whichever
\* of its encodings the sender chose: every combination of addresses, PANs and
\* sequence number is told apart, and no field runs over into its neighbour.  (An association request can only come from
\* another stack: the program does not write its content.)
ReceivedAsSent ==
  \A r \in result : ~cut /\ ~(encoding = "own" /\ IsAssociationRequest(frame)) =>
    r.ok /\ r.value = frame /\ r.rest = <<>>

\* The payload a frame ends with, if its type has one
PayloadOf(t) ==
  CASE t.tag = 0 -> t.content.payload [] t.tag \in PayloadTags -> t.content [] OTHER -> <<>>
WithPayload(t, payload) ==
  CASE t.tag = 0 -> [t EXCEPT !.content.payload = payload]
    [] t.tag \in PayloadTags -> [t EXCEPT !.content = payload]
    [] OTHER -> t

\* A frame that lost its end is refused for want of data, or is the frame with a
\* shorter payload: no cut makes other addresses, numbers or commands of it.
CutIsNoticed ==
  \A r \in result : cut =>
    IF r.ok THEN /\ r.value = [frame EXCEPT !.frame_type =
                                 WithPayload(@, PayloadOf(r.value.frame_type))]
                 /\ IsStrictPrefix(PayloadOf(r.value.frame_type), PayloadOf(frame.frame_type))
    ELSE r.error = "NotEnoughData"
=============================================================================
