-------------------------------- MODULE Pib ---------------------------------
(***************************************************************************)
(* The PAN information base of src/src/ieee802154/pib.rs.  A property is   *)
(* named like the field that holds it; a PIBValue is [type, value], and a  *)
(* conversion (try_into) succeeds only for the property's own type.        *)
(***************************************************************************)
EXTENDS Integers

CONSTANTS
  ExtendedAddr,   \* mac_extended_address, read from the radio
  InvalidShort,   \* ShortAddress(0xFFFF), the value of a new PIB
  NoneAssigned,   \* ShortAddress(0xFFFE)
  BroadcastPan,   \* PANID(0xFFFF)
  NoBlob,         \* the empty beacon payload
  DefaultTime,    \* the default transaction persistence time
  SeqSpace        \* sequence numbers are 0 .. SeqSpace - 1 (256 in the code)

\* The type each settable property converts from.
SettableTypes ==
  [mac_association_permit |-> "Bool", mac_beacon_payload |-> "Blob",
   mac_bsn |-> "U8", mac_dsn |-> "U8", mac_pan_id |-> "PANID",
   mac_short_address |-> "ShortAddress", mac_beacon_auto_respond |-> "Bool",
   mac_transaction_persistence_time |-> "Duration",
   phy_current_channel |-> "U16", phy_max_tx_power |-> "U16",
   phy_tx_power |-> "U16"]

Unreadable == {"mac_max_frame_retries"}
ReadOnly == {"mac_extended_address"}

\* PIB::new; bsn and dsn are the random() it draws
NewPib(extended_address, channel, max_tx_power, bsn, dsn) ==
  [mac_extended_address |-> extended_address, mac_associated_pan_coord |-> {},
   mac_association_permit |-> FALSE, mac_beacon_payload |-> NoBlob,
   mac_bsn |-> bsn, mac_dsn |-> dsn, mac_pan_id |-> BroadcastPan,
   mac_short_address |-> InvalidShort, mac_beacon_auto_respond |-> FALSE,
   mac_transaction_persistence_time |-> DefaultTime, mac_max_frame_retries |-> 3,
   phy_current_channel |-> channel, phy_max_tx_power |-> max_tx_power,
   phy_tx_power |-> max_tx_power]

\* The transmit power in use is passed where new takes the maximum.
ResetPib(pib, bsn, dsn) ==
  NewPib(pib.mac_extended_address, pib.phy_current_channel, pib.phy_tx_power, bsn, dsn)

Success == "Ok"

GetResult(property) == IF property \in Unreadable THEN "UnsupportedAttribute" ELSE Success

\* set: what it returns, and what it leaves behind
SetResult(property, value) ==
  CASE property \in ReadOnly -> "ReadOnly"
    [] property \notin ReadOnly \cup DOMAIN SettableTypes -> "UnsupportedAttribute"
    [] property \in DOMAIN SettableTypes /\ value.type # SettableTypes[property] ->
         "InvalidParameter"
    [] property \in DOMAIN SettableTypes /\ value.type = SettableTypes[property] ->
         Success

SetProperty(pib, property, value) ==
  IF SetResult(property, value) = Success
  THEN [pib EXCEPT ![property] = value.value] ELSE pib

\* wrapping_add(1)
NoWrap(n) == n + 1
NextSequenceNr(n) == (n + 1) % SeqSpace

\* Falls back to the extended address only for 0xFFFE.
GetFullShortAddress(pib) ==
  [pan_id |-> pib.mac_pan_id,
   address |-> IF pib.mac_short_address # NoneAssigned THEN pib.mac_short_address
               ELSE pib.mac_extended_address]

GetFullExtendedAddress(pib) ==
  [pan_id |-> pib.mac_pan_id, address |-> pib.mac_extended_address]
=============================================================================
