----------------------- MODULE CombinedPendingTableOps ----------------------
(***************************************************************************)
(* src/src/ieee802154/mac/combinedpendingtable.rs as operators on a value  *)
(* c = [initializing, is_initialized, none, short, extended]: one table of *)
(* short and one of extended addresses, used once the radio's own tables   *)
(* have been cleared.                                                      *)
(***************************************************************************)
EXTENDS PendingTableOps

\* Option<FullAddress>
NoAddress == [mode |-> "None"]
Short(pan_id, address) == [mode |-> "Short", pan_id |-> pan_id, address |-> address]
Extended(pan_id, address) ==
  [mode |-> "Extended", pan_id |-> pan_id, address |-> address]

\* What poll_action returns: CombinedPendingTableAction or Poll::Pending
InitTables(key) == [type |-> "Init", key |-> key]
UpdateShort(update) == [type |-> "UpdateShort", key |-> update.token,
                        index |-> update.index, value |-> update.value]
UpdateExtended(update) == [type |-> "UpdateExtended", key |-> update.token,
                           index |-> update.index, value |-> update.value]
NoUpdate == [type |-> "NoUpdate"]

NewTables(size) ==
  [initializing |-> {}, is_initialized |-> FALSE, none |-> FALSE,
   short |-> NewTable(size), extended |-> NewTable(size)]

ForgetFailedInit(c, key, result) ==
  IF c.initializing # {key} \/ ~result THEN c
  ELSE [c EXCEPT !.initializing = {}, !.is_initialized = TRUE,
                 !.short = AssumeEmpty(@), !.extended = AssumeEmpty(@)]
ReportInitResult(c, key, result) ==
  IF c.initializing # {key} THEN c
  ELSE [c EXCEPT !.initializing = {}, !.is_initialized = result,
                 !.short = IF result THEN AssumeEmpty(@) ELSE @,
                 !.extended = IF result THEN AssumeEmpty(@) ELSE @]

\* An extended address is entered without its PAN.
SetAddress(c, address, inserted) ==
  CASE address.mode = "None" -> [c EXCEPT !.none = inserted]
    [] address.mode = "Short" ->
         [c EXCEPT !.short = SetValue(@, <<address.pan_id, address.address>>, inserted)]
    [] address.mode = "Extended" ->
         [c EXCEPT !.extended = SetValue(@, address.address, inserted)]

\* The value poll_action leaves and the action it returns; key is the fresh
\* UniqueKey, used unless it returns NoUpdate.
PollUpdates(c, key) ==
  CASE HasUpdate(c.short) ->
         [tables |-> [c EXCEPT !.short = StartUpdate(@, key)],
          action |-> UpdateShort(Update(c.short, key))]
    [] ~HasUpdate(c.short) /\ HasUpdate(c.extended) ->
         [tables |-> [c EXCEPT !.extended = StartUpdate(@, key)],
          action |-> UpdateExtended(Update(c.extended, key))]
    [] OTHER -> [tables |-> c, action |-> NoUpdate]

StartInit(c, key) ==
  [tables |-> [c EXCEPT !.initializing = {key}], action |-> InitTables(key)]

PollTables(c, key) ==
  IF c.initializing # {} THEN [tables |-> c, action |-> NoUpdate]
  ELSE IF ~c.is_initialized THEN StartInit(c, key)
  ELSE PollUpdates(c, key)

ReportTablesResult(c, key, success) ==
  [c EXCEPT !.short = ReportUpdateResult(@, key, success),
            !.extended = ReportUpdateResult(@, key, success)]
=============================================================================
