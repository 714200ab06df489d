---------------------------- MODULE SessionFrames ----------------------------
(***************************************************************************)
(* The vocabulary of command sessions: the identities a gateway and its    *)
(* nodes share, and the four session frames of shared/RadioProtocol        *)
(* (CommandSessionFrames.h).  Only set_count commands are modelled: their  *)
(* one argument and their result are counter values.                       *)
(***************************************************************************)
EXTENDS Naturals

CONSTANTS
  NodeId,        \* radio node IDs the registry allocates (1..99)
  Device,        \* factory UIDs
  Count,         \* pulse counter values
  MaxCommandId,  \* UINT16_MAX
  Nonce,         \* session nonces
  NoNonce        \* no session

ASSUME NodeIdAssumption == NodeId \subseteq Nat \ {0}
ASSUME CountAssumption == Count \subseteq Nat
ASSUME MaxCommandIdAssumption == MaxCommandId \in Nat \ {0}
ASSUME NonceAssumption == NoNonce \notin Nonce

CommandId == 1 .. MaxCommandId

\* Zero is never issued: it marks an absent ID everywhere an ID is kept.
NoCommandId == 0

\* Zero is no radio node ID either: kUnprovisionedNodeId.
NoNode == 0

CommandStatus == {"applied", "unsupported", "invalid_argument", "storage_failure"}

\* The data of a result, the old and the new count, can be absent: the empty tuple.
NoData == << >>
CountData == [old : Count, new : Count]
Result == [status : CommandStatus, data : CountData \cup {NoData}]

\* Only an applied set_count carries data, and it always does.
HasExpectedData(result) == (result.data # NoData) <=> (result.status = "applied")

\* Uplink frames, with the sender the radio takes from the packet header.
ReadyFrame == [kind : {"CommandReady"}, sender : NodeId, nonce : Nonce]
ResultFrame == [kind : {"CommandResult"}, sender : NodeId, nonce : Nonce,
                commandId : CommandId, result : Result]
SessionFrame == ReadyFrame \cup ResultFrame

\* Downlink frames, with the node ID they are sent to.
NoCommandFrame == [kind : {"NoCommand"}, target : NodeId, nonce : Nonce]
CommandFrame == [kind : {"Command"}, target : NodeId, nonce : Nonce,
                 commandId : CommandId, count : Count]
DownlinkFrame == NoCommandFrame \cup CommandFrame

=============================================================================
