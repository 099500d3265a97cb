------------------------------ MODULE Topology ------------------------------
(***************************************************************************)
(* The validated topology configuration (crates/vertex-veil-core config.rs *)
(* and proposer.rs).  TopologyConfig::from_raw only lets a topology through *)
(* that has exactly one requester, at least one provider and unique node   *)
(* ids; the ASSUMEs below are what it guarantees.  Node ids are naturals:  *)
(* the byte-lexicographic order of NodeId is a total order and nothing     *)
(* else of the bytes is used.                                              *)
(***************************************************************************)
EXTENDS Naturals, Sequences

CONSTANTS
    NodeIds,        \* every node id that can occur in a record, configured or not
    Requester,      \* the id of the sole requester
    ProviderOrder,  \* providers_stable_order(): the providers, ascending by id
    Tags,           \* every capability tag that can occur in a record
    EmptyTag,       \* the empty tag: deserializes, never passes from_raw
    Required,       \* the requester's required_capability
    Claims,         \* provider id -> its capability_claims
    SigningKeys,    \* the providers with a signing_public_key in the topology
    SigningSecrets  \* the providers with a signing_secret_key in the private intents

Providers == {ProviderOrder[i] : i \in 1..Len(ProviderOrder)}
Nodes == {Requester} \cup Providers

ASSUME IdsAssumption ==
    /\ NodeIds \subseteq Nat
    /\ Requester \in NodeIds
    /\ ProviderOrder \in Seq(NodeIds)
ASSUME OrderAssumption ==
    /\ Len(ProviderOrder) > 0
    /\ \A i, j \in 1..Len(ProviderOrder) :
           i < j => ProviderOrder[i] < ProviderOrder[j]
    /\ \A i \in 1..Len(ProviderOrder) : ProviderOrder[i] # Requester
ASSUME CapabilityAssumption ==
    /\ EmptyTag \in Tags
    /\ Required \in Tags \ {EmptyTag}
    /\ Claims \in [Providers -> SUBSET (Tags \ {EmptyTag})]

\* from_toml_str compares the two keys of a provider that has both, and lets
\* a provider through that has only one of them.
ASSUME SigningAssumption ==
    /\ SigningKeys \subseteq Providers
    /\ SigningSecrets \subseteq Providers

\* The role from_raw recorded for a configured node.
role(n) == IF n = Requester THEN "requester" ELSE "provider"

(***************************************************************************)
(* proposer_for_round: rotation over the stable provider order.  Its two   *)
(* error returns (empty list, duplicate key) cannot be reached from a      *)
(* validated topology: OrderAssumption.                                    *)
(***************************************************************************)
proposer_for_round(round) == ProviderOrder[(round % Len(ProviderOrder)) + 1]
=============================================================================
