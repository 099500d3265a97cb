----------------------------- MODULE Predicate ------------------------------
(***************************************************************************)
(* Public intents, the runtime match predicate (predicate.rs) and the      *)
(* derivation of a candidate from the accepted commitments (candidate.rs). *)
(* A check returns "ok" or the tag of the first denial, in source order.   *)
(***************************************************************************)
EXTENDS Topology

CONSTANTS
    Hexes,   \* the commitment hashes that can occur in a record
    None     \* Option::None

\* shared_types.rs: PublicIntent.  A provider's claims are a Vec that is only
\* ever searched with `contains`, so a set.
RequesterIntent == [role : {"requester"}, node_id : NodeIds, round : Nat,
                    required_capability : Tags]
ProviderIntent  == [role : {"provider"}, node_id : NodeIds, round : Nat,
                    capability_claims : SUBSET Tags]
PublicIntent    == RequesterIntent \cup ProviderIntent

\* artifacts.rs: the records a message carries.
CommitmentRecord == [node_id : NodeIds, round : Nat, commitment_hex : Hexes,
                     public_intent : PublicIntent]
ProposalRecord   == [proposer : NodeIds, round : Nat, candidate_requester : NodeIds,
                     candidate_provider : NodeIds, matched_capability : Tags]

ASSUME NoneAssumption == None \notin CommitmentRecord \cup ProposalRecord \cup Hexes

match_predicate(req, prov, round) ==
    IF req.role # "requester" THEN "wrong_requester_role"
    ELSE IF prov.role # "provider" THEN "wrong_provider_role"
    ELSE IF req.round # round /\ prov.round # round
         THEN "requester_provider_round_mismatch"
    ELSE IF req.round # round THEN "requester_round_mismatch"
    ELSE IF prov.round # round THEN "provider_round_mismatch"
    ELSE IF req.required_capability \notin prov.capability_claims
         THEN "provider_lacks_capability"
    ELSE "ok"

\* Mutant: the annotation's capability is not compared with the requester's.
annotation_without_capability(p, req, prov) ==
    IF req.node_id # p.candidate_requester THEN "requester_identity_mismatch"
    ELSE IF prov.node_id # p.candidate_provider THEN "provider_identity_mismatch"
    ELSE IF req.role # "requester" THEN "wrong_requester_role"
    ELSE "ok"

validate_proposal_annotation(p, req, prov) ==
    IF req.node_id # p.candidate_requester THEN "requester_identity_mismatch"
    ELSE IF prov.node_id # p.candidate_provider THEN "provider_identity_mismatch"
    ELSE IF req.role # "requester" THEN "wrong_requester_role"
    ELSE IF req.required_capability # p.matched_capability
         THEN "capability_annotation_mismatch"
    ELSE "ok"

\* The providers among a set of commitment records that the predicate lets
\* through for this requester.
Feasible(round, requester, providers) ==
    {c.node_id : c \in {d \in providers :
        match_predicate(requester.public_intent, d.public_intent, round) = "ok"}}

(***************************************************************************)
(* derive_candidate: Err for a malformed requester, Ok(None) when nobody   *)
(* is feasible, else the feasible provider with the smallest key.          *)
(***************************************************************************)
derive_candidate(round, requester, providers) ==
    LET intent   == requester.public_intent
        feasible == Feasible(round, requester, providers)
    IN  IF intent.role # "requester"
        THEN [result |-> "missing_requester_capability"]
        ELSE IF intent.round # round
        THEN [result |-> "wrong_round_in_requester"]
        ELSE IF intent.required_capability = EmptyTag
        THEN [result |-> "missing_requester_capability"]
        ELSE IF feasible = {}
        THEN [result |-> "none"]
        ELSE [result |-> "some",
              requester |-> requester.node_id,
              provider |-> CHOOSE n \in feasible : \A k \in feasible : n <= k,
              matched_capability |-> intent.required_capability]
=============================================================================
