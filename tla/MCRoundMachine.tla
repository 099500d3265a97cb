--------------------------- MODULE MCRoundMachine ---------------------------
(***************************************************************************)
(* RoundMachineSpec for TLC: requester 2 between providers 1 and 3, id 4   *)
(* not configured, three hashes, records labelled round 0 or 1, every      *)
(* combination of outer label, embedded intent and tag.                    *)
(***************************************************************************)
EXTENDS RoundMachineSpec

MCNodeIds == 1..4
MCRequester == 2
MCProviderOrder == <<1, 3>>
MCTags == {"gpu", "cpu", ""}
MCClaims == [n \in {1, 3} |-> {"gpu"}]
MCHexes == {"h1", "h2", "h3"}
MCRounds == 0..2

InputRounds == 0..1
InputIntents ==
    [role : {"requester"}, node_id : MCNodeIds, round : InputRounds,
     required_capability : MCTags]
    \cup [role : {"provider"}, node_id : MCNodeIds, round : InputRounds,
          capability_claims : {{"gpu"}, {"cpu"}}]

MCCommitmentInputs ==
    [node_id : MCNodeIds, round : InputRounds, commitment_hex : MCHexes,
     public_intent : InputIntents]
MCProposalInputs ==
    [proposer : MCNodeIds, round : InputRounds, candidate_requester : MCNodeIds,
     candidate_provider : MCNodeIds, matched_capability : MCTags]
=============================================================================
