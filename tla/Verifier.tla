------------------------------ MODULE Verifier ------------------------------
(***************************************************************************)
(* StandaloneVerifier::verify_log (verifier.rs).  A report is the set of   *)
(* reason tags, without the ids and rounds formatted into them; the log is *)
(* valid when the set is empty.                                            *)
(***************************************************************************)
EXTENDS CoordinationLog

\* A set holding the tag when the condition fails.
Require(cond, tag) == IF cond THEN {} ELSE {tag}

\* 1. commitments: membership, role, embedded node and round, no duplicates
commitment_reasons(log) ==
    UNION {LET c == log.commitments[i] IN
           IF c.node_id \notin Nodes THEN {"commitment_from_unknown_node"}
           ELSE Require(c.public_intent.role = role(c.node_id), "commitment_role_mismatch")
           \cup Require(c.public_intent.node_id = c.node_id,
                        "commitment_public_intent_node_mismatch")
           \cup Require(c.public_intent.round = c.round, "commitment_round_mismatch")
           \cup Require(\A j \in 1..(i - 1) :
                            \/ log.commitments[j].node_id # c.node_id
                            \/ log.commitments[j].round # c.round,
                        "duplicate_commitment")
           : i \in DOMAIN log.commitments}

\* 2. proposals: rotation, referenced commitments, annotation, claimed capability
proposal_reasons(log) ==
    UNION {LET p    == log.proposals[i]
               req  == LoggedCommitment(log, p.candidate_requester, p.round)
               prov == LoggedCommitment(log, p.candidate_provider, p.round)
           IN  Require(p.proposer = proposer_for_round(p.round), "proposal_wrong_proposer")
               \cup
               (IF req = None \/ prov = None THEN {"proposal_unknown_commitment"}
                ELSE Require(validate_proposal_annotation(p, req.public_intent,
                                                          prov.public_intent) = "ok",
                             "proposal_annotation_tampered")
                \cup Require(prov.public_intent.role = "provider" =>
                                 p.matched_capability \in prov.public_intent.capability_claims,
                             "proposal_provider_lacks_capability"))
           : i \in DOMAIN log.proposals}

\* 3. proofs: the public inputs against the record and against the commitment
proof_reasons(log) ==
    UNION {LET proof == log.proofs[i]
               inp   == proof.public_inputs
               c     == LoggedCommitment(log, proof.node_id, proof.round)
           IN  IF inp = None THEN {"proof_malformed_public_inputs"}
               ELSE Require(inp.round = proof.round, "proof_public_inputs_round_mismatch")
               \cup Require(inp.node_id = proof.node_id, "proof_public_inputs_node_mismatch")
               \cup
               (IF c = None THEN {"proof_no_matching_commitment"}
                ELSE Require(inp.commitment = c.commitment_hex,
                             "proof_public_inputs_commitment_mismatch")
                \cup Require(inp.role = c.public_intent.role, "proof_role_byte_mismatch")
                \cup Require(proof.marker \in {1, 2}, "proof_marker_unexpected"))
           : i \in DOMAIN log.proofs}

\* predicate_holds_for_log
predicate_holds_for_log(log, round, requester, provider) ==
    LET req  == LoggedCommitment(log, requester, round)
        prov == LoggedCommitment(log, provider, round)
    IN  /\ req # None
        /\ prov # None
        /\ match_predicate(req.public_intent, prov.public_intent, round) = "ok"

\* The receipt of the matched provider on a round, or None (first match).
MatchedReceipt(log, round, provider) ==
    LET hits == {i \in DOMAIN log.receipts :
                    log.receipts[i].round = round /\ log.receipts[i].provider = provider}
    IN  IF hits = {} THEN None ELSE log.receipts[Min(hits)]

\* Mutant: any signature that is not empty will do.
final_round_reasons_unsigned(log, p, r) ==
    Require(predicate_holds_for_log(log, log.final_round, p.candidate_requester,
                                    p.candidate_provider), "final_round_predicate_failed")
    \cup Require(r.signature # NoSignature, "final_round_empty_signature")
    \cup Require(HasProof(log, p.candidate_requester, log.final_round),
                 "final_round_missing_requester_proof")
    \cup Require(HasProof(log, p.candidate_provider, log.final_round),
                 "final_round_missing_provider_proof")

\* 4. the final round of a finalized log, given its proposal and receipt
final_round_reasons(log, p, r) ==
    Require(predicate_holds_for_log(log, log.final_round, p.candidate_requester,
                                    p.candidate_provider), "final_round_predicate_failed")
    \cup Require(r.signature # NoSignature, "final_round_empty_signature")
    \cup Require(r.signature \in {NoSignature,
                     expected_signature(p.candidate_provider, log.final_round,
                                        p.matched_capability)}, "final_round_signature_mismatch")
    \cup Require(HasProof(log, p.candidate_requester, log.final_round),
                 "final_round_missing_requester_proof")
    \cup Require(HasProof(log, p.candidate_provider, log.final_round),
                 "final_round_missing_provider_proof")

\* Mutant: an aborted log is not looked at.
aborted_reasons_none(log) == {}

\* 4. the final round of an aborted log
aborted_reasons(log) ==
    Require(\A i \in DOMAIN log.receipts : log.receipts[i].round # log.final_round,
            "aborted_run_has_receipt")

\* 5. rejections lie within the run (their fields are never empty here)
rejection_reasons(log) ==
    Require(\A i \in DOMAIN log.rejections : log.rejections[i].round <= log.final_round,
            "rejection_round_out_of_range")

verify_log(log) ==
    LET p    == LoggedProposal(log, log.final_round)
        r    == IF p = None THEN None
                ELSE MatchedReceipt(log, log.final_round, p.candidate_provider)
        body == commitment_reasons(log) \cup proposal_reasons(log) \cup proof_reasons(log)
    IN  IF log.finalized /\ p = None
        THEN body \cup {"final_round_missing_proposal"}
        ELSE IF log.finalized /\ r = None
        THEN body
             \cup Require(predicate_holds_for_log(log, log.final_round, p.candidate_requester,
                              p.candidate_provider), "final_round_predicate_failed")
             \cup {"final_round_missing_receipt"}
        ELSE IF log.finalized
        THEN body \cup final_round_reasons(log, p, r) \cup rejection_reasons(log)
        ELSE body \cup aborted_reasons(log) \cup rejection_reasons(log)
=============================================================================
