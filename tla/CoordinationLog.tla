-------------------------- MODULE CoordinationLog ---------------------------
(***************************************************************************)
(* The public record of one run (artifacts.rs) and the byte-level pieces   *)
(* that end up in it, abstracted to what the checks can tell apart:        *)
(*   - a commitment hash identifies the node and the round it was derived  *)
(*     for: derive_test_nonce depends on node, round and the fixed run     *)
(*     salt, the intent of a node is fixed, and blake2s is taken to be     *)
(*     injective.  `flipped` is the bit tamper_public_inputs flips;        *)
(*   - public inputs are the four fields of the 73-byte layout, or None    *)
(*     when they do not parse;                                             *)
(*   - a signature is its scheme and the triple it was made for            *)
(*     (signing.rs): neither scheme accepts a signature of the other.      *)
(***************************************************************************)
EXTENDS RoundMachine, SequencesExt

HashOf(n, r) == [node |-> n, round |-> r, flipped |-> FALSE]

receipt_message(provider, round, capability) ==
    [provider |-> provider, round |-> round, capability |-> capability]

\* What the runtime signs with, and what the verifier expects: ed25519 when
\* the private intents, respectively the topology, hold a key of the provider,
\* else the deterministic tag.
sign_receipt(provider, round, capability) ==
    [scheme  |-> IF provider \in SigningSecrets THEN "ed25519" ELSE "legacy",
     message |-> receipt_message(provider, round, capability)]
expected_signature(provider, round, capability) ==
    [scheme  |-> IF provider \in SigningKeys THEN "ed25519" ELSE "legacy",
     message |-> receipt_message(provider, round, capability)]

NoSignature == [scheme |-> None, message |-> None]

\* A signature's scheme, a completion receipt, and public inputs that decode.
Schemes == {"ed25519", "legacy"}
CompletionReceipt ==
    [provider : NodeIds, round : Nat,
     signature : {NoSignature} \cup
                 [scheme : Schemes,
                  message : [provider : NodeIds, round : Nat, capability : Tags]]]
PublicInputs == [round : Nat, node_id : NodeIds, commitment : Hexes,
                 role : {"requester", "provider"}]
ASSUME RecordsAssumption == None \notin Schemes \cup CompletionReceipt \cup PublicInputs

\* build_proof_artifact and tamper_public_inputs
build_proof_artifact(c, n, round) ==
    [node_id |-> n, round |-> round,
     public_inputs |-> [round |-> round, node_id |-> n,
                        commitment |-> c.commitment_hex, role |-> c.public_intent.role],
     marker |-> 1]

tamper_public_inputs(proof) ==
    [proof EXCEPT !.public_inputs.commitment.flipped = ~@]

\* extract_commitment_hash_hex: None for inputs that do not decode
extract_commitment_hash(inputs) == IF inputs = None THEN None ELSE inputs.commitment

-----------------------------------------------------------------------------
new_log == [commitments |-> <<>>, proposals |-> <<>>, proofs |-> <<>>, receipts |-> <<>>,
            rejections |-> <<>>, final_round |-> 0, finalized |-> FALSE,
            abort_reason |-> None]

\* append_commitment: refused when (node_id, round) is already in the index
LogHasCommitment(log, n, round) ==
    \E i \in DOMAIN log.commitments :
        log.commitments[i].node_id = n /\ log.commitments[i].round = round
append_commitment(log, c) == [log EXCEPT !.commitments = Append(@, c)]

append_proposal(log, p) == [log EXCEPT !.proposals = Append(@, p)]
append_proof(log, p)    == [log EXCEPT !.proofs = Append(@, p)]
append_receipt(log, r)  == [log EXCEPT !.receipts = Append(@, r)]

rejection(round, node, kind, code) ==
    [round |-> round, node_id |-> node, kind |-> kind, reason_code |-> code]
append_rejection(log, round, node, kind, code) ==
    [log EXCEPT !.rejections = Append(@, rejection(round, node, kind, code))]

set_final_round(log, round, finalized) ==
    [log EXCEPT !.final_round = round, !.finalized = finalized]
set_abort_reason(log, reason) == [log EXCEPT !.abort_reason = reason]

\* reindex succeeds, so that read_coordination_log returns the log
reindex(log) ==
    \A i, j \in DOMAIN log.commitments :
        (/\ log.commitments[i].node_id = log.commitments[j].node_id
         /\ log.commitments[i].round = log.commitments[j].round) => i = j

-----------------------------------------------------------------------------
\* log.commitments.iter().find(...): the node's record of a round, or None
LoggedCommitment(log, n, round) ==
    LET hits == {i \in DOMAIN log.commitments :
                    log.commitments[i].node_id = n /\ log.commitments[i].round = round}
    IN  IF hits = {} THEN None ELSE log.commitments[Min(hits)]

\* log.proposals.iter().rev().find(...): the latest proposal of a round, or None
LoggedProposal(log, round) ==
    LET hits == {i \in DOMAIN log.proposals : log.proposals[i].round = round}
    IN  IF hits = {} THEN None ELSE log.proposals[Max(hits)]

HasProof(log, n, round) ==
    \E i \in DOMAIN log.proofs : log.proofs[i].round = round /\ log.proofs[i].node_id = n
=============================================================================
