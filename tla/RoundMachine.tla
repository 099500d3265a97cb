---------------------------- MODULE RoundMachine ----------------------------
(***************************************************************************)
(* The deterministic round state machine, round_machine.rs: the struct as  *)
(* a record and its methods as operators on that record, so that the       *)
(* runtime of every process can hold one.  A method returns Result; here   *)
(* *_result is "ok" or the RoundError's code (round_error_code), and the   *)
(* operator with the method's name is the machine afterwards.              *)
(***************************************************************************)
EXTENDS Predicate

\* A BTreeMap<NodeId, CommitmentRecord> whose keys are configured nodes.
CommitmentMap  == [Nodes -> CommitmentRecord \cup {None}]
FinalizedRound == [round : Nat, commitments : CommitmentMap,
                   proposal : ProposalRecord \cup {None}]
Machine == [current : Nat, commitments : CommitmentMap,
            proposal : ProposalRecord \cup {None},
            history_hex : SUBSET Hexes, past : Seq(FinalizedRound)]

NoCommitments == [n \in Nodes |-> None]

new(start) == [current |-> start, commitments |-> NoCommitments, proposal |-> None,
               history_hex |-> {}, past |-> <<>>]

current_proposer(m) == proposer_for_round(m.current)

\* Mutant: the duplicate check looks the node up under the wrong key.
HasCommitmentNever(m, n) == FALSE

\* commitments().contains_key(n), also for an n that is not configured
HasCommitment(m, n) == n \in Nodes /\ m.commitments[n] # None

\* Mutant: a record of an unknown node is judged as a provider's, the lookup's
\* error replaced by a default role.
commitment_result_default_role(m, rec) ==
    LET intent == rec.public_intent
    IN  IF m.proposal # None THEN "already_finalized"
        ELSE IF rec.round # m.current THEN "round_mismatch"
        ELSE IF intent.role # role(rec.node_id) THEN "role_mismatch"
        ELSE IF intent.round # m.current THEN "round_mismatch"
        ELSE IF intent.node_id # rec.node_id THEN "role_mismatch"
        ELSE IF HasCommitment(m, rec.node_id) THEN "duplicate_commitment"
        ELSE IF rec.commitment_hex \in m.history_hex THEN "replay_detected"
        ELSE IF intent.role = "requester" /\ intent.required_capability = EmptyTag
             THEN "role_mismatch"
        ELSE "ok"

commitment_result(m, rec) ==
    LET intent == rec.public_intent
    IN  IF m.proposal # None THEN "already_finalized"
        ELSE IF rec.round # m.current THEN "round_mismatch"
        ELSE IF rec.node_id \notin Nodes THEN "unknown_node"
        ELSE IF intent.role # role(rec.node_id) THEN "role_mismatch"
        ELSE IF intent.round # m.current THEN "round_mismatch"
        ELSE IF intent.node_id # rec.node_id THEN "role_mismatch"
        ELSE IF HasCommitment(m, rec.node_id) THEN "duplicate_commitment"
        ELSE IF rec.commitment_hex \in m.history_hex THEN "replay_detected"
        ELSE IF intent.role = "requester" /\ intent.required_capability = EmptyTag
             THEN "role_mismatch"
        ELSE "ok"

\* BTreeMap::insert: the key joins the map, whatever node it names.
insert(map, node, rec) ==
    [n \in DOMAIN map \cup {node} |-> IF n = node THEN rec ELSE map[n]]

\* Mutant: the accepted hash is not remembered.
insert_without_history(m, rec) ==
    [m EXCEPT !.commitments = insert(@, rec.node_id, rec)]

insert_commitment(m, rec) ==
    [m EXCEPT !.history_hex = @ \cup {rec.commitment_hex},
              !.commitments = insert(@, rec.node_id, rec)]

\* Mutant: the hash joins the history as the replay check asks for it, before
\* the last check, which may still reject the record.
accept_commitment_burns(m, rec) ==
    LET spent == [m EXCEPT !.history_hex = @ \cup {rec.commitment_hex}]
    IN  IF commitment_result(m, rec) = "ok" THEN insert_commitment(m, rec)
        ELSE IF /\ rec.public_intent.role = "requester"
                /\ commitment_result(m, [rec EXCEPT !.public_intent.required_capability
                                             = Required]) = "ok"
        THEN spent ELSE m

accept_commitment(m, rec) ==
    IF commitment_result(m, rec) = "ok" THEN insert_commitment(m, rec) ELSE m

proposal_result(m, p) ==
    IF m.proposal # None THEN "already_finalized"
    ELSE IF p.round # m.current THEN "round_mismatch"
    ELSE IF p.proposer # current_proposer(m) THEN "wrong_proposer"
    ELSE IF ~HasCommitment(m, p.candidate_requester) THEN "unknown_requester_commitment"
    ELSE IF ~HasCommitment(m, p.candidate_provider) THEN "unknown_provider_commitment"
    ELSE LET req  == m.commitments[p.candidate_requester].public_intent
             prov == m.commitments[p.candidate_provider].public_intent
         IN  IF \/ validate_proposal_annotation(p, req, prov) # "ok"
                \/ prov.role # "provider"
                \/ p.matched_capability \notin prov.capability_claims
             THEN "tampered_proposal"
             ELSE "ok"

accept_proposal(m, p) ==
    IF proposal_result(m, p) = "ok" THEN [m EXCEPT !.proposal = p] ELSE m

\* Mutant: the maps are taken before the snapshot is built.
close_round_after_take(m, next) ==
    [current |-> next, commitments |-> NoCommitments, proposal |-> None,
     history_hex |-> m.history_hex,
     past |-> Append(m.past, [round |-> m.current, commitments |-> NoCommitments,
                              proposal |-> None])]

\* Mutant: the commitment map is cloned into the snapshot, not taken.
close_round_keeps_map(m, next) ==
    [m EXCEPT !.current = next, !.proposal = None,
              !.past = Append(@, [round |-> m.current, commitments |-> m.commitments,
                                  proposal |-> m.proposal])]

\* advance_to: BackwardTransition unless next is strictly later; otherwise
\* the current round is pushed onto past and its maps are taken.
close_round(m, next) ==
    [current |-> next, commitments |-> NoCommitments, proposal |-> None,
     history_hex |-> m.history_hex,
     past |-> Append(m.past, [round |-> m.current, commitments |-> m.commitments,
                              proposal |-> m.proposal])]

\* Mutant: re-entering the active round is allowed.
advance_to_same(m, next) == IF next < m.current THEN m ELSE close_round(m, next)

advance_to(m, next) == IF next <= m.current THEN m ELSE close_round(m, next)

advance_fallback(m) == advance_to(m, m.current + 1)
=============================================================================
