------------------------------- MODULE Runtime ------------------------------
(***************************************************************************)
(* CoordinationRuntime (runtime.rs): the struct as a record `rt` and the   *)
(* steps of run / run_one_round as operators on it.  A process is between  *)
(* two steps either at the head of the for-loop ("loop"), inside one of    *)
(* the four drain loops ("commit", "proposal", "proof", "receipt"),        *)
(* finished ("done") or stopped by the .expect in broadcast_proofs         *)
(* ("panicked").  The transport is the composing module's business: an     *)
(* operator that broadcasts returns [rt |-> ..., out |-> the messages].    *)
(***************************************************************************)
EXTENDS CoordinationLog

CONSTANT MaxRounds      \* max_rounds
ASSUME MaxRoundsAssumption == MaxRounds \in Nat

\* Hexes holds every hash a run can commit to, and what a flipped bit makes of it.
ASSUME HexesAssumption ==
    [node : Nodes, round : 0..MaxRounds, flipped : BOOLEAN] \subseteq Hexes

\* A CoordinationMessage: the claimed origin, the payload's variant, its record.
message(origin, type, rec) == [origin |-> origin, type |-> type, rec |-> rec]

-----------------------------------------------------------------------------
(* The scenario (adversarial.rs): a set of events with a `kind`.           *)

ScenarioEvents ==
    [kind : {"double_commit", "inject_invalid_proof"}, node : Nodes, round : 0..MaxRounds]
    \cup [kind : {"replay_prior_commitment"}, node : Nodes, round : 0..MaxRounds,
          from_round : 0..MaxRounds]
    \cup [kind : {"drop_node"}, node : Nodes, after_round : 0..MaxRounds]

\* events_for_round: drop_node is not tied to a round
events_for_round(scenario, n, round) ==
    {e \in scenario : e.kind # "drop_node" /\ e.node = n /\ e.round = round}

has_dropped(scenario, n, round) ==
    \E e \in scenario : e.kind = "drop_node" /\ e.node = n /\ round > e.after_round

\* invalid_proof_schedule
ProofIsSabotaged(scenario, n, round) ==
    \E e \in scenario : e.kind = "inject_invalid_proof" /\ e.node = n /\ e.round = round

-----------------------------------------------------------------------------
new_runtime(agents, scenario) ==
    [agents |-> agents, scenario |-> scenario, round_machine |-> new(0), log |-> new_log,
     historical_commitments |-> {}, phase |-> "loop"]

\* Mutant: the round is advanced by the round and by the loop.
FallbackTwice(rt) == [rt EXCEPT !.round_machine = advance_fallback(advance_fallback(@)), !.phase = "loop"]

\* A Fallback round: the machine advances and the for-loop goes round again.
Fallback(rt) == [rt EXCEPT !.round_machine = advance_fallback(@), !.phase = "loop"]

reject(rt, node, kind, code) ==
    [rt EXCEPT !.log = append_rejection(@, rt.round_machine.current, node, kind, code)]

-----------------------------------------------------------------------------
(* Step 1: commitments.                                                    *)

build_commitment(n, round) ==
    [node_id |-> n, round |-> round, commitment_hex |-> HashOf(n, round),
     public_intent |->
        IF n = Requester
        THEN [role |-> "requester", node_id |-> n, round |-> round,
              required_capability |-> Required]
        ELSE [role |-> "provider", node_id |-> n, round |-> round,
              capability_claims |-> Claims[n]]]

\* A prior record under the label of a new round (update_intent_round).
relabel(prior, round) ==
    [prior EXCEPT !.round = round, !.public_intent.round = round]

\* What agent n sends in a round: replays first, then its own commitment
\* unless it has dropped, then a second copy of it.
AgentMessages(rt, n, round) ==
    LET events   == events_for_round(rt.scenario, n, round)
        replayed == {h \in rt.historical_commitments :
                        \E e \in events : /\ e.kind = "replay_prior_commitment"
                                          /\ h.node_id = n
                                          /\ h.round = e.from_round}
        replays  == SetToSeq({message(n, "commitment", relabel(h, round)) : h \in replayed})
        own      == <<message(n, "commitment", build_commitment(n, round))>>
        doubled  == \E e \in events : e.kind = "double_commit"
    IN  replays \o (IF has_dropped(rt.scenario, n, round) THEN <<>>
                    ELSE own \o (IF doubled THEN own ELSE <<>>))

\* The configured nodes in key order, the order of a BTreeMap's keys.
NodeOrder ==
    InsertAt(ProviderOrder,
             1 + Cardinality({i \in DOMAIN ProviderOrder : ProviderOrder[i] < Requester}),
             Requester)

\* What each agent of this process contributes, in key order.
InKeyOrder(rt, Part(_)) ==
    FlattenSeq([i \in DOMAIN NodeOrder |->
                    IF NodeOrder[i] \in rt.agents THEN Part(NodeOrder[i]) ELSE <<>>])

\* broadcast_commitments and entry into drain_commitments.  A dropped agent
\* leaves a node_dropped rejection.
broadcast_commitments(rt) ==
    LET round     == rt.round_machine.current
        Silent(n) == has_dropped(rt.scenario, n, round)
        Dropped(n) == IF Silent(n) THEN <<rejection(round, n, "commitment", "node_dropped")>>
                      ELSE <<>>
        Sent(n)   == AgentMessages(rt, n, round)
        spoken    == {n \in rt.agents : ~Silent(n)}
    IN  [rt  |-> [rt EXCEPT
                    !.log.rejections = @ \o InKeyOrder(rt, Dropped),
                    !.historical_commitments = @ \cup {build_commitment(n, round) : n \in spoken},
                    !.phase = "commit"],
         out |-> InKeyOrder(rt, Sent)]

\* One iteration of drain_commitments.
drain_commitment(rt, msg) ==
    LET rec    == msg.rec
        result == commitment_result(rt.round_machine, rec)
    IN  IF msg.type # "commitment" THEN reject(rt, msg.origin, msg.type, "out_of_phase")
        ELSE IF msg.origin # rec.node_id
        THEN reject(rt, msg.origin, "commitment", "origin_mismatch")
        ELSE IF result # "ok" THEN reject(rt, rec.node_id, "commitment", result)
        ELSE LET accepted == [rt EXCEPT !.round_machine = accept_commitment(@, rec)]
             IN  IF LogHasCommitment(rt.log, rec.node_id, rec.round)
                 THEN reject(accepted, rec.node_id, "commitment", "log_duplicate")
                 ELSE [accepted EXCEPT !.log = append_commitment(@, rec)]

-----------------------------------------------------------------------------
(* Step 2: the proposal.                                                   *)

\* providers_snapshot: every accepted commitment but the requester's
ProvidersSnapshot(m) ==
    {m.commitments[n] : n \in {k \in Nodes : k # Requester /\ m.commitments[k] # None}}

\* Mutant: every process speaks for the proposer.
HoldsAnyAgent(rt) == rt.agents # {}

\* agents.contains_key(&proposer): only the proposer's own process speaks.
HoldsProposer(rt) == current_proposer(rt.round_machine) \in rt.agents

\* broadcast_proposal and entry into drain_proposal.
broadcast_proposal(rt) ==
    LET m         == rt.round_machine
        proposer  == current_proposer(m)
        waiting   == [rt EXCEPT !.phase = "proposal"]
        candidate == derive_candidate(m.current, m.commitments[Requester], ProvidersSnapshot(m))
        failed(code) == [rt |-> Fallback(reject(rt, proposer, "proposal", code)), out |-> <<>>]
    IN  IF ~HoldsProposer(rt) THEN [rt |-> waiting, out |-> <<>>]
        ELSE IF ~HasCommitment(m, Requester) THEN failed("requester_missing")
        ELSE IF candidate.result = "none" THEN failed("no_feasible_provider")
        ELSE IF candidate.result # "some" THEN failed("candidate_error")
        ELSE [rt |-> waiting,
              out |-> <<message(proposer, "proposal",
                          [proposer |-> proposer, round |-> m.current,
                           candidate_requester |-> candidate.requester,
                           candidate_provider |-> candidate.provider,
                           matched_capability |-> candidate.matched_capability])>>]

\* The end of drain_commitments: no requester, no round.
end_commit_phase(rt) ==
    IF HasCommitment(rt.round_machine, Requester)
    THEN broadcast_proposal(rt)
    ELSE [rt |-> Fallback(reject(rt, Requester, "round", "requester_missing")), out |-> <<>>]

\* One iteration of drain_proposal.
drain_proposal(rt, msg) ==
    LET p      == msg.rec
        result == proposal_result(rt.round_machine, p)
    IN  IF msg.type # "proposal" THEN reject(rt, msg.origin, msg.type, "out_of_phase")
        ELSE IF msg.origin # p.proposer
        THEN reject(rt, msg.origin, "proposal", "origin_mismatch")
        ELSE IF result # "ok" THEN reject(rt, p.proposer, "proposal", result)
        ELSE [rt EXCEPT !.round_machine = accept_proposal(@, p),
                        !.log = append_proposal(@, p)]

-----------------------------------------------------------------------------
(* Step 3: proofs.                                                         *)

ProofMessage(rt, n, round) ==
    LET proof == build_proof_artifact(rt.round_machine.commitments[n], n, round)
    IN  message(n, "proof", IF ProofIsSabotaged(rt.scenario, n, round)
                            THEN tamper_public_inputs(proof) ELSE proof)

\* broadcast_proofs and entry into drain_proofs; the .expect fires for a
\* local participant without an accepted commitment.
broadcast_proofs(rt, p) ==
    LET m     == rt.round_machine
        mine(n) == IF n \in rt.agents THEN <<n>> ELSE <<>>
        local == mine(p.candidate_requester) \o mine(p.candidate_provider)
    IN  IF \E i \in DOMAIN local : ~HasCommitment(m, local[i])
        THEN [rt |-> [rt EXCEPT !.phase = "panicked"], out |-> <<>>]
        ELSE [rt |-> [rt EXCEPT !.phase = "proof"],
              out |-> [i \in DOMAIN local |-> ProofMessage(rt, local[i], m.current)]]

\* The end of drain_proposal: the proposal of this round on the log, if any.
end_proposal_phase(rt) ==
    LET p == LoggedProposal(rt.log, rt.round_machine.current)
    IN  IF p = None THEN [rt |-> Fallback(rt), out |-> <<>>] ELSE broadcast_proofs(rt, p)

\* Mutant: the embedded hash is not compared with the accepted commitment.
ProofBindsAny(rt, rec) == TRUE

\* The embedded commitment hash is the accepted one.
ProofBinds(rt, rec) ==
    extract_commitment_hash(rec.public_inputs)
        = rt.round_machine.commitments[rec.node_id].commitment_hex

\* One iteration of drain_proofs.
drain_proof(rt, msg) ==
    LET rec == msg.rec
    IN  IF msg.type # "proof" THEN reject(rt, msg.origin, msg.type, "out_of_phase")
        ELSE IF msg.origin # rec.node_id
        THEN reject(rt, msg.origin, "proof", "origin_mismatch")
        ELSE IF rec.round # rt.round_machine.current
        THEN reject(rt, rec.node_id, "proof", "wrong_round")
        ELSE IF ~HasCommitment(rt.round_machine, rec.node_id)
        THEN reject(rt, rec.node_id, "proof", "unknown_commitment")
        ELSE IF ~ProofBinds(rt, rec)
        THEN reject(rt, rec.node_id, "proof", "public_inputs_mismatch")
        ELSE [rt EXCEPT !.log = append_proof(@, rec)]

-----------------------------------------------------------------------------
(* Step 4: the receipt.                                                    *)

\* broadcast_receipt and entry into drain_receipts; only the matched
\* provider's process signs.
broadcast_receipt(rt, p) ==
    LET provider == p.candidate_provider
        round    == rt.round_machine.current
    IN  [rt  |-> [rt EXCEPT !.phase = "receipt"],
         out |-> IF provider \notin rt.agents THEN <<>>
                 ELSE <<message(provider, "receipt",
                          [provider |-> provider, round |-> round,
                           signature |-> sign_receipt(provider, round,
                                                      p.matched_capability)])>>]

\* Mutant: one of the two proofs is enough.
HasEitherProof(rt, p) ==
    \/ HasProof(rt.log, p.candidate_requester, rt.round_machine.current)
    \/ HasProof(rt.log, p.candidate_provider, rt.round_machine.current)

\* has_req_proof && has_prov_proof
HasBothProofs(rt, p) ==
    /\ HasProof(rt.log, p.candidate_requester, rt.round_machine.current)
    /\ HasProof(rt.log, p.candidate_provider, rt.round_machine.current)

\* The end of drain_proofs.
end_proof_phase(rt) ==
    LET p == LoggedProposal(rt.log, rt.round_machine.current)
    IN  IF HasBothProofs(rt, p) THEN broadcast_receipt(rt, p)
        ELSE [rt |-> Fallback(rt), out |-> <<>>]

\* One iteration of drain_receipts.
drain_receipt(rt, msg) ==
    LET r == msg.rec
    IN  IF msg.type # "receipt" THEN reject(rt, msg.origin, msg.type, "out_of_phase")
        ELSE IF msg.origin # r.provider
        THEN reject(rt, msg.origin, "receipt", "origin_mismatch")
        ELSE IF r.round # rt.round_machine.current
        THEN reject(rt, r.provider, "receipt", "wrong_round")
        ELSE IF r.signature = NoSignature
        THEN reject(rt, r.provider, "receipt", "missing_signature")
        ELSE [rt EXCEPT !.log = append_receipt(@, r)]

\* The end of drain_receipts: Finalized, whatever was drained.
end_receipt_phase(rt) ==
    [rt |-> [rt EXCEPT !.phase = "done",
                       !.log = set_final_round(@, rt.round_machine.current, TRUE)],
     out |-> <<>>]

-----------------------------------------------------------------------------
(* The loop of run / run_with_transport.                                   *)

\* The for-loop is exhausted: final_round is the last round attempted (0 if
\* none was) and the run aborts.
LoopExhausted(rt) == rt.phase = "loop" /\ rt.round_machine.current >= MaxRounds

\* Mutant: the exhausted loop is not left.
end_run_keeps_looping(rt) == rt

end_run(rt) ==
    LET last == IF rt.round_machine.current = 0 THEN 0 ELSE rt.round_machine.current - 1
    IN  [rt EXCEPT !.phase = "done",
                   !.log = set_abort_reason(set_final_round(@, last, FALSE),
                                            "max_rounds_exceeded")]

Draining(rt) == rt.phase \in {"commit", "proposal", "proof", "receipt"}

\* next_ordered returned Some(msg) inside the current drain loop.
Drain(rt, msg) ==
    CASE rt.phase = "commit"   -> drain_commitment(rt, msg)
      [] rt.phase = "proposal" -> drain_proposal(rt, msg)
      [] rt.phase = "proof"    -> drain_proof(rt, msg)
      [] rt.phase = "receipt"  -> drain_receipt(rt, msg)

\* next_ordered returned None: the drain loop ends and run_one_round goes on.
EndPhase(rt) ==
    CASE rt.phase = "commit"   -> end_commit_phase(rt)
      [] rt.phase = "proposal" -> end_proposal_phase(rt)
      [] rt.phase = "proof"    -> end_proof_phase(rt)
      [] rt.phase = "receipt"  -> end_receipt_phase(rt)

-----------------------------------------------------------------------------
(* Properties of one process, shared by the composing modules.             *)

\* The log's commitments of the active round are exactly the machine's.
MirrorsMachine(rt) ==
    \A n \in Nodes :
        rt.phase \in {"commit", "proposal", "proof", "receipt"} =>
            LoggedCommitment(rt.log, n, rt.round_machine.current)
                = rt.round_machine.commitments[n]

RejectionCodes(rt) ==
    {rt.log.rejections[i].reason_code : i \in DOMAIN rt.log.rejections}

\* The receipt the verifier will look for is on the log.
HasFinalReceipt(log) ==
    LET p == LoggedProposal(log, log.final_round)
    IN  /\ p # None
        /\ \E i \in DOMAIN log.receipts :
               log.receipts[i] =
                   [provider |-> p.candidate_provider, round |-> log.final_round,
                    signature |-> expected_signature(p.candidate_provider, log.final_round,
                                                     p.matched_capability)]

-----------------------------------------------------------------------------
(* The outcome a run should have, computed from the scenario alone: the    *)
(* first round in which the requester and some feasible provider speak and *)
(* the lowest such provider and the requester prove honestly.              *)

SpeakingFeasible(scenario, round) ==
    {n \in Providers : Required \in Claims[n] /\ ~has_dropped(scenario, n, round)}

RoundSucceeds(scenario, round) ==
    LET feasible == SpeakingFeasible(scenario, round)
    IN  /\ ~has_dropped(scenario, Requester, round)
        /\ feasible # {}
        /\ ~ProofIsSabotaged(scenario, Requester, round)
        /\ ~ProofIsSabotaged(scenario, Min(feasible), round)

\* The one provider a round without lost or late messages can end with.
Chances(scenario, round) ==
    IF RoundSucceeds(scenario, round) THEN {Min(SpeakingFeasible(scenario, round))} ELSE {}

ExpectedOutcome(scenario) ==
    LET good == {r \in 0..(MaxRounds - 1) : RoundSucceeds(scenario, r)}
    IN  IF good = {}
        THEN [finalized |-> FALSE, round |-> IF MaxRounds = 0 THEN 0 ELSE MaxRounds - 1,
              provider |-> None]
        ELSE [finalized |-> TRUE, round |-> Min(good),
              provider |-> Min(SpeakingFeasible(scenario, Min(good)))]

OutcomeOf(log) ==
    [finalized |-> log.finalized, round |-> log.final_round,
     provider |-> IF log.finalized THEN LoggedProposal(log, log.final_round).candidate_provider
                  ELSE None]
=============================================================================
