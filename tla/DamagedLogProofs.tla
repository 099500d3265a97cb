--------------------------- MODULE DamagedLogProofs -------------------------
(***************************************************************************)
(* What the verifier notices of a log with one damaged record, for every   *)
(* topology, budget of rounds and scenario.  The run leaves exactly one    *)
(* receipt, and proofs of the matched pair only; every field of a verified *)
(* record is checked against another record, and only one is damaged.      *)
(***************************************************************************)
EXTENDS DamagedLog, LocalRunProofs

Pair(r) == {Requester, Best(r)}
OnlyPairProved(r) == \A n \in Nodes : Proved(r, n) => n \in Pair(r)

\* Nobody but the pair has proved in the active round, and what is on the log
\* or on the bus is the one receipt of it.
Exact(r, b) ==
    /\ r.phase \in {"proof", "receipt"} => OnlyPairProved(r)
    /\ r.phase = "receipt" => r.log.receipts = IF b = <<>> THEN <<TheReceipt(r)>> ELSE <<>>
    /\ (r.phase = "done" /\ r.log.finalized) =>
           OnlyPairProved(r) /\ r.log.receipts = <<TheReceipt(r)>>

\* A phase about which Exact says nothing.
LEMMA NothingExact ==
    ASSUME NEW r, NEW b,
           r.phase \in {"loop", "commit", "proposal"} \/ (r.phase = "done" /\ ~r.log.finalized)
    PROVE  Exact(r, b)
  BY DEF Exact

\* A step that leaves the proofs, the scenario and the round alone.
LEMMA SamePairProved ==
    ASSUME NEW r, NEW r2, OnlyPairProved(r), r2.round_machine = r.round_machine,
           r2.scenario = r.scenario, r2.log.proofs = r.log.proofs
    PROVE  OnlyPairProved(r2) /\ TheReceipt(r2) = TheReceipt(r)
<1>1. Best(r2) = Best(r) /\ Round(r2) = Round(r) /\ TheReceipt(r2) = TheReceipt(r)
  BY SameRound
<1> QED  BY <1>1 DEF OnlyPairProved, Pair, Proved, HasProof

\* Only a proof of the pair is on the bus, and only the receipt after it.
LEMMA DrainExact ==
    ASSUME NEW r, NEW b, Alone(r), Known(r), InPhase(r, b), Draining(r), b # <<>>, Exact(r, b)
    PROVE  Exact(Drain(r, Head(b)), Tail(b))
<1>1. PICK r2 : r2 = Drain(r, Head(b))
  OBVIOUS
<1>2. RtInv(r) /\ Head(b) \in Messages /\ r \in Runtimes /\ r.log \in Logs
  BY AloneFacts, HeadIsMessage
<1>3. r2.phase = r.phase
  BY <1>1, <1>2, DrainKeeps
<1>4. CASE r.phase \in {"commit", "proposal"}
  BY <1>1, <1>3, <1>4, NothingExact
<1>5. CASE r.phase = "proof"
  <2>1. AtProof(r, b) /\ Complete(r)
    BY <1>5 DEF InPhase, AtProof
  <2>2. /\ Best(r) \in Nodes /\ Requester \in Nodes
        /\ Accepted(r, Best(r)) /\ Accepted(r, Requester)
    BY <2>1, BestFacts, NodeFacts DEF Complete, AllSpoke
  <2>3. PICK n \in Pair(r) : Head(b) = ProofMessage(r, n, Round(r))
    BY <2>1 DEF AtProof, Pair
  <2>4. r2 = drain_proof(r, ProofMessage(r, n, Round(r)))
    BY <1>1, <1>5, <2>3 DEF Drain
  <2>5. /\ r2.round_machine = r.round_machine /\ r2.scenario = r.scenario
        /\ \A k \in Nodes : Proved(r2, k) => Proved(r, k) \/ k = n
    <3>1. n \in Nodes /\ Accepted(r, n)
      BY <2>2 DEF Pair
    <3> QED  BY <1>5, <2>4, <3>1, DrainOwnProof, AloneFacts
  <2>6. OnlyPairProved(r2)
    BY <1>5, <2>5, SameRound DEF Exact, OnlyPairProved, Pair
  <2> QED  BY <1>1, <1>3, <1>5, <2>6 DEF Exact
<1>6. CASE r.phase = "receipt"
  <2> DEFINE rec == TheReceipt(r)
             msg == message(Best(r), "receipt", rec)
  <2>1. /\ r.log.receipts = <<>> /\ OnlyPairProved(r) /\ AtReceipt(r, b)
    BY <1>6 DEF Exact, InPhase
  <2>2. Head(b) = msg /\ Tail(b) = <<>>
    <3>1. b = <<msg>>
      BY <2>1 DEF AtReceipt
    <3> HIDE DEF msg
    <3> QED  BY <3>1
  <2>3. r2 = drain_receipt(r, msg) /\ msg.type = "receipt" /\ msg.rec = rec
    BY <1>1, <1>6, <2>2 DEF Drain, message
  <2> HIDE DEF rec, msg
  <2>4. AtReceipt(r2, <<>>)
    <3>1. InPhase(r2, <<>>)
      BY <1>1, <1>6, <2>1, <2>2, DrainReceiptLocal DEF Drain
    <3> QED  BY <1>3, <1>6, <3>1 DEF InPhase
  <2>5. ReceiptLogged(r2)
    <3>1. \A x : <<x>> # <<>>
      OBVIOUS
    <3> QED  BY <2>4, <3>1 DEF AtReceipt
  <2>6. r2 = [r EXCEPT !.log = append_receipt(@, rec)]
    <3>1. r2 = [r EXCEPT !.log = append_receipt(@, rec)]
          \/ \E n, kind, code : r2 = reject(r, n, kind, code)
      BY <2>3 DEF drain_receipt
    <3>2. ASSUME NEW n, NEW kind, NEW code, r2 = reject(r, n, kind, code) PROVE FALSE
      <4>1. r2.log.receipts = <<>>
        BY <1>2, <2>1, <3>2 DEF reject, append_rejection, Runtimes, Logs
      <4> QED  BY <2>5, <4>1 DEF ReceiptLogged
    <3> QED  BY <3>1, <3>2
  <2>7. /\ r2.log.receipts = Append(r.log.receipts, rec) /\ r2.log.proofs = r.log.proofs
        /\ r2.round_machine = r.round_machine /\ r2.scenario = r.scenario
    BY <1>2, <2>6 DEF append_receipt, Runtimes, Logs
  <2>8. OnlyPairProved(r2) /\ TheReceipt(r2) = TheReceipt(r)
    BY <2>1, <2>7, SamePairProved
  <2>9. r2.log.receipts = <<TheReceipt(r2)>>
    BY <2>1, <2>7, <2>8 DEF rec
  <2> QED  BY <1>1, <1>3, <1>6, <2>2, <2>8, <2>9 DEF Exact
<1> QED  BY <1>4, <1>5, <1>6 DEF Draining

\* The proofs of a round start from none, its receipts too.
LEMMA EndPhaseExact ==
    ASSUME NEW r, Alone(r), Known(r), InPhase(r, <<>>), Draining(r), Exact(r, <<>>)
    PROVE  Exact(EndPhase(r).rt, EndPhase(r).out)
<1>1. PICK r2 : r2 = EndPhase(r).rt
  OBVIOUS
<1>2. RtInv(r) /\ r \in Runtimes /\ r.log \in Logs /\ r.agents = Nodes
  BY AloneFacts
<1>3. CASE r2.phase = "loop"
  BY <1>1, <1>3, NothingExact
<1>4. CASE r.phase = "commit" /\ r2.phase # "loop"
  <2>1. r2 = end_commit_phase(r).rt
    BY <1>1, <1>4 DEF EndPhase
  <2>2. r2.phase = "proposal"
    <3>1. InPhase(r2, end_commit_phase(r).out)
      BY <1>4, <2>1, EndCommitLocal DEF InPhase
    <3>2. \/ r2 = [r EXCEPT !.phase = "proposal"]
          \/ \E n \in NodeIds, kind \in Kinds, code \in Codes : r2 = Fallback(reject(r, n, kind, code))
      <4> DEFINE m == r.round_machine
                 res == end_commit_phase(r)
                 fails == \/ ~HasCommitment(m, Requester)
                          \/ HoldsProposer(r) /\ StoredFeasible(m) = {}
      <4>1. /\ fails => \E n \in NodeIds, kind \in Kinds, code \in Codes :
                              res.rt = Fallback(reject(r, n, kind, code))
            /\ ~fails => res.rt = [r EXCEPT !.phase = "proposal"]
        BY <1>2, <1>4, EndCommitShape
      <4> HIDE DEF fails
      <4> QED  BY <2>1, <4>1
    <3>3. \A n, kind, code : Fallback(reject(r, n, kind, code)).phase = "loop"
      BY <1>2 DEF Fallback, reject, Runtimes
    <3> QED  BY <1>2, <1>4, <3>2, <3>3 DEF Runtimes
  <2> QED  BY <1>1, <2>2, NothingExact
<1>5. CASE r.phase = "proposal" /\ r2.phase # "loop"
  <2>1. AtProposal(r, <<>>) /\ r2 = end_proposal_phase(r).rt
    BY <1>1, <1>5 DEF InPhase, EndPhase
  <2>2. r2 = [r EXCEPT !.phase = "proof"]
    <3>1. r2 = [r EXCEPT !.phase = "proof"] \/ r2 = Fallback(r)
      BY <1>2, <1>5, <2>1, EndProposalShape
    <3> QED  BY <1>2, <1>5, <3>1 DEF Fallback, Runtimes
  <2>3. r2.phase = "proof" /\ r2.log = r.log /\ Round(r2) = Round(r)
    BY <1>2, <2>2 DEF Runtimes, Round
  <2>4. OnlyPairProved(r2)
    BY <2>1, <2>3 DEF AtProposal, OnlyPairProved, Proved
  <2> QED  BY <1>1, <2>3, <2>4 DEF Exact
<1>6. CASE r.phase = "proof" /\ r2.phase # "loop"
  <2>1. r2 = end_proof_phase(r).rt /\ EndPhase(r).out = end_proof_phase(r).out
    BY <1>1, <1>6 DEF EndPhase
  <2>2. HasBothProofs(r, r.round_machine.proposal)
    <3>1. Fallback(r).phase = "loop"
      BY <1>2 DEF Fallback, Runtimes
    <3> QED  BY <1>2, <1>6, <2>1, <3>1, EndProofShape
  <2>3. /\ r2 = [r EXCEPT !.phase = "receipt"]
        /\ r.round_machine.proposal.candidate_provider \in Nodes => EndPhase(r).out # <<>>
    <3>1. \A x : <<x>> # <<>>
      OBVIOUS
    <3>2. PICK res : res = end_proof_phase(r)
      OBVIOUS
    <3>3. /\ res.rt = [r EXCEPT !.phase = "receipt"]
          /\ r.round_machine.proposal.candidate_provider \in Nodes => \E x : res.out = <<x>>
      BY <1>2, <1>6, <2>2, <3>2, EndProofShape
    <3> QED  BY <2>1, <3>1, <3>2, <3>3
  <2>4. r.round_machine.proposal.candidate_provider \in Nodes
    <3>1. Complete(r) /\ r.round_machine.proposal = TheProposal(r)
      BY <1>6 DEF InPhase, AtProof
    <3> QED  BY <3>1, BestFacts DEF Complete, TheProposal
  <2>5. r2.phase = "receipt" /\ r2.log = r.log /\ r2.round_machine = r.round_machine
        /\ r2.scenario = r.scenario
    BY <1>2, <2>3 DEF Runtimes
  <2>6. OnlyPairProved(r2) /\ r2.log.receipts = <<>>
    <3>1. OnlyPairProved(r) /\ r.log.receipts = <<>>
      BY <1>2, <1>6 DEF Exact, RtInv, PhaseCoherent
    <3> QED  BY <2>5, <3>1, SamePairProved
  <2> QED  BY <1>1, <2>3, <2>4, <2>5, <2>6 DEF Exact
<1>7. CASE r.phase = "receipt"
  <2>1. r2 = end_receipt_phase(r).rt
    BY <1>1, <1>7 DEF EndPhase
  <2>2. /\ r2.phase = "done" /\ r2.log.receipts = r.log.receipts /\ r2.log.proofs = r.log.proofs
        /\ r2.round_machine = r.round_machine /\ r2.scenario = r.scenario
    BY <1>2, <2>1 DEF end_receipt_phase, set_final_round, Runtimes, Logs
  <2>3. OnlyPairProved(r) /\ r.log.receipts = <<TheReceipt(r)>>
    BY <1>7 DEF Exact
  <2>4. OnlyPairProved(r2) /\ r2.log.receipts = <<TheReceipt(r2)>>
    BY <2>2, <2>3, SamePairProved
  <2> QED  BY <1>1, <2>2, <2>4 DEF Exact
<1> QED  BY <1>3, <1>4, <1>5, <1>6, <1>7 DEF Draining


\* Every step of the run keeps it.
LEMMA StepExact == LocalInv /\ Exact(rt, bus) /\ [Next]_vars => Exact(rt, bus)'
<1> SUFFICES ASSUME LocalInv, Exact(rt, bus), [Next]_vars PROVE Exact(rt', bus')
  OBVIOUS
<1>1. Alone(rt) /\ Known(rt) /\ InPhase(rt, bus) /\ RtInv(rt) /\ rt \in Runtimes
  BY AloneFacts DEF LocalInv
<1>2. CASE BeginRound
  <2>1. rt'.phase = "commit"
    BY <1>1, <1>2 DEF BeginRound, Broadcasting, broadcast_commitments, Runtimes
  <2> QED  BY <2>1, NothingExact
<1>3. CASE DrainOne
  <2>1. bus # <<>> /\ rt' = Drain(rt, Head(bus)) /\ bus' = Tail(bus) /\ Draining(rt)
    BY <1>3 DEF DrainOne
  <2> QED  BY <1>1, <2>1, DrainExact
<1>4. CASE PhaseEnds
  <2> DEFINE step == EndPhase(rt)
  <2>1. bus = <<>> /\ rt' = step.rt /\ bus' = bus \o step.out /\ Draining(rt)
    BY <1>4 DEF PhaseEnds, Broadcasting
  <2>2. bus' = step.out
    <3>1. step.out \in Seq(Messages)
      BY <1>1, <2>1, EndPhaseSound DEF Sound
    <3> HIDE DEF step
    <3> QED  BY <2>1, <3>1, ConcatEmptySeq
  <2>3. Exact(rt, <<>>) /\ InPhase(rt, <<>>)
    BY <1>1, <2>1
  <2> QED  BY <1>1, <2>1, <2>2, <2>3, EndPhaseExact
<1>5. CASE RunEnds
  <2>1. LoopExhausted(rt) /\ rt' = end_run(rt) /\ AtLoop(rt, bus)
    BY <1>1, <1>5 DEF RunEnds, InPhase, LoopExhausted
  <2>2. rt'.phase = "done" /\ ~rt'.log.finalized
    BY <1>1, <2>1, EndRunLocal
  <2> QED  BY <2>2, NothingExact
<1>6. CASE UNCHANGED vars
  <2>1. rt' = rt /\ bus' = bus
    BY <1>6 DEF vars
  <2> QED  BY <2>1
<1> QED  BY <1>2, <1>3, <1>4, <1>5, <1>6 DEF Next, Terminated

-----------------------------------------------------------------------------
(* What the verifier reads is the log of a run that is over, damaged once. *)

DamagedInv ==
    /\ LocalInv /\ Exact(rt, bus)
    /\ published # None => rt.phase = "done" /\ published \in Damaged(rt.log)

\* The run starts in the invariant.
LEMMA InitDamagedInv == DInit => DamagedInv
<1> SUFFICES ASSUME DInit PROVE DamagedInv
  OBVIOUS
<1>1. PICK scenario \in Scenarios : rt = new_runtime(Nodes, scenario)
  BY DEF DInit, Init
<1>2. rt.phase = "loop"
  BY <1>1 DEF new_runtime
<1> QED  BY <1>2, InitLocalInv, NothingExact DEF DInit, DamagedInv

\* A run that is over stays as it is, and is damaged once.
LEMMA StepDamagedInv == DamagedInv /\ [DNext]_dvars => DamagedInv'
<1> SUFFICES ASSUME DamagedInv, [DNext]_dvars PROVE DamagedInv'
  OBVIOUS
<1>1. CASE Run
  BY <1>1, StepLocalInv, StepExact DEF Run, DamagedInv
<1>2. CASE Damage
  <2>1. rt' = rt /\ bus' = bus /\ rt.phase = "done" /\ published' \in Damaged(rt.log)
    BY <1>2 DEF Damage, vars
  <2> QED  BY <2>1, StepLocalInv, StepExact DEF DamagedInv, vars
<1>3. CASE UNCHANGED dvars
  <2>1. rt' = rt /\ bus' = bus /\ published' = published
    BY <1>3 DEF dvars, vars
  <2> QED  BY <2>1, StepLocalInv, StepExact DEF DamagedInv, vars
<1> QED  BY <1>1, <1>2, <1>3 DEF DNext, Closed

\* The invariant holds of every behaviour.
LEMMA DamagedIsInvariant == DSpec => []DamagedInv
  BY InitDamagedInv, StepDamagedInv, PTL DEF DSpec

\* Damage concerns one part of the log, and the others are what they were.
OnlyTouched(log, d, part) ==
    /\ part # "commitments" => d.commitments = log.commitments
    /\ part # "proposals" => d.proposals = log.proposals
    /\ part # "proofs" => d.proofs = log.proofs
    /\ part # "receipts" => d.receipts = log.receipts
    /\ part # "closing" => d.final_round = log.final_round /\ d.finalized = log.finalized

\* A damaged log differs in one list, in its verdict or in its final round.
LEMMA DamagedParts ==
    ASSUME NEW log \in Logs, NEW d \in Damaged(log)
    PROVE  \/ /\ OnlyTouched(log, d, "commitments")
              /\ d.commitments \in OneOff(log.commitments, ChangedCommitments)
           \/ /\ OnlyTouched(log, d, "proposals")
              /\ d.proposals \in OneOff(log.proposals, ChangedProposals)
           \/ /\ OnlyTouched(log, d, "proofs")
              /\ d.proofs \in OneOff(log.proofs, ChangedProofs)
           \/ /\ OnlyTouched(log, d, "receipts")
              /\ d.receipts \in OneOff(log.receipts, ChangedReceipts)
           \/ OnlyTouched(log, d, "closing") /\ d.finalized = log.finalized
           \/ OnlyTouched(log, d, "closing") /\ d.final_round = log.final_round
<1> USE DEF OnlyTouched
<1>1. ASSUME NEW s, d = [log EXCEPT !.commitments = s]
      PROVE  OnlyTouched(log, d, "commitments") /\ d.commitments = s
  BY <1>1 DEF Logs
<1>2. ASSUME NEW s, d = [log EXCEPT !.proposals = s]
      PROVE  OnlyTouched(log, d, "proposals") /\ d.proposals = s
  BY <1>2 DEF Logs
<1>3. ASSUME NEW s, d = [log EXCEPT !.proofs = s]
      PROVE  OnlyTouched(log, d, "proofs") /\ d.proofs = s
  BY <1>3 DEF Logs
<1>4. ASSUME NEW s, d = [log EXCEPT !.receipts = s]
      PROVE  OnlyTouched(log, d, "receipts") /\ d.receipts = s
  BY <1>4 DEF Logs
<1>5. ASSUME NEW s, d = [log EXCEPT !.final_round = s]
      PROVE  OnlyTouched(log, d, "closing") /\ d.finalized = log.finalized
  BY <1>5 DEF Logs
<1>6. ASSUME d = [log EXCEPT !.finalized = ~@]
      PROVE  OnlyTouched(log, d, "closing") /\ d.final_round = log.final_round
  BY <1>6 DEF Logs
<1> HIDE DEF OnlyTouched
<1> QED  BY <1>1, <1>2, <1>3, <1>4, <1>5, <1>6 DEF Damaged

\* What a log that verifies satisfies, check by check.
CommitmentsChecked(log) ==
    \A i \in DOMAIN log.commitments :
        LET c == log.commitments[i]
        IN  /\ c.node_id \in Nodes /\ c.public_intent.role = role(c.node_id)
            /\ c.public_intent.node_id = c.node_id /\ c.public_intent.round = c.round
ProofsChecked(log) ==
    \A i \in DOMAIN log.proofs :
        LET x == log.proofs[i]
            c == LoggedCommitment(log, x.node_id, x.round)
        IN  /\ x.public_inputs # None /\ c # None
            /\ x.public_inputs.round = x.round /\ x.public_inputs.node_id = x.node_id
            /\ x.public_inputs.commitment = c.commitment_hex
            /\ x.public_inputs.role = c.public_intent.role
FinalRoundChecked(log, p) ==
    LET r == MatchedReceipt(log, log.final_round, p.candidate_provider)
    IN  /\ p # None /\ r # None
        /\ predicate_holds_for_log(log, log.final_round, p.candidate_requester, p.candidate_provider)
        /\ r.signature = expected_signature(p.candidate_provider, log.final_round,
                                            p.matched_capability)
        /\ HasProof(log, p.candidate_requester, log.final_round)
        /\ HasProof(log, p.candidate_provider, log.final_round)

\* What it says of a log that verify_log has no reason against it.
LEMMA VerifiedMeans ==
    ASSUME NEW log, verify_log(log) = {}
    PROVE  /\ CommitmentsChecked(log) /\ ProofsChecked(log)
           /\ \A i \in DOMAIN log.proposals :
                  log.proposals[i].proposer = proposer_for_round(log.proposals[i].round)
           /\ log.finalized => FinalRoundChecked(log, LoggedProposal(log, log.final_round))
           /\ ~log.finalized =>
                  \A i \in DOMAIN log.receipts : log.receipts[i].round # log.final_round
<1> DEFINE p == LoggedProposal(log, log.final_round)
           r == IF p = None THEN None ELSE MatchedReceipt(log, log.final_round, p.candidate_provider)
           body == commitment_reasons(log) \cup proposal_reasons(log) \cup proof_reasons(log)
           agreed == predicate_holds_for_log(log, log.final_round, p.candidate_requester,
                                             p.candidate_provider)
<1>1. \A c, tag : Require(c, tag) = {} => c
  BY DEF Require
<1>2. verify_log(log) =
          IF log.finalized /\ p = None THEN body \cup {"final_round_missing_proposal"}
          ELSE IF log.finalized /\ r = None
          THEN body \cup Require(agreed, "final_round_predicate_failed")
                    \cup {"final_round_missing_receipt"}
          ELSE IF log.finalized
          THEN body \cup final_round_reasons(log, p, r) \cup rejection_reasons(log)
          ELSE body \cup aborted_reasons(log) \cup rejection_reasons(log)
  BY Zenon DEF verify_log
<1> HIDE DEF p, r, agreed
<1>3. /\ commitment_reasons(log) = {} /\ proposal_reasons(log) = {} /\ proof_reasons(log) = {}
      /\ log.finalized => p # None /\ r # None /\ final_round_reasons(log, p, r) = {}
      /\ ~log.finalized => aborted_reasons(log) = {}
  BY <1>2
<1> HIDE DEF body
<1>4. CommitmentsChecked(log)
  <2> SUFFICES ASSUME NEW i \in DOMAIN log.commitments, NEW c, c = log.commitments[i]
               PROVE  /\ c.node_id \in Nodes /\ c.public_intent.role = role(c.node_id)
                      /\ c.public_intent.node_id = c.node_id /\ c.public_intent.round = c.round
    BY DEF CommitmentsChecked
  <2> DEFINE Doubled(k) ==
                 Require(\A j \in 1..(k - 1) :
                             \/ log.commitments[j].node_id # log.commitments[k].node_id
                             \/ log.commitments[j].round # log.commitments[k].round,
                         "duplicate_commitment")
             Reasons(k) ==
                 LET x == log.commitments[k] IN
                 IF x.node_id \notin Nodes THEN {"commitment_from_unknown_node"}
                 ELSE Require(x.public_intent.role = role(x.node_id), "commitment_role_mismatch")
                 \cup Require(x.public_intent.node_id = x.node_id,
                              "commitment_public_intent_node_mismatch")
                 \cup Require(x.public_intent.round = x.round, "commitment_round_mismatch")
                 \cup Doubled(k)
  <2>1. commitment_reasons(log) = UNION {Reasons(k) : k \in DOMAIN log.commitments}
    BY Zenon DEF commitment_reasons
  <2> HIDE DEF Doubled
  <2>2. Reasons(i) = {}
    <3> HIDE DEF Reasons
    <3> QED  BY <1>3, <2>1
  <2> QED  BY <1>1, <2>2
<1>5. ProofsChecked(log)
  <2> SUFFICES ASSUME NEW i \in DOMAIN log.proofs, NEW x, x = log.proofs[i],
                      NEW c, c = LoggedCommitment(log, x.node_id, x.round)
               PROVE  /\ x.public_inputs # None /\ c # None
                      /\ x.public_inputs.round = x.round /\ x.public_inputs.node_id = x.node_id
                      /\ x.public_inputs.commitment = c.commitment_hex
                      /\ x.public_inputs.role = c.public_intent.role
    BY DEF ProofsChecked
  <2> DEFINE inp == x.public_inputs
             e == IF inp = None THEN {"proof_malformed_public_inputs"}
                  ELSE Require(inp.round = x.round, "proof_public_inputs_round_mismatch")
                  \cup Require(inp.node_id = x.node_id, "proof_public_inputs_node_mismatch")
                  \cup
                  (IF c = None THEN {"proof_no_matching_commitment"}
                   ELSE Require(inp.commitment = c.commitment_hex,
                                "proof_public_inputs_commitment_mismatch")
                   \cup Require(inp.role = c.public_intent.role, "proof_role_byte_mismatch")
                   \cup Require(x.marker \in {1, 2}, "proof_marker_unexpected"))
  <2>1. e \subseteq proof_reasons(log)
    BY DEF proof_reasons
  <2>2. e = {}
    BY <1>3, <2>1
  <2> HIDE DEF inp
  <2>3. inp # None /\ c # None
    BY <2>2
  <2>4. /\ Require(inp.round = x.round, "proof_public_inputs_round_mismatch") = {}
        /\ Require(inp.node_id = x.node_id, "proof_public_inputs_node_mismatch") = {}
        /\ Require(inp.commitment = c.commitment_hex,
                   "proof_public_inputs_commitment_mismatch") = {}
        /\ Require(inp.role = c.public_intent.role, "proof_role_byte_mismatch") = {}
    BY <2>2, <2>3
  <2> QED  BY <1>1, <2>3, <2>4 DEF inp
<1>6. ASSUME NEW i \in DOMAIN log.proposals, NEW x, x = log.proposals[i]
      PROVE  x.proposer = proposer_for_round(x.round)
  <2>1. Require(x.proposer = proposer_for_round(x.round), "proposal_wrong_proposer")
            \subseteq proposal_reasons(log)
    BY <1>6 DEF proposal_reasons
  <2> QED  BY <1>1, <1>3, <2>1
<1>7. ASSUME log.finalized PROVE FinalRoundChecked(log, p)
  <2> DEFINE expected == expected_signature(p.candidate_provider, log.final_round,
                                            p.matched_capability)
  <2>1. r = MatchedReceipt(log, log.final_round, p.candidate_provider)
    BY <1>3, <1>7 DEF r
  <2>2. /\ Require(agreed, "final_round_predicate_failed") = {}
        /\ Require(r.signature # NoSignature, "final_round_empty_signature") = {}
        /\ Require(r.signature \in {NoSignature, expected}, "final_round_signature_mismatch") = {}
        /\ Require(HasProof(log, p.candidate_requester, log.final_round),
                   "final_round_missing_requester_proof") = {}
        /\ Require(HasProof(log, p.candidate_provider, log.final_round),
                   "final_round_missing_provider_proof") = {}
    BY <1>3, <1>7 DEF final_round_reasons, agreed
  <2> HIDE DEF expected
  <2>3. agreed
    BY <2>2 DEF Require
  <2>4. r.signature = expected
    BY <2>2 DEF Require
  <2>5. /\ HasProof(log, p.candidate_requester, log.final_round)
        /\ HasProof(log, p.candidate_provider, log.final_round)
    BY <2>2 DEF Require
  <2> QED  BY <1>3, <1>7, <2>1, <2>3, <2>4, <2>5 DEF FinalRoundChecked, agreed, expected
<1>8. ASSUME ~log.finalized PROVE \A i \in DOMAIN log.receipts : log.receipts[i].round # log.final_round
  <2>1. Require(\A i \in DOMAIN log.receipts : log.receipts[i].round # log.final_round,
                "aborted_run_has_receipt") = {}
    BY <1>3, <1>8 DEF aborted_reasons
  <2> QED  BY <2>1 DEF Require
<1> QED  BY <1>4, <1>5, <1>6, <1>7, <1>8 DEF p

\* A receipt that was looked up is on the log.
LEMMA MatchedIsListed ==
    ASSUME NEW log, DOMAIN log.receipts \subseteq Nat, NEW k, NEW n,
           MatchedReceipt(log, k, n) # None
    PROVE  \E i \in DOMAIN log.receipts :
               /\ log.receipts[i].round = k /\ log.receipts[i].provider = n
               /\ MatchedReceipt(log, k, n) = log.receipts[i]
<1> DEFINE hits == {i \in DOMAIN log.receipts :
                       log.receipts[i].round = k /\ log.receipts[i].provider = n}
<1>1. MatchedReceipt(log, k, n) = IF hits = {} THEN None ELSE log.receipts[Min(hits)]
  BY DEF MatchedReceipt
<1>2. hits \subseteq Nat /\ hits # {}
  BY <1>1
<1>3. Min(hits) \in hits
  BY <1>2, MinIsLeast
<1> QED  BY <1>1, <1>2, <1>3

\* What the log of a run that is over holds of its last round.
LEMMA EndedFacts ==
    ASSUME NEW r, NEW b, Alone(r), InPhase(r, b), Exact(r, b), r.phase = "done"
    PROVE  /\ r.log \in Logs /\ r.log.finalized \in BOOLEAN
           /\ ~r.log.finalized => r.log.receipts = <<>>
           /\ r.log.finalized =>
                  /\ r.log.receipts = <<TheReceipt(r)>> /\ r.log.final_round = Round(r)
                  /\ LoggedProposal(r.log, Round(r)) = TheProposal(r)
                  /\ OnlyPairProved(r) /\ Best(r) \in Providers /\ Round(r) \in RoundIds
                  /\ r.round_machine.proposal = TheProposal(r)
<1>1. /\ RtInv(r) /\ r.log \in Logs /\ r.round_machine \in Machine /\ PhaseCoherent(r)
      /\ ProposalsCoherent(r.round_machine, r.log) /\ Round(r) \in RoundIds
  BY AloneFacts
<1>2. r.log.finalized \in BOOLEAN
  BY <1>1 DEF Logs
<1>3. ~r.log.finalized => r.log.receipts = <<>>
  BY <1>1 DEF PhaseCoherent
<1>4. ASSUME r.log.finalized
      PROVE  /\ r.log.receipts = <<TheReceipt(r)>> /\ r.log.final_round = Round(r)
             /\ LoggedProposal(r.log, Round(r)) = TheProposal(r)
             /\ OnlyPairProved(r) /\ Best(r) \in Providers
             /\ r.round_machine.proposal = TheProposal(r)
  <2>1. /\ Complete(r) /\ r.round_machine.proposal = TheProposal(r)
        /\ r.log.final_round = Round(r)
    BY <1>4 DEF InPhase, AtDone, Ended
  <2>2. LoggedProposal(r.log, Round(r)) = TheProposal(r)
    BY <1>1, <2>1, LookupProposal DEF Round
  <2>3. Best(r) \in Providers
    BY <2>1, BestFacts DEF Complete
  <2> QED  BY <1>4, <2>1, <2>2, <2>3 DEF Exact
<1> QED  BY <1>1, <1>2, <1>3, <1>4

\* The receipt carries the outcome: an aborted log has none, and a finalized
\* one names the round and the provider a second time.
LEMMA DamagedOutcome ==
    ASSUME NEW r, NEW b, Alone(r), InPhase(r, b), Exact(r, b), r.phase = "done",
           NEW d \in Damaged(r.log), verify_log(d) = {}
    PROVE  /\ d.finalized = r.log.finalized
           /\ d.finalized => /\ d.final_round = r.log.final_round
                             /\ LoggedProposal(d, d.final_round).candidate_provider = Best(r)
<1> DEFINE log == r.log
           rec == TheReceipt(r)
           p == LoggedProposal(d, d.final_round)
<1>1. /\ log \in Logs /\ log.finalized \in BOOLEAN
      /\ ~log.finalized => log.receipts = <<>>
      /\ log.finalized => /\ log.receipts = <<rec>> /\ log.final_round = Round(r)
                          /\ LoggedProposal(log, Round(r)) = TheProposal(r)
  BY EndedFacts
<1>2. d.finalized \in BOOLEAN
  BY <1>1 DEF Damaged, Logs
<1>3. rec.provider = Best(r) /\ rec.round = Round(r)
  BY DEF TheReceipt
<1> HIDE DEF rec
<1>4. CASE ~log.finalized
  <2>1. ASSUME d.finalized PROVE FALSE
    <3>1. MatchedReceipt(d, d.final_round, p.candidate_provider) # None
      BY <2>1, VerifiedMeans DEF FinalRoundChecked
    <3>2. d.receipts = <<>>
      <4>1. OneOff(log.receipts, ChangedReceipts) = {}
        BY <1>1, <1>4 DEF OneOff
      <4> QED  BY <1>1, <1>4, <4>1, DamagedParts DEF OnlyTouched
    <3> QED  BY <3>1, <3>2 DEF MatchedReceipt
  <2> QED  BY <1>1, <1>2, <1>4, <2>1
<1>5. CASE log.finalized
  <2>1. ASSUME d.receipts = <<rec>> PROVE d.finalized => d.final_round = Round(r) /\ p.candidate_provider = Best(r)
    <3> SUFFICES ASSUME d.finalized PROVE d.final_round = Round(r) /\ p.candidate_provider = Best(r)
      OBVIOUS
    <3>1. MatchedReceipt(d, d.final_round, p.candidate_provider) # None
      BY VerifiedMeans DEF FinalRoundChecked
    <3>2. \A i \in DOMAIN d.receipts : d.receipts[i] = rec
      BY <2>1
    <3>3. DOMAIN d.receipts \subseteq Nat
      BY <2>1
    <3> HIDE DEF p
    <3> QED  BY <1>3, <3>1, <3>2, <3>3, MatchedIsListed
  <2>2. ASSUME d.receipts = <<rec>>, d.final_round = Round(r) PROVE d.finalized
    <3>1. 1 \in DOMAIN d.receipts /\ d.receipts[1] = rec
      BY <2>2
    <3> QED  BY <1>3, <2>2, <3>1, VerifiedMeans
  <2>3. CASE d.receipts = <<rec>>
    <3>1. d.finalized = log.finalized \/ d.final_round = log.final_round
      BY <1>1, DamagedParts DEF OnlyTouched
    <3>2. d.finalized
      BY <1>1, <1>5, <2>2, <2>3, <3>1
    <3> QED  BY <1>1, <1>2, <1>5, <2>1, <2>3, <3>2
  <2>4. CASE d.receipts # <<rec>>
    <3>1. OnlyTouched(log, d, "receipts")
      BY <1>1, <1>5, <2>4, DamagedParts DEF OnlyTouched
    <3>2. /\ d.final_round = log.final_round /\ d.finalized = log.finalized
          /\ d.proposals = log.proposals
      BY <3>1 DEF OnlyTouched
    <3>3. p = TheProposal(r)
      BY <1>1, <1>5, <3>2 DEF LoggedProposal
    <3> QED  BY <1>1, <1>5, <3>2, <3>3 DEF TheProposal
  <2> QED  BY <2>3, <2>4
<1> QED  BY <1>1, <1>4, <1>5

\* A finished run's log with one record changed, lost or doubled that passes the
\* verifier is finalized exactly if the run's log is, and then in the same round
\* and with the same provider.  Of an aborted log's final_round, and of receipts,
\* nothing is said here.
THEOREM OutcomesAreNotForged == DSpec => []VerifiedOutcomeIsTrue
<1>1. DamagedInv => VerifiedOutcomeIsTrue
  <2> SUFFICES ASSUME DamagedInv, Verified
               PROVE  /\ published.finalized = rt.log.finalized
                      /\ published.finalized => OutcomeOf(published) = OutcomeOf(rt.log)
    BY DEF VerifiedOutcomeIsTrue
  <2>1. /\ Alone(rt) /\ InPhase(rt, bus) /\ Exact(rt, bus) /\ rt.phase = "done"
        /\ published \in Damaged(rt.log) /\ verify_log(published) = {}
    BY DEF DamagedInv, LocalInv, Verified
  <2>2. /\ published.finalized = rt.log.finalized
        /\ published.finalized =>
               /\ published.final_round = rt.log.final_round
               /\ LoggedProposal(published, published.final_round).candidate_provider = Best(rt)
    BY <2>1, DamagedOutcome
  <2>3. rt.log.finalized =>
            LoggedProposal(rt.log, rt.log.final_round).candidate_provider = Best(rt)
    <3>1. TheProposal(rt).candidate_provider = Best(rt)
      BY DEF TheProposal
    <3>2. rt.log.finalized =>
              /\ rt.log.final_round = Round(rt)
              /\ LoggedProposal(rt.log, Round(rt)) = TheProposal(rt)
      BY <2>1, EndedFacts
    <3> QED  BY <3>1, <3>2
  <2> QED  BY <2>2, <2>3 DEF OutcomeOf
<1> QED  BY <1>1, DamagedIsInvariant, PTL

-----------------------------------------------------------------------------
(* The evidence: each damaged record contradicts an undamaged one.         *)

\* Losing an entry of a list leaves only entries of it.
LEMMA RemovedEntries ==
    ASSUME NEW S, NEW s \in Seq(S), NEW i \in DOMAIN s
    PROVE  /\ RemoveAt(s, i) \in Seq(S)
           /\ Len(s) = 1 => RemoveAt(s, i) = <<>>
<1> DEFINE before == SubSeq(s, 1, i - 1)
           after == SubSeq(s, i + 1, Len(s))
<1>1. RemoveAt(s, i) = before \o after
  BY DEF RemoveAt
<1>2. before \in Seq(S) /\ after \in Seq(S)
  OBVIOUS
<1>3. Len(s) = 1 => before = <<>> /\ after = <<>>
  OBVIOUS
<1> HIDE DEF before, after
<1> QED  BY <1>1, <1>2, <1>3

\* Every entry of a list with one damaged record is an old one or the changed one.
LEMMA EntriesOf ==
    ASSUME NEW S, NEW s \in Seq(S), NEW i \in DOMAIN s, NEW C, NEW t,
           t \in {[s EXCEPT ![i] = c] : c \in C} \cup {RemoveAt(s, i), Append(s, s[i])}
    PROVE  \A j \in DOMAIN t : t[j] \in S \/ t[j] \in C
<1> SUFFICES ASSUME NEW j \in DOMAIN t PROVE t[j] \in S \/ t[j] \in C
  OBVIOUS
<1>1. CASE t = RemoveAt(s, i)
  BY <1>1, RemovedEntries, ElementOfSeq
<1>2. CASE t = Append(s, s[i])
  BY <1>2
<1>3. ASSUME NEW c \in C, t = [s EXCEPT ![i] = c] PROVE t[j] \in S \/ t[j] \in C
  BY <1>3
<1> QED  BY <1>1, <1>2, <1>3

\* iter().rev().find() returns an entry of the list.
LEMMA ProposalIsListed ==
    ASSUME NEW log, NEW S, log.proposals \in Seq(S), NEW k, LoggedProposal(log, k) # None
    PROVE  \E i \in DOMAIN log.proposals :
               log.proposals[i].round = k /\ LoggedProposal(log, k) = log.proposals[i]
<1> DEFINE n == Len(log.proposals)
           hits == {i \in DOMAIN log.proposals : log.proposals[i].round = k}
           R == {n - i : i \in hits}
<1>1. LoggedProposal(log, k) = IF hits = {} THEN None ELSE log.proposals[Max(hits)]
  BY DEF LoggedProposal
<1>2. hits # {} /\ n \in Nat /\ \A i \in hits : i \in Nat /\ i <= n
  BY <1>1
<1> HIDE DEF n, hits
<1>3. R \subseteq Nat /\ R # {}
  BY <1>2
<1>4. PICK x \in R : \A y \in R : x <= y
  BY <1>3, SmallestNat
<1>5. PICK i \in hits : x = n - i
  BY <1>4
<1>6. \A j \in hits : j <= i
  <2> SUFFICES ASSUME NEW j \in hits PROVE j <= i
    OBVIOUS
  <2>1. n - j \in R
    OBVIOUS
  <2>2. x <= n - j
    BY <1>4, <2>1
  <2> HIDE DEF R
  <2> QED  BY <1>2, <1>5, <2>2
<1>7. Max(hits) \in hits
  BY <1>2, <1>5, <1>6 DEF Max
<1> QED  BY <1>1, <1>2, <1>7 DEF hits

\* iter().find() too.
LEMMA CommitmentIsListed ==
    ASSUME NEW log, DOMAIN log.commitments \subseteq Nat, NEW n, NEW k,
           LoggedCommitment(log, n, k) # None
    PROVE  \E i \in DOMAIN log.commitments :
               /\ log.commitments[i].node_id = n /\ log.commitments[i].round = k
               /\ LoggedCommitment(log, n, k) = log.commitments[i]
<1> DEFINE hits == {i \in DOMAIN log.commitments :
                       log.commitments[i].node_id = n /\ log.commitments[i].round = k}
<1>1. LoggedCommitment(log, n, k) = IF hits = {} THEN None ELSE log.commitments[Min(hits)]
  BY DEF LoggedCommitment
<1>2. hits \subseteq Nat /\ hits # {}
  BY <1>1
<1>3. Min(hits) \in hits
  BY <1>2, MinIsLeast
<1> QED  BY <1>1, <1>2, <1>3

\* A receipt alone on the log is the one that is found.
LEMMA OnlyReceipt ==
    ASSUME NEW log, NEW rec, log.receipts = <<rec>>
    PROVE  MatchedReceipt(log, rec.round, rec.provider) = rec
<1> DEFINE hits == {i \in DOMAIN log.receipts :
                       log.receipts[i].round = rec.round /\ log.receipts[i].provider = rec.provider}
<1>1. 1 \in hits /\ \A i \in hits : i \in Nat /\ log.receipts[i] = rec
  OBVIOUS
<1>2. MatchedReceipt(log, rec.round, rec.provider)
          = IF hits = {} THEN None ELSE log.receipts[Min(hits)]
  BY DEF MatchedReceipt
<1> HIDE DEF hits
<1>3. Min(hits) \in hits
  BY <1>1, MinIsLeast
<1> QED  BY <1>1, <1>2, <1>3

\* A finished run with a log damaged once that still verifies as finalized.
Undetected(r, b, d) ==
    /\ Alone(r) /\ InPhase(r, b) /\ Exact(r, b) /\ r.phase = "done"
    /\ d \in Damaged(r.log) /\ verify_log(d) = {} /\ d.finalized

\* What is known of run and damaged log when the damage goes undetected.
LEMMA UndetectedFacts ==
    ASSUME NEW r, NEW b, NEW d, Undetected(r, b, d)
    PROVE  /\ r.log \in Logs /\ r.log.finalized /\ r.round_machine \in Machine
           /\ CommitmentsCoherent(r.round_machine, r.log) /\ ProofsGrounded(r.log)
           /\ ProposalsCoherent(r.round_machine, r.log)
           /\ r.log.final_round = Round(r) /\ d.final_round = Round(r)
           /\ Round(r) \in RoundIds /\ Best(r) \in Providers /\ OnlyPairProved(r)
           /\ r.log.receipts = <<TheReceipt(r)>>
           /\ LoggedProposal(r.log, Round(r)) = TheProposal(r)
           /\ r.round_machine.proposal = TheProposal(r)
           /\ CommitmentsChecked(d) /\ ProofsChecked(d)
           /\ FinalRoundChecked(d, LoggedProposal(d, Round(r)))
           /\ \A i \in DOMAIN d.proposals :
                  d.proposals[i].proposer = proposer_for_round(d.proposals[i].round)
           /\ TheProposal(r).candidate_requester = Requester
           /\ TheProposal(r).candidate_provider = Best(r)
           /\ TheProposal(r).matched_capability = Required
           /\ LoggedProposal(d, Round(r)).candidate_provider = Best(r)
<1> USE DEF Undetected
<1>1. d.finalized = r.log.finalized /\ d.final_round = r.log.final_round
      /\ LoggedProposal(d, d.final_round).candidate_provider = Best(r)
  BY DamagedOutcome
<1>2. /\ r.log \in Logs /\ r.log.receipts = <<TheReceipt(r)>> /\ r.log.final_round = Round(r)
      /\ LoggedProposal(r.log, Round(r)) = TheProposal(r)
      /\ OnlyPairProved(r) /\ Best(r) \in Providers /\ Round(r) \in RoundIds
      /\ r.round_machine.proposal = TheProposal(r)
  BY <1>1, EndedFacts
<1>3. /\ CommitmentsChecked(d) /\ ProofsChecked(d)
      /\ FinalRoundChecked(d, LoggedProposal(d, Round(r)))
      /\ \A i \in DOMAIN d.proposals :
             d.proposals[i].proposer = proposer_for_round(d.proposals[i].round)
  BY <1>1, <1>2, VerifiedMeans
<1>4. /\ r.round_machine \in Machine
      /\ CommitmentsCoherent(r.round_machine, r.log) /\ ProofsGrounded(r.log)
      /\ ProposalsCoherent(r.round_machine, r.log)
  BY AloneFacts
<1>5. /\ TheProposal(r).candidate_requester = Requester
      /\ TheProposal(r).candidate_provider = Best(r)
      /\ TheProposal(r).matched_capability = Required
  BY DEF TheProposal
<1> QED  BY <1>1, <1>2, <1>3, <1>4, <1>5

\* A changed proposal contradicts the rotation, the requester's commitment,
\* the receipt's provider or the signature, which covers the capability.
LEMMA ProposalIsTrue ==
    ASSUME NEW r, NEW b, NEW d, Undetected(r, b, d)
    PROVE  LoggedProposal(d, Round(r)) = TheProposal(r)
<1> DEFINE log == r.log
           k == Round(r)
<1>1. PICK q : q = LoggedProposal(d, k)
  OBVIOUS
<1>2. CASE d.proposals = log.proposals
  <2>1. LoggedProposal(d, k) = LoggedProposal(log, k)
    BY <1>2 DEF LoggedProposal
  <2> QED  BY <2>1, UndetectedFacts
<1>3. CASE d.proposals # log.proposals
  <2>1. /\ OnlyTouched(log, d, "proposals")
        /\ d.proposals \in OneOff(log.proposals, ChangedProposals)
    BY <1>3, UndetectedFacts, DamagedParts DEF Undetected, OnlyTouched
  <2>2. d.commitments = log.commitments /\ d.receipts = log.receipts /\ d.final_round = k
    BY <2>1, UndetectedFacts DEF OnlyTouched
  <2>3. log.proposals \in Seq(ProposalRecord)
    BY UndetectedFacts DEF Logs
  <2>4. PICK i \in DOMAIN log.proposals :
            d.proposals \in {[log.proposals EXCEPT ![i] = c] : c \in ChangedProposals(log.proposals[i])}
                           \cup {RemoveAt(log.proposals, i), Append(log.proposals, log.proposals[i])}
    BY <2>1 DEF OneOff
  <2>5. ChangedProposals(log.proposals[i]) \subseteq ProposalRecord
    <3>1. log.proposals[i] \in ProposalRecord /\ Rounds \subseteq Nat
      BY <2>3, <2>4, MaxRoundsAssumption DEF Rounds, MaxRoundsAssumption
    <3>2. ASSUME NEW x \in ProposalRecord PROVE ChangedProposals(x) \subseteq ProposalRecord
      BY <3>1 DEF ChangedProposals, ProposalRecord
    <3> QED  BY <3>1, <3>2
  <2>6. d.proposals \in Seq(ProposalRecord)
    <3>1. RemoveAt(log.proposals, i) \in Seq(ProposalRecord)
      BY <2>3, RemovedEntries
    <3>2. Append(log.proposals, log.proposals[i]) \in Seq(ProposalRecord)
      BY <2>3
    <3>3. \A c \in ProposalRecord : [log.proposals EXCEPT ![i] = c] \in Seq(ProposalRecord)
      BY <2>3
    <3> QED  BY <2>4, <2>5, <3>1, <3>2, <3>3
  <2>7. /\ q # None /\ q.candidate_provider = Best(r)
        /\ MatchedReceipt(d, k, Best(r)) # None
        /\ predicate_holds_for_log(d, k, q.candidate_requester, Best(r))
        /\ MatchedReceipt(d, k, Best(r)).signature
             = expected_signature(Best(r), k, q.matched_capability)
    BY <1>1, <2>2, UndetectedFacts DEF FinalRoundChecked
  <2>8. PICK j \in DOMAIN d.proposals : d.proposals[j].round = k /\ q = d.proposals[j]
    BY <1>1, <2>6, <2>7, ProposalIsListed
  <2>9. q \in ProposalRecord /\ q.round = k /\ q.proposer = proposer_for_round(k)
    BY <2>6, <2>8, UndetectedFacts
  <2>10. q.matched_capability = Required
    <3>1. d.receipts = <<TheReceipt(r)>>
      BY <2>2, UndetectedFacts
    <3>2. /\ TheReceipt(r).round = k /\ TheReceipt(r).provider = Best(r)
          /\ TheReceipt(r).signature = sign_receipt(Best(r), k, Required)
      BY DEF TheReceipt
    <3>3. MatchedReceipt(d, k, Best(r)) = TheReceipt(r)
      BY <3>1, <3>2, OnlyReceipt
    <3>4. sign_receipt(Best(r), k, Required) = expected_signature(Best(r), k, q.matched_capability)
      BY <2>7, <3>2, <3>3
    <3>5. \A n, t : /\ sign_receipt(n, k, t).message.capability = t
                    /\ expected_signature(n, k, t).message.capability = t
      BY DEF sign_receipt, expected_signature, receipt_message
    <3> QED  BY <3>4, <3>5
  <2>11. q.candidate_requester = Requester
    <3> DEFINE n == q.candidate_requester
               c == LoggedCommitment(log, n, k)
    <3>1. c # None /\ c.public_intent.role = "requester"
      <4>1. LoggedCommitment(d, n, k) = c
        BY <2>2 DEF LoggedCommitment
      <4> HIDE DEF n, c
      <4>2. predicate_holds_for_log(d, k, n, Best(r))
        BY <2>7 DEF n
      <4> QED  BY <4>1, <4>2 DEF predicate_holds_for_log, match_predicate
    <3>2. log.commitments \in Seq(SentCommitments)
      BY UndetectedFacts DEF Logs
    <3>3. PICK h \in DOMAIN log.commitments :
              log.commitments[h].node_id = n /\ log.commitments[h].round = k
      BY <3>1, <3>2, CommitmentIsListed
    <3>4. n \in Nodes /\ LogHasCommitment(log, n, k)
      BY <3>3, UndetectedFacts, LogEntries DEF LogHasCommitment
    <3> HIDE DEF n
    <3>5. c.public_intent.role = role(n)
      BY <3>4, UndetectedFacts, LoggedFacts
    <3> QED  BY <3>1, <3>5 DEF role, n
  <2> QED  BY <1>1, <2>7, <2>9, <2>10, <2>11 DEF TheProposal, ProposalRecord
<1> QED  BY <1>2, <1>3

\* The commitments of the pair are on the log, as they were made.
LEMMA PairCommitted ==
    ASSUME NEW r, NEW b, NEW d, Undetected(r, b, d), NEW n \in Pair(r)
    PROVE  LET c == LoggedCommitment(r.log, n, Round(r))
           IN  /\ n \in Nodes /\ c # None /\ c.node_id = n /\ c.round = Round(r)
               /\ c.public_intent.node_id = n /\ c.public_intent.round = Round(r)
<1> DEFINE m == r.round_machine
<1>1. Complete(r) /\ m.current = Round(r)
  BY UndetectedFacts DEF Undetected, InPhase, AtDone, Ended, Round
<1>2. n \in Nodes /\ Accepted(r, n)
  BY <1>1, BestFacts, NodeFacts DEF Complete, AllSpoke, Pair
<1>3. /\ LoggedCommitment(r.log, n, Round(r)) = m.commitments[n]
      /\ m.commitments[n].node_id = n /\ m.commitments[n].round = Round(r)
      /\ \E i \in DOMAIN r.log.commitments : r.log.commitments[i] = m.commitments[n]
  BY <1>1, <1>2, UndetectedFacts, LookupCommitment DEF CommitmentsCoherent, Accepted
<1>4. LogHasCommitment(r.log, n, Round(r))
  BY <1>3 DEF LogHasCommitment
<1> HIDE DEF m
<1> QED  BY <1>2, <1>3, <1>4, UndetectedFacts, LoggedFacts

\* The indices of a list with one damaged record are numbers.
LEMMA OneOffIndices ==
    ASSUME NEW S, NEW s \in Seq(S), NEW i \in DOMAIN s, NEW C, NEW t,
           t \in {[s EXCEPT ![i] = c] : c \in C} \cup {RemoveAt(s, i), Append(s, s[i])}
    PROVE  DOMAIN t \subseteq Nat
<1>1. CASE t = RemoveAt(s, i)
  BY <1>1, RemovedEntries
<1>2. CASE t = Append(s, s[i])
  BY <1>2
<1>3. ASSUME NEW c \in C, t = [s EXCEPT ![i] = c] PROVE DOMAIN t \subseteq Nat
  BY <1>3
<1> QED  BY <1>1, <1>2, <1>3

\* A changed hash of the pair contradicts what the node proved about it, a
\* changed identity in the intent the record it is in.
LEMMA CommitmentIsTrue ==
    ASSUME NEW r, NEW b, NEW d, Undetected(r, b, d), NEW n \in Pair(r)
    PROVE  LET c == LoggedCommitment(r.log, n, Round(r))
               e == LoggedCommitment(d, n, Round(r))
           IN  /\ e.commitment_hex = c.commitment_hex
               /\ e.public_intent.node_id = n /\ e.public_intent.round = c.round
<1> DEFINE log == r.log
           k == Round(r)
<1>1. PICK c : c = LoggedCommitment(log, n, k)
  OBVIOUS
<1>2. PICK e : e = LoggedCommitment(d, n, k)
  OBVIOUS
<1>3. /\ n \in Nodes /\ c # None /\ c.node_id = n /\ c.round = k
      /\ c.public_intent.node_id = n /\ c.public_intent.round = k
  BY <1>1, PairCommitted
<1>4. CASE d.commitments = log.commitments
  <2>1. e = c
    BY <1>1, <1>2, <1>4 DEF LoggedCommitment
  <2> QED  BY <1>1, <1>2, <1>3, <2>1
<1>5. CASE d.commitments # log.commitments
  <2>1. /\ OnlyTouched(log, d, "commitments")
        /\ d.commitments \in OneOff(log.commitments, ChangedCommitments)
    BY <1>5, UndetectedFacts, DamagedParts DEF Undetected, OnlyTouched
  <2>2. d.proofs = log.proofs
    BY <2>1 DEF OnlyTouched
  <2>3. PICK i \in DOMAIN log.commitments :
            d.commitments \in {[log.commitments EXCEPT ![i] = x] :
                                   x \in ChangedCommitments(log.commitments[i])}
                \cup {RemoveAt(log.commitments, i), Append(log.commitments, log.commitments[i])}
    BY <2>1 DEF OneOff
  <2>4. DOMAIN d.commitments \subseteq Nat
    <3>1. log.commitments \in Seq(SentCommitments)
      BY UndetectedFacts DEF Logs
    <3> QED  BY <2>3, <3>1, OneOffIndices
  <2>5. HasProof(d, n, k)
    BY ProposalIsTrue, UndetectedFacts DEF FinalRoundChecked, Pair
  <2>6. PICK j \in DOMAIN log.proofs : log.proofs[j].round = k /\ log.proofs[j].node_id = n
    BY <2>2, <2>5 DEF HasProof
  <2>7. log.proofs[j].public_inputs.commitment = e.commitment_hex /\ e # None
    BY <1>2, <2>2, <2>6, UndetectedFacts DEF ProofsChecked
  <2>8. log.proofs[j].public_inputs.commitment = c.commitment_hex
    <3>1. PICK h \in DOMAIN log.commitments :
              /\ log.commitments[h].node_id = n /\ log.commitments[h].round = k
              /\ log.commitments[h].commitment_hex = log.proofs[j].public_inputs.commitment
      BY <2>6, UndetectedFacts DEF ProofsGrounded
    <3>2. c = log.commitments[h]
      BY <1>1, <3>1, UndetectedFacts, LookupCommitment
    <3> QED  BY <3>1, <3>2
  <2>9. PICK h \in DOMAIN d.commitments :
            d.commitments[h].node_id = n /\ d.commitments[h].round = k /\ e = d.commitments[h]
    BY <1>2, <2>4, <2>7, CommitmentIsListed
  <2>10. e.public_intent.node_id = n /\ e.public_intent.round = k
    BY <2>9, UndetectedFacts DEF CommitmentsChecked
  <2> QED  BY <1>1, <1>2, <1>3, <2>7, <2>8, <2>10
<1> QED  BY <1>4, <1>5

\* What a proof on the log says is what its commitment says.
LEMMA LoggedProofs ==
    ASSUME NEW r, NEW b, NEW d, Undetected(r, b, d), NEW x \in ToSet(r.log.proofs)
    PROVE  LET c == LoggedCommitment(r.log, x.node_id, x.round)
           IN  /\ x \in SentProofs
               /\ x.public_inputs.commitment = c.commitment_hex
               /\ x.public_inputs.role = c.public_intent.role
               /\ \E n, k : x.public_inputs.commitment = HashOf(n, k)
<1> DEFINE log == r.log
<1>1. PICK i \in DOMAIN log.proofs : x = log.proofs[i]
  BY DEF ToSet
<1>2. x \in SentProofs /\ x.node_id \in Nodes /\ x.public_inputs.role = role(x.node_id)
  BY <1>1, UndetectedFacts, LogEntries DEF SentProofs
<1>3. PICK j \in DOMAIN log.commitments :
          /\ log.commitments[j].node_id = x.node_id /\ log.commitments[j].round = x.round
          /\ log.commitments[j].commitment_hex = x.public_inputs.commitment
  BY <1>1, UndetectedFacts DEF ProofsGrounded
<1>4. LoggedCommitment(log, x.node_id, x.round) = log.commitments[j]
  BY <1>3, UndetectedFacts, LookupCommitment
<1>5. LoggedCommitment(log, x.node_id, x.round).public_intent.role = role(x.node_id)
  BY <1>2, <1>3, UndetectedFacts, LoggedFacts DEF LogHasCommitment
<1>6. \E n, k : log.commitments[j].commitment_hex = HashOf(n, k)
  <2>1. log.commitments[j] \in SentCommitments
    BY UndetectedFacts, LogEntries
  <2> QED  BY <2>1 DEF SentCommitments
<1> QED  BY <1>2, <1>3, <1>4, <1>5, <1>6

\* A node proves one thing in a round.
LEMMA OneProofEach ==
    ASSUME NEW r, NEW b, NEW d, Undetected(r, b, d), NEW x \in ToSet(r.log.proofs),
           NEW y \in ToSet(r.log.proofs), x.node_id = y.node_id, x.round = y.round
    PROVE  x = y
<1>1. /\ x \in SentProofs /\ y \in SentProofs
      /\ x.public_inputs.commitment = y.public_inputs.commitment
  BY LoggedProofs
<1>2. x.public_inputs = y.public_inputs
  BY <1>1 DEF SentProofs
<1> QED  BY <1>1, <1>2 DEF SentProofs

\* A changed proof that its own commitment still supports differs at most in
\* the artifact's marker.
Normal(x) == [x EXCEPT !.marker = 1]
LEMMA ChangedProofIsOld ==
    ASSUME NEW x \in SentProofs, NEW n0, NEW k0, x.public_inputs.commitment = HashOf(n0, k0),
           NEW y \in ChangedProofs(x), y.public_inputs # None,
           y.public_inputs.round = y.round, y.public_inputs.node_id = y.node_id,
           (y.node_id = x.node_id /\ y.round = x.round) =>
               /\ y.public_inputs.commitment = x.public_inputs.commitment
               /\ y.public_inputs.role = x.public_inputs.role
    PROVE  Normal(y) = Normal(x) /\ y.node_id = x.node_id /\ y.round = x.round
<1> DEFINE inp == x.public_inputs
<1>1. /\ x = [node_id |-> x.node_id, round |-> x.round, marker |-> x.marker,
              public_inputs |-> inp]
      /\ inp = [round |-> inp.round, node_id |-> inp.node_id,
                commitment |-> inp.commitment, role |-> inp.role]
      /\ inp.round = x.round /\ inp.node_id = x.node_id
  BY DEF SentProofs
<1> HIDE DEF inp
<1>2. ASSUME NEW n, y = [x EXCEPT !.node_id = n] PROVE y = x
  <2>1. y.node_id = n /\ y.public_inputs = inp
    BY <1>1, <1>2
  <2> QED  BY <1>1, <1>2, <2>1
<1>3. ASSUME NEW n, y = [x EXCEPT !.round = n] PROVE y = x
  <2>1. y.round = n /\ y.public_inputs = inp
    BY <1>1, <1>3
  <2> QED  BY <1>1, <1>3, <2>1
<1>4. y # [x EXCEPT !.public_inputs = None]
  BY <1>1
<1>5. ASSUME NEW i, y = [x EXCEPT !.public_inputs = i]
      PROVE  y.public_inputs = i /\ y.node_id = x.node_id /\ y.round = x.round
             /\ i = inp => y = x
  BY <1>1, <1>5
<1>6. ASSUME NEW n, y = [x EXCEPT !.public_inputs.node_id = n] PROVE y = x
  <2>1. PICK i : i = [inp EXCEPT !.node_id = n]
    OBVIOUS
  <2>2. y = [x EXCEPT !.public_inputs = i]
    BY <1>1, <1>6, <2>1
  <2>3. i.node_id = n /\ n = inp.node_id
    BY <1>1, <1>5, <2>1, <2>2
  <2>4. i = inp
    BY <1>1, <2>1, <2>3
  <2> QED  BY <1>5, <2>2, <2>4
<1>7. ASSUME NEW n, y = [x EXCEPT !.public_inputs.round = n] PROVE y = x
  <2>1. PICK i : i = [inp EXCEPT !.round = n]
    OBVIOUS
  <2>2. y = [x EXCEPT !.public_inputs = i]
    BY <1>1, <1>7, <2>1
  <2>3. i.round = n /\ n = inp.round
    BY <1>1, <1>5, <2>1, <2>2
  <2>4. i = inp
    BY <1>1, <2>1, <2>3
  <2> QED  BY <1>5, <2>2, <2>4
<1>8. ASSUME NEW n, y = [x EXCEPT !.public_inputs.role = n] PROVE y = x
  <2>1. PICK i : i = [inp EXCEPT !.role = n]
    OBVIOUS
  <2>2. y = [x EXCEPT !.public_inputs = i]
    BY <1>1, <1>8, <2>1
  <2>3. i.role = n /\ n = inp.role
    BY <1>1, <1>5, <2>1, <2>2 DEF inp
  <2>4. i = inp
    BY <1>1, <2>1, <2>3
  <2> QED  BY <1>5, <2>2, <2>4
<1>9. ASSUME NEW n, y = [x EXCEPT !.public_inputs.commitment = n]
      PROVE  y = x /\ n = inp.commitment
  <2>1. PICK i : i = [inp EXCEPT !.commitment = n]
    OBVIOUS
  <2>2. y = [x EXCEPT !.public_inputs = i]
    BY <1>1, <1>9, <2>1
  <2>3. i.commitment = n /\ n = inp.commitment
    BY <1>1, <1>5, <2>1, <2>2 DEF inp
  <2>4. i = inp
    BY <1>1, <2>1, <2>3
  <2> QED  BY <1>5, <2>2, <2>3, <2>4
<1>10. y # tamper_public_inputs(x)
  <2> SUFFICES ASSUME y = tamper_public_inputs(x) PROVE FALSE
    OBVIOUS
  <2>1. PICK h : h = [inp.commitment EXCEPT !.flipped = ~@]
    OBVIOUS
  <2>2. y = [x EXCEPT !.public_inputs.commitment = h]
    BY <1>1, <2>1 DEF tamper_public_inputs
  <2>3. h = inp.commitment
    BY <1>9, <2>2
  <2>4. inp.commitment = HashOf(n0, k0)
    BY DEF inp
  <2> QED  BY <2>1, <2>3, <2>4 DEF HashOf
<1>11. ASSUME NEW n, y = [x EXCEPT !.marker = n]
       PROVE  Normal(y) = Normal(x) /\ y.node_id = x.node_id /\ y.round = x.round
  BY <1>1, <1>11 DEF Normal
<1>12. y = x \/ (Normal(y) = Normal(x) /\ y.node_id = x.node_id /\ y.round = x.round)
  BY <1>2, <1>3, <1>4, <1>6, <1>7, <1>8, <1>9, <1>10, <1>11 DEF ChangedProofs
<1> QED  BY <1>12

\* The proofs of the final round, whatever their markers.
ProofsOf(log, k) == {Normal(proof) : proof \in {x \in ToSet(log.proofs) : x.round = k}}

\* Each field of a proof's public inputs is checked, against its record or its
\* commitment, and both of the pair have proved.
LEMMA ProofsAreTrue ==
    ASSUME NEW r, NEW b, NEW d, Undetected(r, b, d)
    PROVE  ProofsOf(d, Round(r)) = ProofsOf(r.log, Round(r))
<1> DEFINE log == r.log
           k == Round(r)
<1>1. CASE d.proofs = log.proofs
  BY <1>1 DEF ProofsOf
<1>2. CASE d.proofs # log.proofs
  <2>1. /\ OnlyTouched(log, d, "proofs") /\ d.proofs \in OneOff(log.proofs, ChangedProofs)
    BY <1>2, UndetectedFacts, DamagedParts DEF Undetected, OnlyTouched
  <2>2. d.commitments = log.commitments
    BY <2>1 DEF OnlyTouched
  <2>3. PICK i \in DOMAIN log.proofs :
            d.proofs \in {[log.proofs EXCEPT ![i] = x] : x \in ChangedProofs(log.proofs[i])}
                           \cup {RemoveAt(log.proofs, i), Append(log.proofs, log.proofs[i])}
    BY <2>1 DEF OneOff
  <2>4. log.proofs \in Seq(ToSet(log.proofs))
    <3>1. log.proofs \in Seq(SentProofs)
      BY UndetectedFacts DEF Logs
    <3> QED  BY <3>1 DEF ToSet
  <2>5. ASSUME NEW j \in DOMAIN d.proofs
        PROVE  \E x \in ToSet(log.proofs) : /\ Normal(d.proofs[j]) = Normal(x)
                                            /\ d.proofs[j].node_id = x.node_id
                                            /\ d.proofs[j].round = x.round
    <3>1. PICK y : y = d.proofs[j]
      OBVIOUS
    <3>2. y \in ToSet(log.proofs) \/ y \in ChangedProofs(log.proofs[i])
      <4>1. PICK S, s, C, t : S = ToSet(log.proofs) /\ s = log.proofs
                              /\ C = ChangedProofs(log.proofs[i]) /\ t = d.proofs
        OBVIOUS
      <4>2. s \in Seq(S) /\ i \in DOMAIN s
        BY <2>4, <4>1
      <4>3. t \in {[s EXCEPT ![i] = c] : c \in C} \cup {RemoveAt(s, i), Append(s, s[i])}
        BY <2>3, <4>1
      <4>4. \A h \in DOMAIN t : t[h] \in S \/ t[h] \in C
        BY <4>2, <4>3, EntriesOf
      <4> QED  BY <3>1, <4>1, <4>4
    <3>3. CASE y \in ToSet(log.proofs)
      BY <3>1, <3>3
    <3>4. CASE y \in ChangedProofs(log.proofs[i])
      <4>1. PICK x \in ToSet(log.proofs) : x = log.proofs[i]
        BY DEF ToSet
      <4>2. PICK n0, k0 : x.public_inputs.commitment = HashOf(n0, k0)
        BY LoggedProofs
      <4>3. LoggedCommitment(d, y.node_id, y.round) = LoggedCommitment(log, y.node_id, y.round)
        BY <2>2 DEF LoggedCommitment
      <4>4. /\ y.public_inputs # None
            /\ y.public_inputs.round = y.round /\ y.public_inputs.node_id = y.node_id
            /\ y.public_inputs.commitment
                   = LoggedCommitment(d, y.node_id, y.round).commitment_hex
            /\ y.public_inputs.role = LoggedCommitment(d, y.node_id, y.round).public_intent.role
        BY <3>1, UndetectedFacts DEF ProofsChecked
      <4>5. (y.node_id = x.node_id /\ y.round = x.round) =>
                /\ y.public_inputs.commitment = x.public_inputs.commitment
                /\ y.public_inputs.role = x.public_inputs.role
        BY <4>3, <4>4, LoggedProofs
      <4>6. x \in SentProofs
        BY LoggedProofs
      <4>7. Normal(y) = Normal(x) /\ y.node_id = x.node_id /\ y.round = x.round
        BY <3>4, <4>1, <4>2, <4>4, <4>5, <4>6, ChangedProofIsOld
      <4> QED  BY <3>1, <4>1, <4>7
    <3> QED  BY <3>2, <3>3, <3>4
  <2>6. ProofsOf(d, k) \subseteq ProofsOf(log, k)
    BY <2>5 DEF ProofsOf, ToSet
  <2>7. ASSUME NEW x \in ToSet(log.proofs), x.round = k PROVE Normal(x) \in ProofsOf(d, k)
    <3>1. x.node_id \in Pair(r)
      <4>1. Proved(r, x.node_id)
        BY <2>7 DEF Proved, HasProof, ToSet
      <4>2. x.node_id \in Nodes
        BY LoggedProofs DEF SentProofs
      <4> QED  BY <4>1, <4>2, UndetectedFacts DEF OnlyPairProved
    <3>2. HasProof(d, x.node_id, k)
      BY <3>1, ProposalIsTrue, UndetectedFacts DEF FinalRoundChecked, Pair
    <3>3. PICK j \in DOMAIN d.proofs : d.proofs[j].round = k /\ d.proofs[j].node_id = x.node_id
      BY <3>2 DEF HasProof
    <3>4. PICK z \in ToSet(log.proofs) : /\ Normal(d.proofs[j]) = Normal(z)
                                         /\ z.node_id = x.node_id /\ z.round = k
      BY <2>5, <3>3
    <3>5. x = z
      BY <2>7, <3>4, OneProofEach
    <3> QED  BY <3>3, <3>4, <3>5 DEF ProofsOf, ToSet
  <2> QED  BY <2>6, <2>7 DEF ProofsOf
<1> QED  BY <1>1, <1>2

\* A changed receipt names another round or provider, or its signature differs
\* from the expected one, which is the provider's own when the keys match.
LEMMA ReceiptIsTrue ==
    ASSUME NEW r, NEW b, NEW d, Undetected(r, b, d), KeysMatch
    PROVE  MatchedReceipt(d, Round(r), Best(r)) = MatchedReceipt(r.log, Round(r), Best(r))
<1> DEFINE log == r.log
           k == Round(r)
<1>1. PICK rec : rec = TheReceipt(r)
  OBVIOUS
<1>2. /\ rec.round = k /\ rec.provider = Best(r) /\ log.receipts = <<rec>>
      /\ rec.signature = sign_receipt(Best(r), k, Required)
      /\ rec = [provider |-> rec.provider, round |-> rec.round, signature |-> rec.signature]
  BY <1>1, UndetectedFacts DEF TheReceipt
<1>3. PICK x : x = MatchedReceipt(d, k, Best(r))
  OBVIOUS
<1>4. MatchedReceipt(log, k, Best(r)) = rec
  BY <1>2, OnlyReceipt
<1>5. CASE d.receipts = log.receipts
  BY <1>5 DEF MatchedReceipt
<1>6. CASE d.receipts # log.receipts
  <2>1. d.receipts \in OneOff(log.receipts, ChangedReceipts)
    BY <1>6, UndetectedFacts, DamagedParts DEF Undetected, OnlyTouched
  <2>2. PICK i \in DOMAIN log.receipts :
            d.receipts \in {[log.receipts EXCEPT ![i] = c] : c \in ChangedReceipts(log.receipts[i])}
                             \cup {RemoveAt(log.receipts, i), Append(log.receipts, log.receipts[i])}
    BY <2>1 DEF OneOff
  <2>3. log.receipts \in Seq({rec}) /\ log.receipts[i] = rec
    BY <1>2
  <2>4. x # None /\ x.signature = expected_signature(Best(r), k, Required)
    BY <1>3, ProposalIsTrue, UndetectedFacts DEF FinalRoundChecked
  <2>5. DOMAIN d.receipts \subseteq Nat
    BY <2>2, <2>3, OneOffIndices
  <2>6. PICK j \in DOMAIN d.receipts :
            d.receipts[j].round = k /\ d.receipts[j].provider = Best(r) /\ x = d.receipts[j]
    BY <1>3, <2>4, <2>5, MatchedIsListed
  <2>7. x = rec \/ x \in ChangedReceipts(rec)
    <3>1. PICK S, s, C, t : S = {rec} /\ s = log.receipts /\ C = ChangedReceipts(rec)
                            /\ t = d.receipts
      OBVIOUS
    <3>2. s \in Seq(S) /\ i \in DOMAIN s
      BY <2>3, <3>1
    <3>3. t \in {[s EXCEPT ![i] = c] : c \in C} \cup {RemoveAt(s, i), Append(s, s[i])}
      BY <2>2, <2>3, <3>1
    <3>4. \A h \in DOMAIN t : t[h] \in S \/ t[h] \in C
      BY <3>2, <3>3, EntriesOf
    <3> QED  BY <2>6, <3>1, <3>4
  <2>8. x.signature = rec.signature
    BY <1>2, <2>4 DEF KeysMatch, sign_receipt, expected_signature
  <2>9. ASSUME NEW n, x = [rec EXCEPT !.provider = n] PROVE x = rec
    <3>1. x.provider = n
      BY <1>2, <2>9
    <3> QED  BY <1>2, <2>6, <2>9, <3>1
  <2>10. ASSUME NEW n, x = [rec EXCEPT !.round = n] PROVE x = rec
    <3>1. x.round = n
      BY <1>2, <2>10
    <3> QED  BY <1>2, <2>6, <2>10, <3>1
  <2>11. ASSUME NEW n, x = [rec EXCEPT !.signature = n] PROVE x = rec
    <3>1. x.signature = n
      BY <1>2, <2>11
    <3> QED  BY <1>2, <2>8, <2>11, <3>1
  <2>12. x = rec
    BY <2>7, <2>9, <2>10, <2>11 DEF ChangedReceipts
  <2> QED  BY <1>3, <1>4, <2>12
<1> QED  BY <1>5, <1>6

\* The evidence of a damaged log that still verifies is the run's, when the
\* keys match: proposal, commitments, proofs and receipt support one another,
\* and one of them alone cannot be replaced.
THEOREM EvidenceIsNotForged ==
    ASSUME KeysMatch PROVE DSpec => []VerifiedEvidenceIsTrue
<1>1. DamagedInv => VerifiedEvidenceIsTrue
  <2> SUFFICES ASSUME DamagedInv, Verified, published.finalized PROVE VerifiedEvidenceIsTrue
    BY DEF VerifiedEvidenceIsTrue
  <2>1. Undetected(rt, bus, published)
    BY DEF DamagedInv, LocalInv, Verified, Undetected
  <2>2. PICK p : p = TheProposal(rt)
    OBVIOUS
  <2>3. /\ LoggedProposal(rt.log, rt.log.final_round) = p
        /\ rt.log.final_round = Round(rt) /\ published.final_round = Round(rt)
        /\ {p.candidate_requester, p.candidate_provider} = Pair(rt)
        /\ p.candidate_provider = Best(rt)
    BY <2>1, <2>2, UndetectedFacts DEF Pair
  <2>4. LoggedProposal(published, rt.log.final_round) = p
    BY <2>1, <2>2, <2>3, ProposalIsTrue
  <2>5. \A n \in Pair(rt) :
            LET c == LoggedCommitment(rt.log, n, Round(rt))
                e == LoggedCommitment(published, n, Round(rt))
            IN  /\ e.commitment_hex = c.commitment_hex
                /\ e.public_intent.node_id = n /\ e.public_intent.round = c.round
    BY <2>1, CommitmentIsTrue
  <2>6. ProofsOf(published, Round(rt)) = ProofsOf(rt.log, Round(rt))
    BY <2>1, ProofsAreTrue
  <2>7. MatchedReceipt(published, Round(rt), Best(rt)) = MatchedReceipt(rt.log, Round(rt), Best(rt))
    BY <2>1, ReceiptIsTrue
  <2> QED  BY <2>3, <2>4, <2>5, <2>6, <2>7 DEF VerifiedEvidenceIsTrue, ProofsOf, Normal
<1> QED  BY <1>1, DamagedIsInvariant, PTL
=============================================================================
