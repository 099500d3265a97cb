--------------------------- MODULE LocalRunProofs ---------------------------
(***************************************************************************)
(* The in-process run for every topology, budget of rounds and scenario:   *)
(* its log passes the verifier and names every attack, its outcome is the  *)
(* one the scenario calls for, and it implements the abstract protocol.    *)
(* What one process keeps true whatever arrives, and what a round comes to *)
(* when its messages arrive, is RuntimeProofs; here the bus is added, which *)
(* loses nothing, so that what the drain loops hold at their end is known. *)
(* The invariant speaks of any runtime r and bus b: a step is then a fact  *)
(* about four values, without primes.                                      *)
(***************************************************************************)
EXTENDS LocalRun, RuntimeProofs

AtLoop(r, b) ==
    /\ b = <<>> /\ r.round_machine.commitments = NoCommitments
    /\ r.round_machine.proposal = None /\ \A n \in Nodes : ~Proved(r, n)

\* Whoever speaks is accepted or still on the bus.
AtCommit(r, b) ==
    /\ r.round_machine.proposal = None /\ \A n \in Nodes : ~Proved(r, n)
    /\ b \in Seq(Offered(r))
    /\ \A n \in Nodes : Speaks(r, n, Round(r)) =>
           Accepted(r, n) \/ \E i \in DOMAIN b : b[i] = OwnMessage(r, n)

AtProposal(r, b) ==
    /\ Complete(r) /\ \A n \in Nodes : ~Proved(r, n)
    /\ \/ /\ b = <<message(proposer_for_round(Round(r)), "proposal", TheProposal(r))>>
          /\ r.round_machine.proposal = None
       \/ b = <<>> /\ r.round_machine.proposal = TheProposal(r)

\* The honest proofs are logged as they leave the bus, the sabotaged ones not.
AtProof(r, b) ==
    LET req     == ProofMessage(r, Requester, Round(r))
        prov    == ProofMessage(r, Best(r), Round(r))
        Done(n) == Proved(r, n) <=> ~Sabotaged(r, n)
    IN  /\ Complete(r) /\ r.round_machine.proposal = TheProposal(r)
        /\ \/ b = <<req, prov>> /\ ~Proved(r, Requester) /\ ~Proved(r, Best(r))
           \/ b = <<prov>> /\ Done(Requester) /\ ~Proved(r, Best(r))
           \/ b = <<>> /\ Done(Requester) /\ Done(Best(r))

AtReceipt(r, b) ==
    /\ Complete(r) /\ r.round_machine.proposal = TheProposal(r)
    /\ RoundSucceeds(r.scenario, Round(r))
    /\ b = <<message(Best(r), "receipt", TheReceipt(r))>> \/ (b = <<>> /\ ReceiptLogged(r))

AtDone(r, b) == b = <<>> /\ Ended(r)

\* The inductive invariant of the in-process run.
Alone(r) == RtInv(r) /\ r.agents = Nodes /\ r.scenario \in Scenarios
InPhase(r, b) ==
    /\ r.phase \in {"loop", "commit", "proposal", "proof", "receipt", "done"}
    /\ r.phase = "loop" => AtLoop(r, b)
    /\ r.phase = "commit" => AtCommit(r, b)
    /\ r.phase = "proposal" => AtProposal(r, b)
    /\ r.phase = "proof" => AtProof(r, b)
    /\ r.phase = "receipt" => AtReceipt(r, b)
    /\ r.phase = "done" => AtDone(r, b)
LocalInv == Alone(rt) /\ Known(rt) /\ InPhase(rt, bus)

-----------------------------------------------------------------------------
(* What the definitions stand for.                                         *)

\* The parts of a coherent runtime.
LEMMA AloneFacts ==
    ASSUME NEW r, Alone(r)
    PROVE  /\ RtInv(r) /\ r \in Runtimes /\ r.agents = Nodes /\ r.scenario \in Scenarios
           /\ r.round_machine \in Machine /\ r.log \in Logs
           /\ CommitmentsCoherent(r.round_machine, r.log)
           /\ ProposalsCoherent(r.round_machine, r.log)
           /\ ProofsGrounded(r.log) /\ PhaseCoherent(r)
           /\ Round(r) \in Nat /\ Round(r) \in RoundIds /\ Round(r) <= MaxRounds
           /\ Draining(r) => Round(r) < MaxRounds
  BY RuntimeFacts DEF Alone

\* A step that keeps a runtime coherent leaves it alone.
LEMMA AloneStays ==
    ASSUME NEW r, Alone(r), NEW r2, Keeps(r, r2) PROVE Alone(r2)
  BY DEF Alone, Keeps

-----------------------------------------------------------------------------
(* The start of a run and of a round.                                      *)

\* The runtime that new() returns satisfies the invariant.
LEMMA InitLocalInv == Init => LocalInv
<1> SUFFICES ASSUME Init PROVE LocalInv
  OBVIOUS
<1>1. PICK scenario \in Scenarios : rt = new_runtime(Nodes, scenario)
  BY DEF Init
<1>2. scenario \in SUBSET ScenarioEvents
  BY <1>1, ScenariosAssumption DEF ScenariosAssumption
<1>3. RtInv(rt) /\ rt.agents = Nodes /\ rt.scenario = scenario /\ rt.phase = "loop"
  BY <1>1, <1>2, NewRuntimeInv
<1>4. Alone(rt)
  BY <1>1, <1>3 DEF Alone
<1>5. /\ rt.round_machine = new(0) /\ rt.log = new_log /\ rt.historical_commitments = {}
  BY <1>1 DEF new_runtime
<1>6. /\ Round(rt) = 0 /\ rt.round_machine.commitments = NoCommitments
      /\ rt.round_machine.proposal = None /\ rt.round_machine.history_hex = {}
      /\ rt.log.proofs = <<>>
  BY <1>5 DEF Round, new, new_log
<1>7. \A n \in Nodes : ~Accepted(rt, n) /\ ~Proved(rt, n)
  BY <1>6 DEF Accepted, Proved, HasProof, NoCommitments
<1>8. \A k \in RoundIds : ~(k < 0)
  BY DEF RoundIds
<1>9. Known(rt)
  BY <1>5, <1>6, <1>7, <1>8
     DEF Known, EarlierRoundsFailed, HistoryIsKnown, ReplaysAreOld, OwnRecords
<1>10. InPhase(rt, bus)
  BY <1>3, <1>6, <1>7 DEF InPhase, AtLoop, Init
<1> QED  BY <1>4, <1>9, <1>10 DEF LocalInv

\* A round begins with an offer of every node that speaks on the bus.
LEMMA BeginRoundLocal ==
    ASSUME NEW r, NEW b, Alone(r), Known(r), r.phase = "loop", AtLoop(r, b), ~LoopExhausted(r)
    PROVE  LET res == broadcast_commitments(r)
           IN  Alone(res.rt) /\ Known(res.rt) /\ InPhase(res.rt, b \o res.out)
<1>1. PICK res : res = broadcast_commitments(r)
  OBVIOUS
<1>2. RtInv(r) /\ r.agents = Nodes
  BY AloneFacts
<1>3. PICK r2, out : r2 = res.rt /\ out = res.out
  OBVIOUS
<1>4. /\ Keeps(r, r2) /\ Known(r2) /\ r2.phase = "commit"
      /\ r2.round_machine = r.round_machine /\ r2.log.proofs = r.log.proofs
      /\ out \in Seq({msg \in Offered(r) : msg.origin \in r.agents})
      /\ \A n \in r.agents : Speaks(r, n, Round(r)) =>
             \E i \in DOMAIN out : out[i] = OwnMessage(r, n)
  BY <1>1, <1>2, <1>3, BeginRoundKnown
<1>5. out \in Seq(Offered(r))
  <2>1. ASSUME NEW S, NEW T, T \subseteq S, NEW q \in Seq(T) PROVE q \in Seq(S)
    BY <2>1
  <2>2. {msg \in Offered(r) : msg.origin \in r.agents} \subseteq Offered(r)
    OBVIOUS
  <2> QED  BY <1>4, <2>1, <2>2
<1>6. /\ Round(r2) = Round(r) /\ \A n : Accepted(r2, n) <=> Accepted(r, n)
      /\ \A n, j : Speaks(r2, n, j) <=> Speaks(r, n, j)
      /\ \A n : Proved(r2, n) <=> Proved(r, n)
  BY <1>4 DEF Keeps, Round, Accepted, Speaks, Proved, HasProof
<1>7. Offered(r2) = Offered(r) /\ \A n : OwnMessage(r2, n) = OwnMessage(r, n)
  BY <1>6 DEF Offered, OwnMessage
<1>8. AtCommit(r2, out)
  BY <1>2, <1>4, <1>5, <1>6, <1>7 DEF AtCommit, AtLoop
<1>9. b \o out = out
  BY <1>5, ConcatEmptySeq DEF AtLoop
<1> QED  BY <1>1, <1>3, <1>4, <1>8, <1>9, AloneStays DEF InPhase

-----------------------------------------------------------------------------
(* The drain loops.                                                        *)

\* Whoever spoke and is not accepted yet is still on the bus.
LEMMA DrainCommitmentLocal ==
    ASSUME NEW r, NEW b, Alone(r), Known(r), r.phase = "commit", AtCommit(r, b), b # <<>>
    PROVE  LET r2 == drain_commitment(r, Head(b))
           IN  Alone(r2) /\ Known(r2) /\ InPhase(r2, Tail(b))
<1>1. PICK r2 : r2 = drain_commitment(r, Head(b))
  OBVIOUS
<1>2. ASSUME NEW S, NEW q \in Seq(S), q # <<>>
      PROVE  /\ Head(q) \in S /\ Tail(q) \in Seq(S)
             /\ \A i \in DOMAIN q : q[i] = Head(q) \/ \E j \in DOMAIN Tail(q) : Tail(q)[j] = q[i]
  <2>1. Head(q) \in S /\ Tail(q) \in Seq(S) /\ q[1] = Head(q)
    BY <1>2
  <2>2. ASSUME NEW i \in DOMAIN q, i # 1
        PROVE  \E j \in DOMAIN Tail(q) : Tail(q)[j] = q[i]
    <3>1. i - 1 \in DOMAIN Tail(q) /\ Tail(q)[i - 1] = q[i]
      BY <1>2, <2>2
    <3> QED  BY <3>1
  <2> QED  BY <2>1, <2>2
<1>3. /\ Head(b) \in Offered(r) /\ Tail(b) \in Seq(Offered(r))
      /\ \A i \in DOMAIN b : b[i] = Head(b) \/ \E j \in DOMAIN Tail(b) : Tail(b)[j] = b[i]
  BY <1>2 DEF AtCommit
<1>4. /\ Keeps(r, r2) /\ Known(r2) /\ r2.phase = "commit" /\ Round(r2) = Round(r)
      /\ r2.scenario = r.scenario /\ r2.round_machine.proposal = None
      /\ r2.log.proofs = r.log.proofs
      /\ \A n \in Nodes : Accepted(r2, n) <=> Accepted(r, n) \/ Head(b) = OwnMessage(r, n)
  BY <1>1, <1>3, DrainOffer DEF AtCommit, Alone
<1>5. /\ \A n, k : Speaks(r2, n, k) <=> Speaks(r, n, k)
      /\ \A n : Proved(r2, n) <=> Proved(r, n)
  BY <1>4 DEF Speaks, Proved, HasProof
<1>6. Offered(r2) = Offered(r) /\ \A n : OwnMessage(r2, n) = OwnMessage(r, n)
  BY <1>4, <1>5 DEF Offered, OwnMessage
<1>7. ASSUME NEW n \in Nodes, Speaks(r, n, Round(r))
      PROVE  Accepted(r2, n) \/ \E j \in DOMAIN Tail(b) : Tail(b)[j] = OwnMessage(r, n)
  <2>1. Accepted(r, n) \/ \E i \in DOMAIN b : b[i] = OwnMessage(r, n)
    BY <1>7 DEF AtCommit
  <2> QED  BY <1>3, <1>4, <2>1
<1>8. AtCommit(r2, Tail(b))
  BY <1>3, <1>4, <1>5, <1>6, <1>7 DEF AtCommit
<1> QED  BY <1>1, <1>4, <1>8, AloneStays DEF InPhase

-----------------------------------------------------------------------------
(* The ends of the phases, and the other drain loops.                      *)

\* A round that fails leaves a fresh one and an empty bus.
LEMMA FallenBackLocal ==
    ASSUME NEW r, Alone(r), NEW r2, FallenBack(r, r2)
    PROVE  Alone(r2) /\ Known(r2) /\ InPhase(r2, <<>>)
  BY AloneStays DEF FallenBack, InPhase, AtLoop

\* The commitments are in: the proposer proposes the best claimant, or the
\* round had no chance.
LEMMA EndCommitLocal ==
    ASSUME NEW r, Alone(r), Known(r), r.phase = "commit", AtCommit(r, <<>>)
    PROVE  LET res == end_commit_phase(r)
           IN  Alone(res.rt) /\ Known(res.rt) /\ InPhase(res.rt, res.out)
<1> DEFINE k     == Round(r)
           fails == ~Speaks(r, Requester, k) \/ Claimants(r) = {}
<1>1. PICK r2, out : r2 = end_commit_phase(r).rt /\ out = end_commit_phase(r).out
  OBVIOUS
<1>2. RtInv(r) /\ AllSpoke(r) /\ proposer_for_round(k) \in r.agents
  <2>1. AllSpoke(r)
    BY DEF AtCommit, AllSpoke
  <2>2. RtInv(r) /\ r.agents = Nodes /\ k \in Nat
    BY AloneFacts
  <2> QED  BY <2>1, <2>2, NodeFacts
<1>3. /\ fails => out = <<>> /\ FallenBack(r, r2)
      /\ ~fails => /\ MovedOn(r, r2, "proposal") /\ Complete(r)
                   /\ out = <<message(proposer_for_round(k), "proposal", TheProposal(r))>>
  BY <1>1, <1>2, EndCommitKnown
<1>4. CASE fails
  BY <1>1, <1>3, <1>4, FallenBackLocal
<1>5. CASE ~fails
  <2>1. /\ Keeps(r, r2) /\ Known(r2) /\ r2.phase = "proposal" /\ r2.log = r.log
        /\ r2.round_machine = r.round_machine /\ r2.scenario = r.scenario
    BY <1>3, <1>5 DEF MovedOn
  <2>2. Complete(r2) /\ TheProposal(r2) = TheProposal(r) /\ Round(r2) = k
    BY <1>3, <1>5, <2>1, SameRound
  <2>3. \A n \in Nodes : ~Proved(r2, n)
    BY <2>1, <2>2 DEF AtCommit, Proved
  <2>4. AtProposal(r2, out)
    BY <1>3, <1>5, <2>1, <2>2, <2>3 DEF AtProposal, AtCommit
  <2> QED  BY <1>1, <2>1, <2>4, AloneStays DEF InPhase
<1> QED  BY <1>4, <1>5

\* The one proposal on the bus is accepted.
LEMMA DrainProposalLocal ==
    ASSUME NEW r, NEW b, Alone(r), Known(r), r.phase = "proposal", AtProposal(r, b), b # <<>>
    PROVE  LET r2 == drain_proposal(r, Head(b))
           IN  Alone(r2) /\ Known(r2) /\ InPhase(r2, Tail(b))
<1>1. PICK msg : msg = message(proposer_for_round(Round(r)), "proposal", TheProposal(r))
  OBVIOUS
<1>2. /\ b = <<msg>> /\ r.round_machine.proposal = None /\ Complete(r)
      /\ \A n \in Nodes : ~Proved(r, n)
  BY <1>1 DEF AtProposal
<1>3. Head(b) = msg /\ Tail(b) = <<>>
  BY <1>2
<1>4. PICK r2 : r2 = drain_proposal(r, msg)
  OBVIOUS
<1>5. /\ Keeps(r, r2) /\ Known(r2) /\ r2.phase = "proposal"
      /\ r2.round_machine.proposal = TheProposal(r)
      /\ r2.round_machine.current = r.round_machine.current
      /\ r2.round_machine.commitments = r.round_machine.commitments
      /\ r2.log.proofs = r.log.proofs
  BY <1>1, <1>2, <1>4, DrainTheProposal DEF Alone
<1>6. Complete(r2) /\ TheProposal(r2) = TheProposal(r) /\ Round(r2) = Round(r)
  BY <1>2, <1>5, SameRound DEF Keeps
<1>7. \A n \in Nodes : ~Proved(r2, n)
  BY <1>2, <1>5, <1>6 DEF Proved, HasProof
<1>8. AtProposal(r2, <<>>)
  BY <1>5, <1>6, <1>7 DEF AtProposal
<1> QED  BY <1>3, <1>4, <1>5, <1>8, AloneStays DEF InPhase

\* The proposal is in: requester and provider send their proofs.
LEMMA EndProposalLocal ==
    ASSUME NEW r, Alone(r), Known(r), r.phase = "proposal", AtProposal(r, <<>>)
    PROVE  LET res == end_proposal_phase(r)
           IN  Alone(res.rt) /\ Known(res.rt) /\ InPhase(res.rt, res.out)
<1>1. PICK r2, out : r2 = end_proposal_phase(r).rt /\ out = end_proposal_phase(r).out
  OBVIOUS
<1>2. Complete(r) /\ r.round_machine.proposal = TheProposal(r) /\ \A n \in Nodes : ~Proved(r, n)
  <2>1. \A x : <<x>> # <<>>
    OBVIOUS
  <2> QED  BY <2>1 DEF AtProposal
<1>3. /\ MovedOn(r, r2, "proof")
      /\ out = <<ProofMessage(r, Requester, Round(r)), ProofMessage(r, Best(r), Round(r))>>
  BY <1>1, <1>2, EndProposalKnown DEF Alone
<1>4. /\ Keeps(r, r2) /\ Known(r2) /\ r2.phase = "proof" /\ r2.log = r.log
      /\ r2.round_machine = r.round_machine /\ r2.scenario = r.scenario
  BY <1>3 DEF MovedOn
<1>5. /\ Complete(r2) /\ TheProposal(r2) = TheProposal(r) /\ Round(r2) = Round(r)
      /\ Best(r2) = Best(r)
      /\ \A n : ProofMessage(r2, n, Round(r)) = ProofMessage(r, n, Round(r))
  BY <1>2, <1>4, SameRound
<1>6. ~Proved(r2, Requester) /\ ~Proved(r2, Best(r))
  <2>1. Requester \in Nodes /\ Best(r) \in Nodes
    BY <1>2, BestFacts, NodeFacts DEF Complete
  <2> QED  BY <1>2, <1>4, <1>5, <2>1 DEF Proved
<1>7. AtProof(r2, out)
  BY <1>2, <1>3, <1>4, <1>5, <1>6 DEF AtProof
<1> QED  BY <1>1, <1>4, <1>7, AloneStays DEF InPhase

\* The proofs leave the bus in the order requester, provider.
LEMMA DrainProofLocal ==
    ASSUME NEW r, NEW b, Alone(r), Known(r), r.phase = "proof", AtProof(r, b), b # <<>>
    PROVE  LET r2 == drain_proof(r, Head(b))
           IN  Alone(r2) /\ Known(r2) /\ InPhase(r2, Tail(b))
<1> DEFINE m == r.round_machine
<1>1. PICK req : req = ProofMessage(r, Requester, Round(r))
  OBVIOUS
<1>2. PICK prov : prov = ProofMessage(r, Best(r), Round(r))
  OBVIOUS
<1>3. PICK r2 : r2 = drain_proof(r, Head(b))
  OBVIOUS
<1>4. Complete(r) /\ m.proposal = TheProposal(r)
  BY DEF AtProof
<1>5. /\ Best(r) \in Nodes /\ Requester \in Nodes /\ Best(r) # Requester
      /\ Accepted(r, Best(r)) /\ Accepted(r, Requester)
  BY <1>4, BestFacts, NodeFacts DEF Complete, AllSpoke
<1>6. ASSUME Keeps(r, r2), r2.phase = "proof", r2.round_machine = m, r2.scenario = r.scenario,
             r2.historical_commitments = r.historical_commitments
      PROVE  /\ Alone(r2) /\ Known(r2) /\ Complete(r2)
             /\ r2.round_machine.proposal = TheProposal(r2) /\ Best(r2) = Best(r) /\ Round(r2) = Round(r)
             /\ ProofMessage(r2, Best(r2), Round(r2)) = prov
             /\ \A n : Sabotaged(r2, n) <=> Sabotaged(r, n)
  <2>1. Known(r2)
    BY <1>6, SameRoundKnown
  <2>2. /\ Complete(r2) /\ TheProposal(r2) = TheProposal(r) /\ Best(r2) = Best(r)
        /\ Round(r2) = Round(r)
        /\ \A n : Sabotaged(r2, n) <=> Sabotaged(r, n)
        /\ \A n : ProofMessage(r2, n, Round(r)) = ProofMessage(r, n, Round(r))
    BY <1>4, <1>6, SameRound
  <2> QED  BY <1>2, <1>4, <1>6, <2>1, <2>2, AloneStays
<1>7. CASE b = <<req, prov>> /\ ~Proved(r, Requester) /\ ~Proved(r, Best(r))
  <2>1. Head(b) = req /\ Tail(b) = <<prov>>
    BY <1>7
  <2>2. /\ Keeps(r, r2) /\ r2.phase = "proof" /\ r2.round_machine = m
        /\ r2.scenario = r.scenario /\ r2.historical_commitments = r.historical_commitments
        /\ \A k \in Nodes :
               Proved(r2, k) <=> Proved(r, k) \/ (k = Requester /\ ~Sabotaged(r, Requester))
    BY <1>1, <1>3, <1>5, <2>1, DrainOwnProof DEF Alone
  <2>3. AtProof(r2, <<prov>>)
    BY <1>5, <1>6, <1>7, <2>2 DEF AtProof
  <2> QED  BY <1>3, <1>6, <2>1, <2>2, <2>3 DEF InPhase
<1>8. CASE /\ b = <<prov>> /\ ~Proved(r, Best(r))
           /\ Proved(r, Requester) <=> ~Sabotaged(r, Requester)
  <2>1. Head(b) = prov /\ Tail(b) = <<>>
    BY <1>8
  <2>2. /\ Keeps(r, r2) /\ r2.phase = "proof" /\ r2.round_machine = m
        /\ r2.scenario = r.scenario /\ r2.historical_commitments = r.historical_commitments
        /\ \A k \in Nodes :
               Proved(r2, k) <=> Proved(r, k) \/ (k = Best(r) /\ ~Sabotaged(r, Best(r)))
    BY <1>2, <1>3, <1>5, <2>1, DrainOwnProof DEF Alone
  <2>3. AtProof(r2, <<>>)
    BY <1>5, <1>6, <1>8, <2>2 DEF AtProof
  <2> QED  BY <1>3, <1>6, <2>1, <2>2, <2>3 DEF InPhase
<1> QED  BY <1>1, <1>2, <1>7, <1>8 DEF AtProof

\* The proofs are in: with both, the provider signs; without, the round had
\* no chance.
LEMMA EndProofLocal ==
    ASSUME NEW r, Alone(r), Known(r), r.phase = "proof", AtProof(r, <<>>)
    PROVE  LET res == end_proof_phase(r)
           IN  Alone(res.rt) /\ Known(res.rt) /\ InPhase(res.rt, res.out)
<1>1. PICK r2, out : r2 = end_proof_phase(r).rt /\ out = end_proof_phase(r).out
  OBVIOUS
<1>2. /\ Complete(r) /\ r.round_machine.proposal = TheProposal(r)
      /\ \A n \in {Requester, Best(r)} : Proved(r, n) <=> ~Sabotaged(r, n)
  <2>1. ASSUME NEW x, NEW y PROVE <<x, y>> # <<>> /\ <<y>> # <<>>
    OBVIOUS
  <2> QED  BY <2>1 DEF AtProof
<1>3. Best(r) \in r.agents /\ RtInv(r)
  BY <1>2, BestFacts, AloneFacts DEF Complete
<1>4. /\ ~RoundSucceeds(r.scenario, Round(r)) => out = <<>> /\ FallenBack(r, r2)
      /\ RoundSucceeds(r.scenario, Round(r)) =>
             /\ MovedOn(r, r2, "receipt")
             /\ out = <<message(Best(r), "receipt", TheReceipt(r))>>
  BY <1>1, <1>2, <1>3, EndProofKnown
<1>5. CASE ~RoundSucceeds(r.scenario, Round(r))
  BY <1>1, <1>4, <1>5, FallenBackLocal
<1>6. CASE RoundSucceeds(r.scenario, Round(r))
  <2>1. /\ Keeps(r, r2) /\ Known(r2) /\ r2.phase = "receipt"
        /\ r2.round_machine = r.round_machine /\ r2.scenario = r.scenario
    BY <1>4, <1>6 DEF MovedOn
  <2>2. /\ Complete(r2) /\ TheProposal(r2) = TheProposal(r) /\ Round(r2) = Round(r)
        /\ Best(r2) = Best(r) /\ TheReceipt(r2) = TheReceipt(r)
    BY <1>2, <2>1, SameRound
  <2>3. AtReceipt(r2, out)
    BY <1>2, <1>4, <1>6, <2>1, <2>2 DEF AtReceipt
  <2> QED  BY <1>1, <2>1, <2>3, AloneStays DEF InPhase
<1> QED  BY <1>5, <1>6

-----------------------------------------------------------------------------
(* The receipt and the end of the run.                                     *)

\* The receipt on the bus is signed, and logged.
LEMMA DrainReceiptLocal ==
    ASSUME NEW r, NEW b, Alone(r), Known(r), r.phase = "receipt", AtReceipt(r, b), b # <<>>
    PROVE  LET r2 == drain_receipt(r, Head(b))
           IN  Alone(r2) /\ Known(r2) /\ InPhase(r2, Tail(b))
<1>1. PICK msg : msg = message(Best(r), "receipt", TheReceipt(r))
  OBVIOUS
<1>2. /\ Complete(r) /\ r.round_machine.proposal = TheProposal(r)
      /\ RoundSucceeds(r.scenario, Round(r)) /\ b = <<msg>>
  BY <1>1 DEF AtReceipt
<1>3. Head(b) = msg /\ Tail(b) = <<>>
  BY <1>2
<1>4. PICK r2 : r2 = drain_receipt(r, msg)
  OBVIOUS
<1>5. /\ Keeps(r, r2) /\ Known(r2) /\ r2.phase = "receipt"
      /\ r2.round_machine = r.round_machine /\ ReceiptLogged(r2)
  BY <1>1, <1>2, <1>4, DrainTheReceipt DEF Alone
<1>6. Complete(r2) /\ TheProposal(r2) = TheProposal(r) /\ Round(r2) = Round(r)
  BY <1>2, <1>5, SameRound DEF Keeps
<1>7. AtReceipt(r2, <<>>)
  BY <1>2, <1>5, <1>6 DEF AtReceipt, Keeps
<1> QED  BY <1>3, <1>4, <1>5, <1>7, AloneStays DEF InPhase

\* The receipt is in: the run ends finalized.
LEMMA EndReceiptLocal ==
    ASSUME NEW r, Alone(r), Known(r), r.phase = "receipt", AtReceipt(r, <<>>)
    PROVE  LET res == end_receipt_phase(r)
           IN  /\ Alone(res.rt) /\ Known(res.rt) /\ InPhase(res.rt, res.out)
               /\ res.rt.phase = "done" /\ res.rt.log.finalized
               /\ res.rt.scenario = r.scenario /\ res.rt.round_machine = r.round_machine
<1>1. PICK r2, out : r2 = end_receipt_phase(r).rt /\ out = end_receipt_phase(r).out
  OBVIOUS
<1>2. /\ Complete(r) /\ r.round_machine.proposal = TheProposal(r)
      /\ RoundSucceeds(r.scenario, Round(r)) /\ ReceiptLogged(r)
  <2>1. \A x : <<x>> # <<>>
    OBVIOUS
  <2> QED  BY <2>1 DEF AtReceipt
<1>3. /\ Keeps(r, r2) /\ Known(r2) /\ Ended(r2) /\ out = <<>>
      /\ r2.phase = "done" /\ r2.log.finalized /\ r2.round_machine = r.round_machine
  BY <1>1, <1>2, EndReceiptKnown DEF Alone
<1> QED  BY <1>1, <1>3, AloneStays DEF InPhase, AtDone, Keeps

\* No round is left: the run ends aborted.
LEMMA EndRunLocal ==
    ASSUME NEW r, NEW b, Alone(r), Known(r), AtLoop(r, b), LoopExhausted(r)
    PROVE  LET r2 == end_run(r)
           IN  /\ Alone(r2) /\ Known(r2) /\ InPhase(r2, b)
               /\ r2.phase = "done" /\ ~r2.log.finalized
               /\ r2.scenario = r.scenario /\ r2.round_machine = r.round_machine
<1>1. PICK r2 : r2 = end_run(r)
  OBVIOUS
<1>2. /\ Keeps(r, r2) /\ Known(r2) /\ Ended(r2) /\ r2.phase = "done" /\ ~r2.log.finalized
      /\ r2.round_machine = r.round_machine
  BY <1>1, EndRunKnown DEF Alone
<1> QED  BY <1>1, <1>2, AloneStays DEF InPhase, AtDone, AtLoop, Keeps

-----------------------------------------------------------------------------
(* The invariant.                                                          *)

\* Every step of the run keeps the invariant: one lemma above for each phase
\* and each way a step leaves it.
LEMMA StepLocalInv == LocalInv /\ [Next]_vars => LocalInv'
<1> SUFFICES ASSUME LocalInv, [Next]_vars PROVE LocalInv'
  OBVIOUS
<1>1. Alone(rt) /\ Known(rt) /\ InPhase(rt, bus)
  BY DEF LocalInv
<1>2. CASE BeginRound
  <2>1. /\ rt.phase = "loop" /\ ~LoopExhausted(rt) /\ AtLoop(rt, bus)
        /\ rt' = broadcast_commitments(rt).rt /\ bus' = bus \o broadcast_commitments(rt).out
    BY <1>1, <1>2 DEF BeginRound, Broadcasting, InPhase
  <2> QED  BY <1>1, <2>1, BeginRoundLocal DEF LocalInv
<1>3. CASE DrainOne
  <2>1. bus # <<>> /\ rt' = Drain(rt, Head(bus)) /\ bus' = Tail(bus) /\ Draining(rt)
    BY <1>3 DEF DrainOne
  <2>2. CASE rt.phase = "commit"
    <3>1. rt' = drain_commitment(rt, Head(bus)) /\ AtCommit(rt, bus)
      BY <1>1, <2>1, <2>2 DEF Drain, InPhase
    <3> QED  BY <1>1, <2>1, <2>2, <3>1, DrainCommitmentLocal DEF LocalInv
  <2>3. CASE rt.phase = "proposal"
    <3>1. rt' = drain_proposal(rt, Head(bus)) /\ AtProposal(rt, bus)
      BY <1>1, <2>1, <2>3 DEF Drain, InPhase
    <3> QED  BY <1>1, <2>1, <2>3, <3>1, DrainProposalLocal DEF LocalInv
  <2>4. CASE rt.phase = "proof"
    <3>1. rt' = drain_proof(rt, Head(bus)) /\ AtProof(rt, bus)
      BY <1>1, <2>1, <2>4 DEF Drain, InPhase
    <3> QED  BY <1>1, <2>1, <2>4, <3>1, DrainProofLocal DEF LocalInv
  <2>5. CASE rt.phase = "receipt"
    <3>1. rt' = drain_receipt(rt, Head(bus)) /\ AtReceipt(rt, bus)
      BY <1>1, <2>1, <2>5 DEF Drain, InPhase
    <3> QED  BY <1>1, <2>1, <2>5, <3>1, DrainReceiptLocal DEF LocalInv
  <2> QED  BY <2>1, <2>2, <2>3, <2>4, <2>5 DEF Draining
<1>4. CASE PhaseEnds
  <2> DEFINE step == EndPhase(rt)
  <2>1. bus = <<>> /\ rt' = step.rt /\ bus' = bus \o step.out /\ Draining(rt)
    BY <1>4 DEF PhaseEnds, Broadcasting
  <2>2. bus' = step.out
    <3>1. step.out \in Seq(Messages)
      BY <1>1, <2>1, EndPhaseSound, AloneFacts DEF Sound
    <3> HIDE DEF step
    <3> QED  BY <2>1, <3>1, ConcatEmptySeq
  <2>3. CASE rt.phase = "commit"
    <3>1. step = end_commit_phase(rt) /\ AtCommit(rt, <<>>)
      BY <1>1, <2>1, <2>3 DEF EndPhase, InPhase
    <3> QED  BY <1>1, <2>1, <2>2, <2>3, <3>1, EndCommitLocal DEF LocalInv
  <2>4. CASE rt.phase = "proposal"
    <3>1. step = end_proposal_phase(rt) /\ AtProposal(rt, <<>>)
      BY <1>1, <2>1, <2>4 DEF EndPhase, InPhase
    <3> QED  BY <1>1, <2>1, <2>2, <2>4, <3>1, EndProposalLocal DEF LocalInv
  <2>5. CASE rt.phase = "proof"
    <3>1. step = end_proof_phase(rt) /\ AtProof(rt, <<>>)
      BY <1>1, <2>1, <2>5 DEF EndPhase, InPhase
    <3> QED  BY <1>1, <2>1, <2>2, <2>5, <3>1, EndProofLocal DEF LocalInv
  <2>6. CASE rt.phase = "receipt"
    <3>1. step = end_receipt_phase(rt) /\ AtReceipt(rt, <<>>)
      BY <1>1, <2>1, <2>6 DEF EndPhase, InPhase
    <3> QED  BY <1>1, <2>1, <2>2, <2>6, <3>1, EndReceiptLocal DEF LocalInv
  <2> QED  BY <2>1, <2>3, <2>4, <2>5, <2>6 DEF Draining
<1>5. CASE RunEnds
  <2>1. LoopExhausted(rt) /\ rt' = end_run(rt) /\ bus' = bus /\ AtLoop(rt, bus)
    BY <1>1, <1>5 DEF RunEnds, InPhase, LoopExhausted
  <2> QED  BY <1>1, <2>1, EndRunLocal DEF LocalInv
<1>6. CASE UNCHANGED vars
  <2>1. rt' = rt /\ bus' = bus
    BY <1>6 DEF vars
  <2> QED  BY <1>1, <2>1 DEF LocalInv
<1> QED  BY <1>2, <1>3, <1>4, <1>5, <1>6 DEF Next, Terminated

\* Every reachable state satisfies the invariant.
LEMMA LocalIsInvariant == Spec => []LocalInv
  BY InitLocalInv, StepLocalInv, PTL DEF Spec

\* The public log and the round machine never disagree about the active
\* round: the log_duplicate branch of drain_commitments is dead code, and the
\* .expect of broadcast_proofs never fires, in any scenario.
THEOREM LogAndMachineAgree == Spec => []LogMirrorsMachine
<1>1. LocalInv => LogMirrorsMachine
  BY CoherentRuntime DEF LocalInv, Alone, LogMirrorsMachine
<1> QED  BY <1>1, LocalIsInvariant, PTL

\* The log a run leaves behind passes the standalone verifier, whatever the
\* scenario, provided the runtime signs with the keys the topology publishes.
THEOREM RunsLeaveValidLogs ==
    ASSUME KeysMatch PROVE Spec => []LogVerifies
<1>1. ASSUME LocalInv, rt.phase = "done" PROVE verify_log(rt.log) = {}
  BY <1>1, EndedVerifies DEF LocalInv, Alone, InPhase, AtDone
<1>2. LocalInv => LogVerifies
  BY <1>1 DEF LogVerifies
<1> QED  BY <1>2, LocalIsInvariant, PTL

\* A run ends in the first round that can succeed with the lowest claimant
\* that speaks, and aborts only if no round of the budget can.
THEOREM RunsEndAsExpected == Spec => []OutcomeAsExpected
<1>1. ASSUME LocalInv, rt.phase = "done" PROVE OutcomeOf(rt.log) = ExpectedOutcome(rt.scenario)
  BY <1>1, EndedAsExpected DEF LocalInv, Alone, InPhase, AtDone
<1>2. LocalInv => OutcomeAsExpected
  BY <1>1 DEF OutcomeAsExpected
<1> QED  BY <1>2, LocalIsInvariant, PTL

-----------------------------------------------------------------------------
(* The abstract protocol.                                                  *)

\* The end of a phase amounts to a stutter, a Fallback or a Finalize.
LEMMA PhaseEndRefines ==
    ASSUME NEW r, Alone(r), Known(r), InPhase(r, <<>>), Draining(r)
    PROVE  Refines(r, EndPhase(r).rt)
<1>1. PICK r2 : r2 = EndPhase(r).rt
  OBVIOUS
<1>2. /\ Known(r2)
      /\ r2.phase = "done" => /\ r.phase = "receipt" /\ Alone(r2) /\ InPhase(r2, EndPhase(r).out)
                              /\ r2.log.finalized /\ r2.round_machine = r.round_machine
  <2>1. CASE r.phase = "commit"
    BY <1>1, <2>1, EndCommitLocal, EndPhaseMoves, AloneFacts DEF EndPhase, InPhase
  <2>2. CASE r.phase = "proposal"
    BY <1>1, <2>2, EndProposalLocal, EndPhaseMoves, AloneFacts DEF EndPhase, InPhase
  <2>3. CASE r.phase = "proof"
    BY <1>1, <2>3, EndProofLocal, EndPhaseMoves, AloneFacts DEF EndPhase, InPhase
  <2>4. CASE r.phase = "receipt"
    BY <1>1, <2>4, EndReceiptLocal DEF EndPhase, InPhase
  <2> QED  BY <2>1, <2>2, <2>3, <2>4 DEF Draining
<1>3. r.phase = "receipt" => Complete(r) /\ RoundSucceeds(r.scenario, Round(r))
  BY DEF InPhase, AtReceipt
<1>4. r2.phase = "done" => Ended(r2)
  BY <1>2 DEF InPhase, AtDone
<1>5. Refines(r, r2)
  BY <1>1, <1>2, <1>3, <1>4, EndPhaseRefines, AloneFacts
<1> QED  BY <1>1, <1>5

\* In every phase, what the bus holds is a message of the protocol.
LEMMA HeadIsMessage ==
    ASSUME NEW r, NEW b, Alone(r), InPhase(r, b), Draining(r), b # <<>>
    PROVE  Head(b) \in Messages
<1>1. RtInv(r)
  BY AloneFacts
<1>2. SUFFICES ASSUME NEW msg, msg = Head(b) PROVE msg \in Messages
  OBVIOUS
<1>3. CASE r.phase = "commit"
  <2>1. b \in Seq(Offered(r))
    BY <1>3 DEF InPhase, AtCommit
  <2>2. msg \in Offered(r)
    BY <1>2, <2>1
  <2> QED  BY <2>2 DEF Offered, Messages
<1>4. CASE r.phase = "proposal"
  <2>1. /\ b = <<message(proposer_for_round(Round(r)), "proposal", TheProposal(r))>>
        /\ Complete(r) /\ r.round_machine.proposal = None
    BY <1>4 DEF InPhase, AtProposal
  <2>2. TheProposal(r) \in ProposalRecord
    BY <2>1, TheProposalPasses, AloneFacts
  <2>3. proposer_for_round(Round(r)) \in Nodes
    BY NodeFacts, AloneFacts
  <2>4. msg = message(proposer_for_round(Round(r)), "proposal", TheProposal(r))
    BY <1>2, <2>1
  <2> QED  BY <2>2, <2>3, <2>4 DEF message, Messages
<1>5. CASE r.phase = "proof"
  <2>1. /\ Complete(r)
        /\ \/ msg = ProofMessage(r, Requester, Round(r))
           \/ msg = ProofMessage(r, Best(r), Round(r))
    BY <1>2, <1>5 DEF InPhase, AtProof
  <2>2. /\ Best(r) \in Nodes /\ Requester \in Nodes
        /\ HasCommitment(r.round_machine, Best(r))
        /\ HasCommitment(r.round_machine, Requester)
    BY <2>1, BestFacts, NodeFacts DEF Complete, AllSpoke, Accepted, HasCommitment
  <2> QED  BY <1>1, <2>1, <2>2, ProofMessageShape DEF Round
<1>6. CASE r.phase = "receipt"
  <2>1. /\ b = <<message(Best(r), "receipt", TheReceipt(r))>> /\ Complete(r)
    BY <1>6 DEF InPhase, AtReceipt
  <2>2. Best(r) \in Nodes /\ Best(r) \in Providers
    BY <2>1, BestFacts DEF Complete
  <2>3. TheReceipt(r) \in SentReceipts
    BY <2>2, SignedIsSent, AloneFacts DEF TheReceipt
  <2>4. msg = message(Best(r), "receipt", TheReceipt(r))
    BY <1>2, <2>1
  <2> QED  BY <2>2, <2>3, <2>4 DEF message, Messages
<1> QED  BY <1>3, <1>4, <1>5, <1>6 DEF Draining

\* A step of the run amounts to one of the abstract protocol, or to none.
LEMMA StepRefines == LocalInv /\ [Next]_vars => Refines(rt, rt')
<1> SUFFICES ASSUME LocalInv, [Next]_vars PROVE Refines(rt, rt')
  OBVIOUS
<1>1. Alone(rt) /\ Known(rt) /\ InPhase(rt, bus) /\ RtInv(rt)
  BY AloneFacts DEF LocalInv
<1>2. CASE BeginRound
  <2>1. PICK r2 : r2 = rt'
    OBVIOUS
  <2>2. /\ rt.phase = "loop" /\ r2.phase = "commit" /\ r2.scenario = rt.scenario
        /\ r2.round_machine = rt.round_machine
    BY <1>1, <1>2, <2>1, BroadcastCommitmentsSound DEF BeginRound, Broadcasting, Sound, Keeps
  <2>3. Refines(rt, r2)
    BY <2>2, SameStageRefines DEF Round
  <2> QED  BY <2>1, <2>3
<1>3. CASE DrainOne
  <2>1. PICK r2 : r2 = rt'
    OBVIOUS
  <2>2. PICK msg : msg = Head(bus)
    OBVIOUS
  <2>3. Draining(rt) /\ bus # <<>> /\ r2 = Drain(rt, msg)
    BY <1>3, <2>1, <2>2 DEF DrainOne
  <2>4. msg \in Messages
    BY <1>1, <2>2, <2>3, HeadIsMessage
  <2>5. r2.phase = rt.phase /\ r2.scenario = rt.scenario /\ Round(r2) = Round(rt)
    BY <1>1, <2>3, <2>4, DrainKeeps, DrainKeepsRound DEF Keeps
  <2>6. Refines(rt, r2)
    BY <2>3, <2>5, SameStageRefines DEF Draining
  <2> QED  BY <2>1, <2>6
<1>4. CASE PhaseEnds
  <2>1. bus = <<>> /\ Draining(rt) /\ rt' = EndPhase(rt).rt
    BY <1>4 DEF PhaseEnds, Broadcasting
  <2>2. InPhase(rt, <<>>)
    BY <1>1, <2>1
  <2> QED  BY <1>1, <2>1, <2>2, PhaseEndRefines
<1>5. CASE RunEnds
  <2>1. PICK r2 : r2 = rt'
    OBVIOUS
  <2>2. LoopExhausted(rt) /\ r2 = end_run(rt) /\ AtLoop(rt, bus) /\ rt.phase = "loop"
    BY <1>1, <1>5, <2>1 DEF RunEnds, InPhase, LoopExhausted
  <2>3. Refines(rt, r2)
    BY <1>1, <2>2, EndRunRefines
  <2> QED  BY <2>1, <2>3
<1>6. CASE UNCHANGED vars
  <2>1. rt' = rt
    BY <1>6 DEF vars
  <2> QED  BY <2>1 DEF Refines, Stays
<1> QED  BY <1>2, <1>3, <1>4, <1>5, <1>6 DEF Next, Terminated

\* The in-process run implements the abstract protocol with the agenda that
\* its scenario sets: message by message and with every attack, a round
\* finalizes with the one provider the scenario allows, or falls back.
THEOREM RunImplementsCoordination == Spec => ImplementsCoordination
<1>1. Init => Abstract!Init
  <2> SUFFICES ASSUME Init PROVE Abstract!Init
    OBVIOUS
  <2>1. PICK scenario \in Scenarios : rt = new_runtime(Nodes, scenario)
    BY DEF Init
  <2>2. rt.phase = "loop" /\ rt.round_machine.current = 0
    BY <2>1 DEF new_runtime, new
  <2>3. Agenda(rt) \in [0..MaxRounds -> SUBSET Providers]
    BY AgendaFacts
  <2> QED  BY <2>2, <2>3 DEF Abstract!Init, Agenda
<1>2. LocalInv /\ [Next]_vars => [Abstract!Next]_(Abstract!vars)
  <2> SUFFICES ASSUME LocalInv, [Next]_vars PROVE [Abstract!Next]_(Abstract!vars)
    OBVIOUS
  <2>1. Refines(rt, rt')
    BY StepRefines
  <2>2. Agenda(rt') = Agenda(rt)
    BY <2>1 DEF Refines
  <2>3. CASE Stays(rt, rt')
    BY <2>2, <2>3 DEF Stays, Round, Result, Agenda, Abstract!vars
  <2>4. CASE FallsBack(rt, rt')
    BY <2>2, <2>4 DEF FallsBack, Round, Result, Agenda, Abstract!Next, Abstract!Fallback
  <2>5. CASE Finalizes(rt, rt')
    BY <2>2, <2>5 DEF Finalizes, Round, Result, Agenda, Abstract!Next, Abstract!Finalize
  <2>6. CASE Aborts(rt, rt')
    BY <2>2, <2>6 DEF Aborts, Round, Result, Agenda, Abstract!Next, Abstract!Abort
  <2> QED  BY <2>1, <2>3, <2>4, <2>5, <2>6 DEF Refines
<1> QED  BY <1>1, <1>2, LocalIsInvariant, PTL DEF Spec, ImplementsCoordination, Abstract!Spec

\* A run finalizes in the first round that has a provider to offer and aborts
\* only when none had one: the loop of CoordinationRuntime::run passes a round
\* for a reason, whatever the budget and the scenario.
THEOREM FirstChanceIsTaken == Spec => []Abstract!FirstChance
<1>1. ASSUME LocalInv PROVE Abstract!FirstChance
  <2> DEFINE Offer == [k \in 0..MaxRounds |-> Chances(rt.scenario, k)]
             res == OutcomeOf(rt.log)
  <2>1. Alone(rt) /\ Known(rt) /\ InPhase(rt, bus) /\ Round(rt) \in 0..MaxRounds
    BY <1>1, AloneFacts DEF LocalInv, RoundIds
  <2>2. /\ Agenda(rt) = Offer
        /\ Offer[Round(rt)] = IF RoundSucceeds(rt.scenario, Round(rt)) THEN {Best(rt)} ELSE {}
    BY <2>1, AgendaFacts DEF Agenda
  <2>3. \A k \in 0..MaxRounds : k < Round(rt) => Offer[k] = {}
    BY <2>1 DEF Known, EarlierRoundsFailed, RoundIds, Chances
  <2> HIDE DEF Offer
  <2>4. ASSUME rt.phase = "done"
        PROVE  /\ res.finalized =>
                      /\ res.provider \in Offer[res.round]
                      /\ \A k \in 0..MaxRounds : k < res.round => Offer[k] = {}
               /\ ~res.finalized => \A k \in 0..MaxRounds : k < MaxRounds => Offer[k] = {}
    <3>1. Ended(rt) /\ RtInv(rt)
      BY <2>1, <2>4, AloneFacts DEF InPhase, AtDone
    <3>2. CASE rt.log.finalized
      <4>1. res = [finalized |-> TRUE, round |-> Round(rt), provider |-> Best(rt)]
        BY <3>1, <3>2, FinalOutcome
      <4>2. RoundSucceeds(rt.scenario, Round(rt))
        BY <3>1, <3>2 DEF Ended
      <4> HIDE DEF res
      <4> QED  BY <2>2, <2>3, <4>1, <4>2
    <3>3. CASE ~rt.log.finalized
      <4>1. ~res.finalized
        BY <3>3 DEF OutcomeOf
      <4>2. Round(rt) = MaxRounds
        BY <3>1, <3>3 DEF Ended
      <4> HIDE DEF res
      <4> QED  BY <2>3, <4>1, <4>2
    <3> QED  BY <3>2, <3>3
  <2> HIDE DEF res
  <2> QED  BY <2>4 DEF Abstract!FirstChance, Offer, res
<1> QED  BY <1>1, LocalIsInvariant, PTL

-----------------------------------------------------------------------------
(* What an attack leaves behind.  An event is over long before the run is:  *)
(* what it owes the log is owed from the round's start, while its message   *)
(* is on the bus, until the drain loop refuses that message.                *)

\* The run has entered round k.
Begun(r, k) == k < Round(r) \/ (k = Round(r) /\ k < MaxRounds /\ r.phase # "loop")

\* Agent n sends its commitment of round k twice; it sends that of round j again.
Doubles(r, n, k) ==
    \E e \in r.scenario : e.kind = "double_commit" /\ e.node = n /\ e.round = k
Replays(r, n, j, k) ==
    \E e \in r.scenario : /\ e.kind = "replay_prior_commitment" /\ e.node = n
                          /\ e.round = k /\ e.from_round = j

\* What agent n sends again of round j: the old record with a new label.
ReplayedMessage(r, n, j) == message(n, "commitment", relabel(build_commitment(n, j), Round(r)))

\* Orders on a bus: x is on it, twice, or before every y.
On(s, x) == \E i \in DOMAIN s : s[i] = x
Twice(s, x) == \E i, j \in DOMAIN s : i < j /\ s[i] = x /\ s[j] = x
Precedes(s, x, y) == \A i \in DOMAIN s : s[i] = y => \E h \in DOMAIN s : h < i /\ s[h] = x

\* Whatever was said can be replayed.
SpokenKept(r) ==
    \A n \in Nodes, k \in RoundIds :
        Begun(r, k) /\ Speaks(r, n, k) => build_commitment(n, k) \in r.historical_commitments

\* A silent node of a round is named as the round begins.
DropsTraced(r) ==
    \A n \in Nodes, k \in RoundIds :
        Begun(r, k) /\ ~Speaks(r, n, k) => Rejected(r.log, k, n, "commitment", "node_dropped")

\* A replay is named, or about to be: it is on the bus ahead of the node's own
\* commitment, which would otherwise be stored first and make it a duplicate.
ReplayComing(r, b, n, j) ==
    /\ ~Accepted(r, n) /\ On(b, ReplayedMessage(r, n, j))
    /\ Precedes(b, ReplayedMessage(r, n, j), OwnMessage(r, n))
ReplaysTraced(r, b) ==
    \A n \in Nodes, j, k \in RoundIds :
        Begun(r, k) /\ j < k /\ Speaks(r, n, j) /\ Replays(r, n, j, k) =>
            \/ Rejected(r.log, k, n, "commitment", "replay_detected")
            \/ k = Round(r) /\ r.phase = "commit" /\ ReplayComing(r, b, n, j)

\* A second copy is named, or about to be: two are on the bus, or one that
\* comes after the commitment was accepted.
CopyComing(r, b, n) ==
    Twice(b, OwnMessage(r, n)) \/ (Accepted(r, n) /\ On(b, OwnMessage(r, n)))
DoublesTraced(r, b) ==
    \A n \in Nodes, k \in RoundIds :
        Begun(r, k) /\ Speaks(r, n, k) /\ Doubles(r, n, k) =>
            \/ Rejected(r.log, k, n, "commitment", "duplicate_commitment")
            \/ k = Round(r) /\ r.phase = "commit" /\ CopyComing(r, b, n)

\* A sabotaged proof of a participant is named, or yet to leave the bus.
ProofComing(r, b, n) ==
    r.phase = "proposal" \/ (r.phase = "proof" /\ On(b, ProofMessage(r, n, Round(r))))
ProofsTraced(r, b) ==
    \A i \in DOMAIN r.log.proposals : LET p == r.log.proposals[i] IN
        \A n \in {p.candidate_requester, p.candidate_provider} :
            ProofIsSabotaged(r.scenario, n, p.round) =>
                \/ Rejected(r.log, p.round, n, "proof", "public_inputs_mismatch")
                \/ p.round = Round(r) /\ ProofComing(r, b, n)

\* The inductive invariant behind AttacksLeaveTrace, next to LocalInv.
Traced(r, b) == /\ SpokenKept(r) /\ DropsTraced(r) /\ ReplaysTraced(r, b)
                /\ DoublesTraced(r, b) /\ ProofsTraced(r, b)

-----------------------------------------------------------------------------
(* Orders on sequences.                                                    *)

\* The ends of a sequence.
LEMMA HeadAndTail ==
    ASSUME NEW S, NEW s \in Seq(S), s # <<>>
    PROVE  /\ 1 \in DOMAIN s /\ Head(s) = s[1] /\ Head(s) \in S /\ Tail(s) \in Seq(S)
           /\ \A i \in DOMAIN s : /\ i \in Nat /\ i >= 1
                                  /\ i # 1 => i - 1 \in DOMAIN Tail(s) /\ Tail(s)[i - 1] = s[i]
           /\ \A i \in DOMAIN Tail(s) :
                  i \in Nat /\ i + 1 \in DOMAIN s /\ s[i + 1] = Tail(s)[i]
<1>1. /\ 1 \in DOMAIN s /\ Head(s) = s[1] /\ Head(s) \in S /\ Tail(s) \in Seq(S)
      /\ DOMAIN s = 1..Len(s) /\ DOMAIN Tail(s) = 1..(Len(s) - 1) /\ Len(s) \in Nat /\ Len(s) > 0
      /\ \A i \in 1..(Len(s) - 1) : Tail(s)[i] = s[i + 1]
  OBVIOUS
<1>2. ASSUME NEW i \in DOMAIN s, i # 1
      PROVE  i - 1 \in DOMAIN Tail(s) /\ Tail(s)[i - 1] = s[i]
  <2>1. i - 1 \in 1..(Len(s) - 1) /\ (i - 1) + 1 = i
    BY <1>1, <1>2
  <2> QED  BY <1>1, <2>1
<1>3. ASSUME NEW i \in DOMAIN Tail(s)
      PROVE  i \in Nat /\ i + 1 \in DOMAIN s /\ s[i + 1] = Tail(s)[i]
  BY <1>1
<1>4. \A i \in DOMAIN s : i \in Nat /\ i >= 1
  BY <1>1
<1> QED  BY <1>1, <1>2, <1>3, <1>4

\* What taking the front away leaves of an order.
LEMMA TailOrders ==
    ASSUME NEW S, NEW s \in Seq(S), s # <<>>, NEW x, NEW y
    PROVE  /\ On(s, x) => Head(s) = x \/ On(Tail(s), x)
           /\ Twice(s, x) => Twice(Tail(s), x) \/ (Head(s) = x /\ On(Tail(s), x))
           /\ (Precedes(s, x, y) /\ Head(s) # x) => Head(s) # y /\ Precedes(Tail(s), x, y)
<1>1. ASSUME On(s, x) PROVE Head(s) = x \/ On(Tail(s), x)
  <2>1. PICK i \in DOMAIN s : s[i] = x
    BY <1>1 DEF On
  <2>2. CASE i = 1
    BY <2>1, <2>2, HeadAndTail
  <2>3. CASE i # 1
    <3>1. i - 1 \in DOMAIN Tail(s) /\ Tail(s)[i - 1] = x
      BY <2>1, <2>3, HeadAndTail
    <3> QED  BY <3>1 DEF On
  <2> QED  BY <2>2, <2>3
<1>2. ASSUME Twice(s, x) PROVE Twice(Tail(s), x) \/ (Head(s) = x /\ On(Tail(s), x))
  <2>1. PICK i \in DOMAIN s, j \in DOMAIN s : i < j /\ s[i] = x /\ s[j] = x
    BY <1>2 DEF Twice
  <2>2. i \in Nat /\ j \in Nat /\ i >= 1 /\ j >= 1 /\ j # 1
    BY <2>1, HeadAndTail
  <2>3. j - 1 \in DOMAIN Tail(s) /\ Tail(s)[j - 1] = x
    BY <2>1, <2>2, HeadAndTail
  <2>4. CASE i = 1
    BY <2>1, <2>3, <2>4, HeadAndTail DEF On
  <2>5. CASE i # 1
    <3>1. i - 1 \in DOMAIN Tail(s) /\ Tail(s)[i - 1] = x
      BY <2>1, <2>5, HeadAndTail
    <3>2. i - 1 < j - 1
      BY <2>1, <2>2
    <3> QED  BY <2>3, <3>1, <3>2 DEF Twice
  <2> QED  BY <2>4, <2>5
<1>3. ASSUME Precedes(s, x, y), Head(s) # x PROVE Head(s) # y /\ Precedes(Tail(s), x, y)
  <2>1. Head(s) # y
    <3>1. ASSUME Head(s) = y PROVE FALSE
      <4>1. PICK h \in DOMAIN s : h < 1
        BY <1>3, <3>1, HeadAndTail DEF Precedes
      <4> QED  BY <4>1, HeadAndTail
    <3> QED  BY <3>1
  <2>2. ASSUME NEW i \in DOMAIN Tail(s), Tail(s)[i] = y
        PROVE  \E h \in DOMAIN Tail(s) : h < i /\ Tail(s)[h] = x
    <3>1. i \in Nat /\ i + 1 \in DOMAIN s /\ s[i + 1] = y
      BY <2>2, HeadAndTail
    <3>2. PICK h \in DOMAIN s : h < i + 1 /\ s[h] = x
      BY <1>3, <3>1 DEF Precedes
    <3>3. h \in Nat /\ h # 1 /\ h - 1 \in DOMAIN Tail(s) /\ Tail(s)[h - 1] = x
      BY <1>3, <3>2, HeadAndTail
    <3>4. h - 1 < i
      BY <3>1, <3>2, <3>3
    <3> QED  BY <3>3, <3>4
  <2> QED  BY <2>1, <2>2 DEF Precedes
<1> QED  BY <1>1, <1>2, <1>3

\* The places of a concatenation.
LEMMA ConcatPlaces ==
    ASSUME NEW S, NEW a \in Seq(S), NEW b \in Seq(S)
    PROVE  /\ a \o b \in Seq(S) /\ Len(a) \in Nat
           /\ \A i \in DOMAIN a : /\ i \in Nat /\ i >= 1 /\ i <= Len(a)
                                  /\ i \in DOMAIN (a \o b) /\ (a \o b)[i] = a[i]
           /\ \A i \in DOMAIN b : /\ i \in Nat /\ i >= 1
                                  /\ Len(a) + i \in DOMAIN (a \o b) /\ (a \o b)[Len(a) + i] = b[i]
           /\ \A k \in DOMAIN (a \o b) :
                  \/ k \in DOMAIN a
                  \/ \E i \in DOMAIN b : k = Len(a) + i
<1>1. /\ a \o b \in Seq(S) /\ Len(a) \in Nat /\ Len(b) \in Nat
      /\ DOMAIN a = 1..Len(a) /\ DOMAIN b = 1..Len(b) /\ DOMAIN (a \o b) = 1..(Len(a) + Len(b))
  OBVIOUS
<1>2. \A i \in DOMAIN a : i \in DOMAIN (a \o b) /\ (a \o b)[i] = a[i]
  OBVIOUS
<1>3. \A i \in DOMAIN b : Len(a) + i \in DOMAIN (a \o b) /\ (a \o b)[Len(a) + i] = b[i]
  OBVIOUS
<1>4. ASSUME NEW k \in DOMAIN (a \o b), k \notin DOMAIN a
      PROVE  \E i \in DOMAIN b : k = Len(a) + i
  <2>1. k - Len(a) \in DOMAIN b /\ k = Len(a) + (k - Len(a))
    BY <1>1, <1>4
  <2> QED  BY <2>1
<1> QED  BY <1>1, <1>2, <1>3, <1>4

\* Concatenation keeps what is twice on a part, and a precedence of both.
LEMMA ConcatOrders ==
    ASSUME NEW S, NEW a \in Seq(S), NEW b \in Seq(S), NEW x, NEW y
    PROVE  /\ On(a, x) \/ On(b, x) => On(a \o b, x)
           /\ Twice(a, x) \/ Twice(b, x) => Twice(a \o b, x)
           /\ Precedes(a, x, y) /\ Precedes(b, x, y) => Precedes(a \o b, x, y)
           /\ Precedes(a, x, y) /\ On(a, x) => Precedes(a \o b, x, y)
<1> DEFINE c == a \o b
<1>1. /\ Len(a) \in Nat
      /\ \A i \in DOMAIN a : i \in Nat /\ i >= 1 /\ i <= Len(a) /\ i \in DOMAIN c /\ c[i] = a[i]
      /\ \A i \in DOMAIN b : i \in Nat /\ i >= 1 /\ Len(a) + i \in DOMAIN c /\ c[Len(a) + i] = b[i]
      /\ \A k \in DOMAIN c : k \in DOMAIN a \/ \E i \in DOMAIN b : k = Len(a) + i
  BY ConcatPlaces, SMTT(20)
<1> HIDE DEF c
<1>2. On(a, x) \/ On(b, x) => On(c, x)
  BY <1>1 DEF On
<1>3. ASSUME Twice(a, x) PROVE Twice(c, x)
  BY <1>1, <1>3 DEF Twice
<1>4. ASSUME Twice(b, x) PROVE Twice(c, x)
  <2>1. PICK i \in DOMAIN b, j \in DOMAIN b : i < j /\ b[i] = x /\ b[j] = x
    BY <1>4 DEF Twice
  <2>2. Len(a) + i < Len(a) + j
    BY <1>1, <2>1
  <2> QED  BY <1>1, <2>1, <2>2 DEF Twice
<1>5. ASSUME Precedes(a, x, y), Precedes(b, x, y) \/ On(a, x) PROVE Precedes(c, x, y)
  <2> SUFFICES ASSUME NEW k \in DOMAIN c, c[k] = y
               PROVE  \E h \in DOMAIN c : h < k /\ c[h] = x
    BY DEF Precedes
  <2>1. CASE k \in DOMAIN a
    <3>1. PICK h \in DOMAIN a : h < k /\ a[h] = x
      BY <1>1, <1>5, <2>1 DEF Precedes
    <3> QED  BY <1>1, <3>1
  <2>2. CASE k \notin DOMAIN a
    <3>1. PICK i \in DOMAIN b : k = Len(a) + i
      BY <1>1, <2>2
    <3>2. b[i] = y /\ i \in Nat /\ i >= 1
      BY <1>1, <3>1
    <3>3. CASE Precedes(b, x, y)
      <4>1. PICK h \in DOMAIN b : h < i /\ b[h] = x
        BY <3>2, <3>3 DEF Precedes
      <4>2. Len(a) + h \in DOMAIN c /\ c[Len(a) + h] = x /\ Len(a) + h < k
        BY <1>1, <3>1, <3>2, <4>1
      <4> QED  BY <4>2
    <3>4. CASE On(a, x)
      <4>1. PICK h \in DOMAIN a : a[h] = x
        BY <3>4 DEF On
      <4>2. h \in DOMAIN c /\ c[h] = x /\ h < k
        BY <1>1, <3>1, <3>2, <4>1
      <4> QED  BY <4>2
    <3> QED  BY <1>5, <3>3, <3>4
  <2> QED  BY <2>1, <2>2
<1> QED  BY <1>2, <1>3, <1>4, <1>5 DEF c

\* FlattenSeq appends its parts one after the other.
LEMMA FlattenSteps ==
    ASSUME NEW S, NEW s \in Seq(Seq(S)), Len(s) > 0
    PROVE  \E F : /\ F[1] = s[1] /\ FlattenSeq(s) = F[Len(s)]
                  /\ \A i \in 2..Len(s) : F[i] = F[i - 1] \o s[i]
<1> DEFINE n == Len(s)
           Solves(f) == f = [i \in 1..n |-> IF i = 1 THEN s[i] ELSE f[i - 1] \o s[i]]
           F == CHOOSE f : Solves(f)
<1>1. n \in Nat /\ n > 0
  OBVIOUS
<1>2. Solves(F)
  <2>1. \E f : Solves(f)
    BY <1>1, FlattenExists
  <2> QED  BY <2>1
<1>3. FlattenSeq(s) = F[n]
  BY <1>1 DEF FlattenSeq
<1> HIDE DEF F
<1>4. \A i \in 1..n : F[i] = IF i = 1 THEN s[i] ELSE F[i - 1] \o s[i]
  BY <1>2
<1>5. F[1] = s[1]
  BY <1>1, <1>4
<1>6. ASSUME NEW i \in 2..n PROVE F[i] = F[i - 1] \o s[i]
  <2>1. i \in 1..n /\ i # 1
    BY <1>1
  <2> QED  BY <1>4, <2>1
<1> QED  BY <1>3, <1>5, <1>6

\* What is twice on a part is twice on the whole, and what precedes on every
\* part precedes on the whole.
LEMMA FlattenOrders ==
    ASSUME NEW S, NEW s \in Seq(Seq(S)), Len(s) > 0, NEW x, NEW y
    PROVE  /\ (\E i \in DOMAIN s : Twice(s[i], x)) => Twice(FlattenSeq(s), x)
           /\ (\A i \in DOMAIN s : Precedes(s[i], x, y)) => Precedes(FlattenSeq(s), x, y)
<1> DEFINE n == Len(s)
<1>1. PICK F : /\ F[1] = s[1] /\ FlattenSeq(s) = F[n]
               /\ \A i \in 2..n : F[i] = F[i - 1] \o s[i]
  BY FlattenSteps
<1>2. n \in Nat /\ n > 0 /\ DOMAIN s = 1..n /\ \A i \in 1..n : s[i] \in Seq(S)
  OBVIOUS
<1> DEFINE Holds(m) ==
               /\ F[m] \in Seq(S)
               /\ (\E i \in 1..m : Twice(s[i], x)) => Twice(F[m], x)
               /\ (\A i \in 1..m : Precedes(s[i], x, y)) => Precedes(F[m], x, y)
           T == {m \in 1..n : ~Holds(m)}
<1> HIDE DEF n
<1>3. ASSUME T # {} PROVE FALSE
  <2>1. PICK m \in T : \A k \in T : m <= k
    <3>1. T \subseteq Nat
      BY <1>2
    <3> HIDE DEF T
    <3> QED  BY <1>3, <3>1, SmallestNat
  <2>2. m \in 1..n /\ ~Holds(m)
    BY <2>1
  <2>3. CASE m = 1
    <3>1. F[m] \in Seq(S) /\ \A i \in 1..m : s[i] = F[m]
      BY <1>1, <1>2, <2>3
    <3>2. 1 \in 1..m
      BY <2>3
    <3> QED  BY <2>2, <3>1, <3>2
  <2>4. CASE m # 1
    <3>1. m - 1 \in 1..n /\ m \in 2..n /\ m - 1 < m
      BY <1>2, <2>2, <2>4
    <3>2. m - 1 \notin T
      <4> HIDE DEF T
      <4>1. m \in Nat
        BY <2>2, <1>2
      <4> QED  BY <2>1, <3>1, <4>1
    <3>3. Holds(m - 1)
      BY <3>1, <3>2
    <3>4. F[m] = F[m - 1] \o s[m] /\ s[m] \in Seq(S)
      BY <1>1, <1>2, <2>2, <3>1
    <3>5. \A i \in 1..m : i = m \/ i \in 1..(m - 1)
      BY <1>2, <2>2
    <3>6. m \in 1..m /\ \A i \in 1..(m - 1) : i \in 1..m
      BY <1>2, <2>2
    <3> DEFINE a == F[m - 1]
               b == s[m]
               c == F[m]
    <3>7. a \in Seq(S) /\ b \in Seq(S) /\ c = a \o b
      BY <3>3, <3>4
    <3>8. (\E i \in 1..(m - 1) : Twice(s[i], x)) => Twice(a, x)
      BY <3>3
    <3>9. (\A i \in 1..(m - 1) : Precedes(s[i], x, y)) => Precedes(a, x, y)
      BY <3>3
    <3> HIDE DEF a, c
    <3>10. c \in Seq(S)
      BY <3>7, ConcatProperties
    <3>11. (\E i \in 1..m : Twice(s[i], x)) => Twice(c, x)
      BY <3>5, <3>7, <3>8, ConcatOrders
    <3>12. (\A i \in 1..m : Precedes(s[i], x, y)) => Precedes(c, x, y)
      BY <3>6, <3>7, <3>9, ConcatOrders
    <3> QED  BY <2>2, <3>10, <3>11, <3>12 DEF c
  <2> QED  BY <2>3, <2>4
<1>4. Holds(n)
  <2>1. n \in 1..n /\ n \notin T
    <3> HIDE DEF T
    <3> QED  BY <1>2, <1>3
  <2> QED  BY <2>1
<1> QED  BY <1>1, <1>2, <1>4

-----------------------------------------------------------------------------
(* What a step leaves of the rejections, the proposals and the records that *)
(* can be replayed.                                                         *)

\* The rejections only grow.
Grows(r, r2) ==
    \A i \in DOMAIN r.log.rejections :
        i \in DOMAIN r2.log.rejections /\ r2.log.rejections[i] = r.log.rejections[i]
Remembers(r, r2) ==
    /\ r2.scenario = r.scenario /\ r2.historical_commitments = r.historical_commitments
    /\ Grows(r, r2)
Quiet(r, r2) == Remembers(r, r2) /\ r2.log.proposals = r.log.proposals

\* A refused message is named by a rejection, besides the earlier ones.
LEMMA RejectAdds ==
    ASSUME NEW r \in Runtimes, NEW n, NEW kind, NEW code
    PROVE  LET r2 == reject(r, n, kind, code)
           IN  /\ Quiet(r, r2)
               /\ Rejected(r2.log, Round(r), n, kind, code)
<1>1. PICK x : x = rejection(Round(r), n, kind, code)
  OBVIOUS
<1>2. r.log \in Logs
  BY DEF Runtimes
<1> DEFINE s == r.log.rejections
           s2 == Append(s, x)
<1>3. s \in Seq(Rejections \cup {x})
  <2>1. s \in Seq(Rejections)
    BY <1>2 DEF Logs
  <2> QED  BY <2>1
<1> HIDE DEF s
<1>4. /\ \A i \in DOMAIN s : i \in DOMAIN s2 /\ s2[i] = s[i]
      /\ Len(s) + 1 \in DOMAIN s2 /\ s2[Len(s) + 1] = x
  BY <1>3
<1> HIDE DEF s2
<1>5. PICK log2 : log2 = append_rejection(r.log, r.round_machine.current, n, kind, code)
  OBVIOUS
<1>6. log2.rejections = s2 /\ log2.proposals = r.log.proposals
  BY <1>1, <1>2, <1>5 DEF append_rejection, Logs, Round, s, s2
<1>7. reject(r, n, kind, code) = [r EXCEPT !.log = log2]
  BY <1>5 DEF reject
<1>8. PICK r2 : r2 = reject(r, n, kind, code)
  OBVIOUS
<1>9. /\ r2.log = log2 /\ r2.scenario = r.scenario
      /\ r2.historical_commitments = r.historical_commitments
  BY <1>7, <1>8 DEF Runtimes
<1>10. Grows(r, r2)
  BY <1>4, <1>6, <1>9 DEF Grows, s
<1>11. Rejected(r2.log, Round(r), n, kind, code)
  BY <1>1, <1>4, <1>6, <1>9 DEF Rejected
<1> QED  BY <1>6, <1>8, <1>9, <1>10, <1>11 DEF Quiet, Remembers

\* A step that leaves the rejections alone, and two that do not lose any.
LEMMA GrowsFacts ==
    ASSUME NEW r, NEW r2, NEW r3
    PROVE  /\ r2.log.rejections = r.log.rejections => Grows(r, r2)
           /\ Grows(r, r2) /\ Grows(r2, r3) => Grows(r, r3)
           /\ Grows(r, r2) => \A k, n, kind, code :
                  Rejected(r.log, k, n, kind, code) => Rejected(r2.log, k, n, kind, code)
<1>1. r2.log.rejections = r.log.rejections => Grows(r, r2)
  BY DEF Grows
<1>2. Grows(r, r2) /\ Grows(r2, r3) => Grows(r, r3)
  BY DEF Grows
<1>3. ASSUME Grows(r, r2), NEW k, NEW n, NEW kind, NEW code, Rejected(r.log, k, n, kind, code)
      PROVE  Rejected(r2.log, k, n, kind, code)
  BY <1>3 DEF Grows, Rejected
<1> QED  BY <1>1, <1>2, <1>3

\* Draining a message adds at most a rejection, and a proposal only where
\* proposals are drained.
LEMMA DrainLeaves ==
    ASSUME NEW r, RtInv(r), Draining(r), NEW msg \in Messages
    PROVE  LET r2 == Drain(r, msg)
           IN  /\ Remembers(r, r2)
               /\ r.phase # "proposal" => Quiet(r, r2)
<1> DEFINE m == r.round_machine
           rec == msg.rec
<1>1. r \in Runtimes /\ m \in Machine /\ r.log \in Logs
  BY DEF RtInv, Runtimes
<1>2. ASSUME NEW d, \E n, kind, code : d = reject(r, n, kind, code)
      PROVE  Quiet(r, d) /\ Remembers(r, d)
  BY <1>1, <1>2, RejectAdds DEF Quiet
<1>3. /\ append_commitment(r.log, rec).rejections = r.log.rejections
      /\ append_commitment(r.log, rec).proposals = r.log.proposals
      /\ append_proposal(r.log, rec).rejections = r.log.rejections
      /\ append_proof(r.log, rec).rejections = r.log.rejections
      /\ append_proof(r.log, rec).proposals = r.log.proposals
      /\ append_receipt(r.log, rec).rejections = r.log.rejections
      /\ append_receipt(r.log, rec).proposals = r.log.proposals
  BY <1>1 DEF append_commitment, append_proposal, append_proof, append_receipt, Logs
<1>4. ASSUME NEW d, NEW m2, NEW log2, log2.rejections = r.log.rejections,
             d = [r EXCEPT !.round_machine = m2, !.log = log2]
      PROVE  Remembers(r, d) /\ (log2.proposals = r.log.proposals => Quiet(r, d))
  <2>1. /\ d.log = log2 /\ d.scenario = r.scenario
        /\ d.historical_commitments = r.historical_commitments
    BY <1>1, <1>4 DEF Runtimes
  <2>2. d.log.rejections = r.log.rejections
    BY <1>4, <2>1
  <2>3. Grows(r, d)
    BY <2>2, GrowsFacts
  <2> QED  BY <2>1, <2>3 DEF Remembers, Quiet
<1>5. CASE r.phase = "commit"
  <2>1. ASSUME msg.type = "commitment", commitment_result(m, rec) = "ok"
        PROVE  ~LogHasCommitment(r.log, rec.node_id, rec.round)
    <3>1. rec \in CommitmentRecord
      BY <2>1, MessageFacts DEF SentCommitments
    <3> QED  BY <1>1, <2>1, <3>1, NeverLogDuplicate DEF RtInv
  <2>2. PICK d : d = drain_commitment(r, msg)
    OBVIOUS
  <2>3. \/ \E n, kind, code : d = reject(r, n, kind, code)
        \/ d = [r EXCEPT !.round_machine = accept_commitment(m, rec),
                         !.log = append_commitment(r.log, rec)]
    BY <1>1, <2>1, <2>2, Zenon DEF drain_commitment
  <2>4. ASSUME d = [r EXCEPT !.round_machine = accept_commitment(m, rec),
                             !.log = append_commitment(r.log, rec)]
        PROVE  Quiet(r, d) /\ Remembers(r, d)
    BY <1>3, <1>4, <2>4 DEF Quiet
  <2>5. Quiet(r, d) /\ Remembers(r, d)
    BY <1>2, <2>3, <2>4
  <2> QED  BY <1>5, <2>2, <2>5 DEF Drain
<1>6. CASE r.phase = "proposal"
  <2>1. PICK d : d = drain_proposal(r, msg)
    OBVIOUS
  <2>2. \/ \E n, kind, code : d = reject(r, n, kind, code)
        \/ d = [r EXCEPT !.round_machine = accept_proposal(m, rec),
                         !.log = append_proposal(r.log, rec)]
    BY <2>1, Zenon DEF drain_proposal
  <2>3. ASSUME d = [r EXCEPT !.round_machine = accept_proposal(m, rec),
                             !.log = append_proposal(r.log, rec)]
        PROVE  Remembers(r, d)
    BY <1>3, <1>4, <2>3
  <2>4. Remembers(r, d)
    BY <1>2, <2>2, <2>3
  <2> QED  BY <1>6, <2>1, <2>4 DEF Drain
<1>7. CASE r.phase = "proof"
  <2>1. PICK d : d = drain_proof(r, msg)
    OBVIOUS
  <2>2. \/ \E n, kind, code : d = reject(r, n, kind, code)
        \/ d = [r EXCEPT !.log = append_proof(@, rec)]
    BY <2>1, Zenon DEF drain_proof
  <2>3. ASSUME d = [r EXCEPT !.log = append_proof(@, rec)]
        PROVE  Quiet(r, d) /\ Remembers(r, d)
    <3>1. d = [r EXCEPT !.round_machine = m, !.log = append_proof(r.log, rec)]
      BY <1>1, <2>3 DEF Runtimes
    <3> QED  BY <1>3, <1>4, <3>1 DEF Quiet
  <2>4. Quiet(r, d) /\ Remembers(r, d)
    BY <1>2, <2>2, <2>3
  <2> QED  BY <1>7, <2>1, <2>4 DEF Drain
<1>8. CASE r.phase = "receipt"
  <2>1. PICK d : d = drain_receipt(r, msg)
    OBVIOUS
  <2>2. \/ \E n, kind, code : d = reject(r, n, kind, code)
        \/ d = [r EXCEPT !.log = append_receipt(@, rec)]
    BY <2>1, Zenon DEF drain_receipt
  <2>3. ASSUME d = [r EXCEPT !.log = append_receipt(@, rec)]
        PROVE  Quiet(r, d) /\ Remembers(r, d)
    <3>1. d = [r EXCEPT !.round_machine = m, !.log = append_receipt(r.log, rec)]
      BY <1>1, <2>3 DEF Runtimes
    <3> QED  BY <1>3, <1>4, <3>1 DEF Quiet
  <2>4. Quiet(r, d) /\ Remembers(r, d)
    BY <1>2, <2>2, <2>3
  <2> QED  BY <1>8, <2>1, <2>4 DEF Drain
<1> QED  BY <1>5, <1>6, <1>7, <1>8 DEF Draining

\* So does the end of a phase.
LEMMA EndPhaseLeaves ==
    ASSUME NEW r, RtInv(r), Draining(r)
    PROVE  Quiet(r, EndPhase(r).rt)
<1> DEFINE m == r.round_machine
<1>1. r \in Runtimes /\ r.log \in Logs
  BY DEF RtInv, Runtimes
<1>2. \A next : Quiet(r, [r EXCEPT !.phase = next])
  <2> TAKE next
  <2>1. PICK r2 : r2 = [r EXCEPT !.phase = next]
    OBVIOUS
  <2>2. /\ r2.log = r.log /\ r2.scenario = r.scenario
        /\ r2.historical_commitments = r.historical_commitments
    BY <1>1, <2>1 DEF Runtimes
  <2>3. Grows(r, r2)
    BY <2>2, GrowsFacts
  <2> QED  BY <2>1, <2>2, <2>3 DEF Remembers, Quiet
<1>3. ASSUME NEW r1 \in Runtimes, Quiet(r, r1) PROVE Quiet(r, Fallback(r1))
  <2>1. PICK r2 : r2 = Fallback(r1)
    OBVIOUS
  <2>2. /\ r2.log = r1.log /\ r2.scenario = r1.scenario
        /\ r2.historical_commitments = r1.historical_commitments
    BY <2>1 DEF Fallback, Runtimes
  <2>3. Grows(r, r2)
    BY <1>3, <2>2, GrowsFacts DEF Remembers, Quiet
  <2> QED  BY <1>3, <2>1, <2>2, <2>3 DEF Remembers, Quiet
<1>4. Quiet(r, Fallback(r))
  <2>1. Grows(r, r)
    BY GrowsFacts
  <2>2. Quiet(r, r)
    BY <2>1 DEF Remembers, Quiet
  <2> QED  BY <1>1, <1>3, <2>2
<1>5. CASE r.phase = "commit"
  <2>1. EndPhase(r) = end_commit_phase(r)
    BY <1>5 DEF EndPhase
  <2>2. \/ end_commit_phase(r).rt = [r EXCEPT !.phase = "proposal"]
        \/ \E n \in NodeIds, kind \in Kinds, code \in Codes :
               end_commit_phase(r).rt = Fallback(reject(r, n, kind, code))
    BY <1>5, EndCommitShape
  <2>3. ASSUME NEW n \in NodeIds, NEW kind \in Kinds, NEW code \in Codes
        PROVE  Quiet(r, Fallback(reject(r, n, kind, code)))
    <3>1. PICK r1 : r1 = reject(r, n, kind, code)
      OBVIOUS
    <3>2. r1 \in Runtimes
      BY <3>1, RejectKeeps DEF RtInv
    <3>3. Quiet(r, r1)
      BY <1>1, <3>1, RejectAdds
    <3> QED  BY <1>3, <3>1, <3>2, <3>3
  <2> QED  BY <1>2, <2>1, <2>2, <2>3
<1>6. CASE r.phase = "proposal"
  <2>1. EndPhase(r) = end_proposal_phase(r)
    BY <1>6 DEF EndPhase
  <2>2. PICK e : e = end_proposal_phase(r).rt
    OBVIOUS
  <2>3. \/ e = [r EXCEPT !.phase = "proof"]
        \/ e = Fallback(r)
    BY <1>6, <2>2, EndProposalShape
  <2> QED  BY <1>2, <1>4, <2>1, <2>2, <2>3, SMTT(20)
<1>7. CASE r.phase = "proof"
  <2>1. EndPhase(r) = end_proof_phase(r)
    BY <1>7 DEF EndPhase
  <2>2. PICK e : e = end_proof_phase(r).rt
    OBVIOUS
  <2>3. \/ e = [r EXCEPT !.phase = "receipt"]
        \/ e = Fallback(r)
    BY <1>7, <2>2, EndProofShape
  <2> QED  BY <1>2, <1>4, <2>1, <2>2, <2>3
<1>8. CASE r.phase = "receipt"
  <2>1. PICK r2 : r2 = EndPhase(r).rt
    OBVIOUS
  <2>2. PICK log2 : log2 = set_final_round(r.log, m.current, TRUE)
    OBVIOUS
  <2>3. r2 = [r EXCEPT !.phase = "done", !.log = log2]
    BY <1>8, <2>1, <2>2 DEF EndPhase, end_receipt_phase
  <2>4. log2.rejections = r.log.rejections /\ log2.proposals = r.log.proposals
    BY <1>1, <2>2 DEF set_final_round, Logs
  <2>5. /\ r2.log = log2 /\ r2.scenario = r.scenario
        /\ r2.historical_commitments = r.historical_commitments
    BY <1>1, <2>3 DEF Runtimes
  <2>6. Grows(r, r2)
    BY <2>4, <2>5, GrowsFacts
  <2> QED  BY <2>1, <2>4, <2>5, <2>6 DEF Remembers, Quiet
<1> QED  BY <1>5, <1>6, <1>7, <1>8 DEF Draining

\* And the end of the run.
LEMMA EndRunLeaves ==
    ASSUME NEW r \in Runtimes
    PROVE  Quiet(r, end_run(r))
<1>1. PICK r2 : r2 = end_run(r)
  OBVIOUS
<1>2. PICK last : last = IF r.round_machine.current = 0 THEN 0 ELSE r.round_machine.current - 1
  OBVIOUS
<1>3. PICK log2 : log2 = set_abort_reason(set_final_round(r.log, last, FALSE), "max_rounds_exceeded")
  OBVIOUS
<1>4. r2 = [r EXCEPT !.phase = "done", !.log = log2]
  BY <1>1, <1>2, <1>3, Zenon DEF end_run
<1>5. log2.rejections = r.log.rejections /\ log2.proposals = r.log.proposals
  BY <1>3 DEF set_final_round, set_abort_reason, Runtimes, Logs
<1>6. /\ r2.log = log2 /\ r2.scenario = r.scenario
      /\ r2.historical_commitments = r.historical_commitments
  BY <1>4 DEF Runtimes
<1>7. Grows(r, r2)
  BY <1>5, <1>6, GrowsFacts
<1> QED  BY <1>1, <1>5, <1>6, <1>7 DEF Quiet, Remembers

-----------------------------------------------------------------------------
(* The start of a round.                                                   *)

\* An agent sends its replays before its own commitment, and that twice if
\* the scenario says so.
LEMMA AgentOrders ==
    ASSUME NEW r, Alone(r), Known(r), r.phase = "loop", SpokenKept(r), NEW n \in Nodes
    PROVE  LET s == AgentMessages(r, n, Round(r))
           IN  /\ \A j \in RoundIds :
                      j < Round(r) /\ Speaks(r, n, j) /\ Replays(r, n, j, Round(r)) =>
                          /\ On(s, ReplayedMessage(r, n, j))
                          /\ Precedes(s, ReplayedMessage(r, n, j), OwnMessage(r, n))
               /\ Speaks(r, n, Round(r)) /\ Doubles(r, n, Round(r)) => Twice(s, OwnMessage(r, n))
               /\ \A i \in DOMAIN s : s[i].origin = n
<1> DEFINE k        == Round(r)
           events   == events_for_round(r.scenario, n, k)
           replayed == {h \in r.historical_commitments :
                           \E e \in events : /\ e.kind = "replay_prior_commitment"
                                             /\ h.node_id = n
                                             /\ h.round = e.from_round}
           msgs     == {message(n, "commitment", relabel(h, k)) : h \in replayed}
           own      == <<message(n, "commitment", build_commitment(n, k))>>
           doubled  == \E e \in events : e.kind = "double_commit"
           more     == IF doubled THEN own ELSE <<>>
           rest     == IF has_dropped(r.scenario, n, k) THEN <<>> ELSE own \o more
           O        == {x \in Offered(r) \cup {OwnMessage(r, n)} : x.origin = n}
<1>1. AgentMessages(r, n, k) = SetToSeq(msgs) \o rest
  BY Zenon DEF AgentMessages
<1>2. doubled <=> Doubles(r, n, k)
  BY DEF events_for_round, Doubles
<1>3. ASSUME NEW j \in RoundIds, j < k, Speaks(r, n, j), Replays(r, n, j, k)
      PROVE  ReplayedMessage(r, n, j) \in msgs
  <2> DEFINE h == build_commitment(n, j)
  <2>1. h \in r.historical_commitments
    BY <1>3 DEF SpokenKept, Begun
  <2>2. h.node_id = n /\ h.round = j
    BY DEF build_commitment
  <2>3. \E e \in events : e.kind = "replay_prior_commitment" /\ e.from_round = j
    BY <1>3 DEF Replays, events_for_round
  <2> HIDE DEF h, events
  <2>4. h \in replayed
    BY <2>1, <2>2, <2>3
  <2> QED  BY <2>4 DEF ReplayedMessage, h
<1>4. \A h \in replayed : h \in r.historical_commitments /\ h.node_id = n
  OBVIOUS
<1> HIDE DEF replayed
<1>5. \A x \in msgs : x \in Offered(r) /\ x.origin = n /\ x # OwnMessage(r, n)
  BY <1>4, ReplayIsOffer, AloneFacts
<1> HIDE DEF msgs, events
<1>6. PICK q : q = SetToSeq(msgs)
  OBVIOUS
<1>7. q \in Seq(msgs) /\ \A x \in msgs : On(q, x)
  <2>1. IsFiniteSet(msgs)
    <3>1. msgs \subseteq CommitmentMessages
      BY <1>5 DEF Offered
    <3> QED  BY <3>1, CommitmentMessagesFinite, FS_Subset
  <2> QED  BY <1>6, <2>1, SetToSeqLists DEF On
<1>8. q \in Seq(O)
  BY <1>5, <1>7
<1>9. own = <<OwnMessage(r, n)>>
  BY DEF OwnMessage
<1> HIDE DEF own, doubled
<1>10. PICK t : t = rest
  OBVIOUS
<1>11. /\ t \in Seq(O)
       /\ Speaks(r, n, k) /\ Doubles(r, n, k) => Twice(t, OwnMessage(r, n))
  <2>1. PICK x : x = OwnMessage(r, n)
    OBVIOUS
  <2>2. x \in O
    BY <2>1 DEF OwnMessage, message
  <2> HIDE DEF O
  <2>3. own = <<x>>
    BY <1>9, <2>1
  <2>4. own \in Seq(O) /\ more \in Seq(O)
    BY <2>2, <2>3
  <2>5. t \in Seq(O)
    <3> HIDE DEF more
    <3>1. own \o more \in Seq(O)
      BY <2>4, ConcatProperties
    <3> QED  BY <1>10, <3>1
  <2>6. ASSUME Speaks(r, n, k), Doubles(r, n, k) PROVE Twice(t, x)
    <3>1. t = <<x>> \o <<x>>
      BY <1>2, <1>10, <2>3, <2>6 DEF Speaks
    <3>2. 1 \in DOMAIN t /\ 2 \in DOMAIN t /\ t[1] = x /\ t[2] = x
      BY <2>2, <3>1
    <3> QED  BY <3>2 DEF Twice
  <2> QED  BY <2>1, <2>5, <2>6
<1>12. AgentMessages(r, n, k) = q \o t
  BY <1>1, <1>6, <1>10, Zenon
<1> HIDE DEF rest, O
<1>13. ASSUME NEW j \in RoundIds, j < k, Speaks(r, n, j), Replays(r, n, j, k)
       PROVE  /\ On(q \o t, ReplayedMessage(r, n, j))
              /\ Precedes(q \o t, ReplayedMessage(r, n, j), OwnMessage(r, n))
  <2>1. On(q, ReplayedMessage(r, n, j))
    BY <1>3, <1>7, <1>13
  <2>2. \A i \in DOMAIN q : q[i] # OwnMessage(r, n)
    BY <1>5, <1>7
  <2>3. Precedes(q, ReplayedMessage(r, n, j), OwnMessage(r, n))
    BY <2>2 DEF Precedes
  <2> QED  BY <1>8, <1>11, <2>1, <2>3, ConcatOrders
<1>14. ASSUME Speaks(r, n, k), Doubles(r, n, k) PROVE Twice(q \o t, OwnMessage(r, n))
  BY <1>8, <1>11, <1>14, ConcatOrders
<1>15. q \o t \in Seq(O)
  BY <1>8, <1>11, ConcatProperties
<1>16. \A i \in DOMAIN (q \o t) : (q \o t)[i].origin = n
  <2>1. \A s \in Seq(O) : \A i \in DOMAIN s : s[i] \in O
    OBVIOUS
  <2> QED  BY <1>15, <2>1 DEF O
<1> QED  BY <1>12, <1>13, <1>14, <1>16

\* The parts in key order keep what is twice on one of them, and a precedence
\* of all.
LEMMA KeyOrderOrders ==
    ASSUME NEW S, NEW f \in [Nodes -> Seq(S)], NEW x, NEW y
    PROVE  /\ (\E n \in Nodes : Twice(f[n], x)) => Twice(Gathered(Nodes, f), x)
           /\ (\A n \in Nodes : Precedes(f[n], x, y)) => Precedes(Gathered(Nodes, f), x, y)
<1> DEFINE s == [i \in DOMAIN NodeOrder |->
                    IF NodeOrder[i] \in Nodes THEN f[NodeOrder[i]] ELSE <<>>]
<1>1. PICK l \in Nat : /\ DOMAIN NodeOrder = 1..l /\ l > 0
                       /\ \A i \in 1..l : NodeOrder[i] \in Nodes
  <2>1. Len(NodeOrder) \in Nat /\ DOMAIN NodeOrder = 1..Len(NodeOrder) /\ Len(NodeOrder) > 0
        /\ \A i \in 1..Len(NodeOrder) : NodeOrder[i] \in Nodes
    BY NodeOrderLists
  <2> QED  BY <2>1
<1>2. s \in [1..l -> Seq(S)]
  BY <1>1
<1>3. s \in Seq(Seq(S)) /\ Len(s) = l /\ DOMAIN s = 1..l
  BY <1>1, <1>2
<1>4. /\ \A n \in Nodes : \E i \in DOMAIN s : s[i] = f[n]
      /\ \A i \in DOMAIN s : \E n \in Nodes : s[i] = f[n]
  BY <1>1, NodeOrderLists
<1> HIDE DEF s
<1>5. /\ (\E i \in DOMAIN s : Twice(s[i], x)) => Twice(FlattenSeq(s), x)
      /\ (\A i \in DOMAIN s : Precedes(s[i], x, y)) => Precedes(FlattenSeq(s), x, y)
  BY <1>1, <1>3, FlattenOrders
<1>6. Gathered(Nodes, f) = FlattenSeq(s)
  BY Zenon DEF s, Gathered
<1> QED  BY <1>4, <1>5, <1>6

\* So the bus has them in that order when a round begins.
LEMMA BeginOrders ==
    ASSUME NEW r, Alone(r), Known(r), r.phase = "loop", SpokenKept(r), NEW n \in Nodes
    PROVE  LET out == broadcast_commitments(r).out
           IN  /\ \A j \in RoundIds :
                      j < Round(r) /\ Speaks(r, n, j) /\ Replays(r, n, j, Round(r)) =>
                          /\ On(out, ReplayedMessage(r, n, j))
                          /\ Precedes(out, ReplayedMessage(r, n, j), OwnMessage(r, n))
               /\ Speaks(r, n, Round(r)) /\ Doubles(r, n, Round(r)) => Twice(out, OwnMessage(r, n))
<1> DEFINE k == Round(r)
           Sent(x) == AgentMessages(r, x, k)
           f == [x \in Nodes |-> Sent(x)]
           y == OwnMessage(r, n)
<1>1. \A x \in Nodes : Sent(x) \in Seq(Offered(r)) /\ \A i \in DOMAIN Sent(x) : Sent(x)[i].origin = x
  <2>1. ASSUME NEW S, NEW T, T \subseteq S, NEW q \in Seq(T) PROVE q \in Seq(S)
    BY <2>1
  <2>2. ASSUME NEW x \in Nodes
        PROVE  Sent(x) \in Seq(Offered(r)) /\ \A i \in DOMAIN Sent(x) : Sent(x)[i].origin = x
    <3>1. RtInv(r)
      BY AloneFacts
    <3>2. AgentMessages(r, x, Round(r)) \in Seq(Offers(r, x))
      BY <2>2, <3>1, AgentOffers
    <3>3. Offers(r, x) \subseteq Offered(r) /\ \A msg \in Offers(r, x) : msg.origin = x
      BY DEF Offers
    <3>4. PICK q : q = AgentMessages(r, x, Round(r))
      OBVIOUS
    <3>5. q \in Seq(Offered(r)) /\ \A i \in DOMAIN q : q[i].origin = x
      BY <2>1, <3>2, <3>3, <3>4
    <3> QED  BY <3>4, <3>5
  <2> QED  BY <2>2
<1>2. /\ \A j \in RoundIds : j < k /\ Speaks(r, n, j) /\ Replays(r, n, j, k) =>
             /\ On(Sent(n), ReplayedMessage(r, n, j))
             /\ Precedes(Sent(n), ReplayedMessage(r, n, j), y)
      /\ Speaks(r, n, k) /\ Doubles(r, n, k) => Twice(Sent(n), y)
  BY AgentOrders
<1>3. broadcast_commitments(r).out = Gathered(Nodes, f)
  <2>1. broadcast_commitments(r).out = InKeyOrder(r, Sent)
    BY DEF broadcast_commitments, Round
  <2> HIDE DEF Sent
  <2>2. \A i \in DOMAIN NodeOrder : NodeOrder[i] \in Nodes
    BY NodeOrderLists
  <2>3. \A i \in DOMAIN NodeOrder : f[NodeOrder[i]] = Sent(NodeOrder[i])
    BY <2>2
  <2>4. r.agents = Nodes
    BY AloneFacts
  <2>5. [i \in DOMAIN NodeOrder |-> IF NodeOrder[i] \in Nodes THEN f[NodeOrder[i]] ELSE <<>>]
        = [i \in DOMAIN NodeOrder |->
              IF NodeOrder[i] \in r.agents THEN Sent(NodeOrder[i]) ELSE <<>>]
    BY <2>3, <2>4
  <2>6. InKeyOrder(r, Sent) = FlattenSeq([i \in DOMAIN NodeOrder |->
                  IF NodeOrder[i] \in r.agents THEN Sent(NodeOrder[i]) ELSE <<>>])
    BY Zenon DEF InKeyOrder
  <2> QED  BY <2>1, <2>5, <2>6, Zenon DEF Gathered
<1> HIDE DEF Sent
<1>4. f \in [Nodes -> Seq(Offered(r))] /\ \A x \in Nodes : f[x] = Sent(x)
  BY <1>1
<1> HIDE DEF f
<1> DEFINE out == Gathered(Nodes, f)
<1>5. HoldsPart(out, Nodes, f)
  <2>1. Nodes \subseteq Nodes
    OBVIOUS
  <2> QED  BY <1>4, <2>1, KeyOrderCollects
<1>6. ASSUME NEW j \in RoundIds, j < k, Speaks(r, n, j), Replays(r, n, j, k)
      PROVE  On(out, ReplayedMessage(r, n, j)) /\ Precedes(out, ReplayedMessage(r, n, j), y)
  <2> DEFINE x == ReplayedMessage(r, n, j)
  <2>1. On(f[n], x) /\ Precedes(f[n], x, y)
    BY <1>2, <1>4, <1>6
  <2>2. On(out, x)
    BY <1>5, <2>1 DEF HoldsPart, On
  <2>3. ASSUME NEW n2 \in Nodes PROVE Precedes(f[n2], x, y)
    <3>1. CASE n2 = n
      BY <2>1, <3>1
    <3>2. CASE n2 # n
      <4>1. y.origin = n
        BY DEF OwnMessage, message
      <4> HIDE DEF y
      <4>2. \A i \in DOMAIN f[n2] : f[n2][i] # y
        BY <1>1, <1>4, <3>2, <4>1
      <4> QED  BY <4>2 DEF Precedes
    <3> QED  BY <3>1, <3>2
  <2> HIDE DEF x, y
  <2>4. Precedes(out, x, y)
    BY <1>4, <2>3, KeyOrderOrders
  <2> QED  BY <2>2, <2>4 DEF x
<1>7. ASSUME Speaks(r, n, k), Doubles(r, n, k) PROVE Twice(out, y)
  <2>1. Twice(f[n], y)
    BY <1>2, <1>4, <1>7
  <2> HIDE DEF y
  <2> QED  BY <1>4, <2>1, KeyOrderOrders
<1> QED  BY <1>3, <1>6, <1>7

\* The start of a round names whoever has dropped, and loses no rejection.
LEMMA BeginRejects ==
    ASSUME NEW r, Alone(r), r.phase = "loop"
    PROVE  LET r2 == broadcast_commitments(r).rt
           IN  /\ Grows(r, r2) /\ r2.log.proposals = r.log.proposals
               /\ \A n \in Nodes : ~Speaks(r, n, Round(r)) =>
                      Rejected(r2.log, Round(r), n, "commitment", "node_dropped")
<1> DEFINE k == Round(r)
           Named(n) == rejection(k, n, "commitment", "node_dropped")
           Dropped(n) == IF has_dropped(r.scenario, n, k) THEN <<Named(n)>> ELSE <<>>
           f == [n \in Nodes |-> Dropped(n)]
           X == {Named(n) : n \in Nodes}
           s == r.log.rejections
<1>1. r \in Runtimes /\ r.log \in Logs /\ s \in Seq(Rejections)
  BY AloneFacts DEF Logs
<1>2. PICK r2 : r2 = broadcast_commitments(r).rt
  OBVIOUS
<1>3. r2.log.rejections = s \o InKeyOrder(r, Dropped) /\ r2.log.proposals = r.log.proposals
  BY <1>1, <1>2 DEF broadcast_commitments, Runtimes, Logs, Round
<1>4. /\ f \in [Nodes -> Seq(X)]
      /\ \A n \in Nodes : f[n] = Dropped(n)
      /\ \A n \in Nodes : ~Speaks(r, n, k) => 1 \in DOMAIN f[n] /\ f[n][1] = Named(n)
  <2>1. \A n \in Nodes : Named(n) \in X
    OBVIOUS
  <2> HIDE DEF Named, X
  <2>2. \A n \in Nodes : Dropped(n) \in Seq(X)
    BY <2>1
  <2>3. \A n \in Nodes : ~Speaks(r, n, k) => 1 \in DOMAIN Dropped(n) /\ Dropped(n)[1] = Named(n)
    BY DEF Speaks
  <2> HIDE DEF Dropped
  <2> QED  BY <2>2, <2>3
<1>5. InKeyOrder(r, Dropped) = Gathered(Nodes, f)
  <2> HIDE DEF Dropped, f
  <2>1. \A i \in DOMAIN NodeOrder : NodeOrder[i] \in Nodes
    BY NodeOrderLists
  <2>2. \A i \in DOMAIN NodeOrder : f[NodeOrder[i]] = Dropped(NodeOrder[i])
    BY <1>4, <2>1
  <2>3. r.agents = Nodes
    BY AloneFacts
  <2>4. [i \in DOMAIN NodeOrder |-> IF NodeOrder[i] \in Nodes THEN f[NodeOrder[i]] ELSE <<>>]
        = [i \in DOMAIN NodeOrder |->
              IF NodeOrder[i] \in r.agents THEN Dropped(NodeOrder[i]) ELSE <<>>]
    BY <2>2, <2>3
  <2>5. InKeyOrder(r, Dropped) = FlattenSeq([i \in DOMAIN NodeOrder |->
                  IF NodeOrder[i] \in r.agents THEN Dropped(NodeOrder[i]) ELSE <<>>])
    BY Zenon DEF InKeyOrder
  <2> QED  BY <2>4, <2>5, Zenon DEF Gathered
<1> HIDE DEF f, X, s, Dropped
<1> DEFINE named == Gathered(Nodes, f)
<1>6. named \in Seq(X) /\ HoldsPart(named, Nodes, f)
  <2>1. Nodes \subseteq Nodes
    OBVIOUS
  <2> QED  BY <1>4, <2>1, KeyOrderCollects
<1> HIDE DEF named
<1> DEFINE all == s \o named
<1>7. /\ \A i \in DOMAIN s : i \in DOMAIN all /\ all[i] = s[i]
      /\ \A i \in DOMAIN named : Len(s) + i \in DOMAIN all /\ all[Len(s) + i] = named[i]
  <2>1. PICK Y : Y = Rejections \cup X
    OBVIOUS
  <2>2. s \in Seq(Y) /\ named \in Seq(Y)
    BY <1>1, <1>6, <2>1
  <2> QED  BY <2>2, ConcatPlaces, SMTT(20)
<1> HIDE DEF all
<1>8. r2.log.rejections = all
  BY <1>3, <1>5 DEF all, named
<1>9. Grows(r, r2)
  BY <1>7, <1>8 DEF Grows, s
<1>10. ASSUME NEW n \in Nodes, ~Speaks(r, n, k)
       PROVE  Rejected(r2.log, k, n, "commitment", "node_dropped")
  <2>1. PICK i \in DOMAIN named : named[i] = Named(n)
    BY <1>4, <1>6, <1>10 DEF HoldsPart
  <2> QED  BY <1>7, <1>8, <2>1 DEF Rejected
<1> QED  BY <1>2, <1>3, <1>9, <1>10

\* A round that begins keeps the trace: what it owes is on the bus.
LEMMA BeginRoundTraced ==
    ASSUME NEW r, NEW b, Alone(r), Known(r), r.phase = "loop", AtLoop(r, b), ~LoopExhausted(r),
           Traced(r, b)
    PROVE  LET res == broadcast_commitments(r) IN Traced(res.rt, b \o res.out)
<1> DEFINE k == Round(r)
           spoken == {n \in r.agents : ~has_dropped(r.scenario, n, k)}
           out == broadcast_commitments(r).out
<1>1. PICK r2 : r2 = broadcast_commitments(r).rt
  OBVIOUS
<1>2. r \in Runtimes /\ r.agents = Nodes /\ k \in Nat /\ k < MaxRounds
  BY AloneFacts, MaxRoundsAssumption DEF LoopExhausted, Round, MaxRoundsAssumption
<1>3. /\ r2.scenario = r.scenario /\ r2.phase = "commit" /\ r2.round_machine = r.round_machine
      /\ out \in Seq(Messages)
  BY <1>1, BroadcastCommitmentsSound, AloneFacts DEF Sound, Keeps
<1>4. r2.historical_commitments
          = r.historical_commitments \cup {build_commitment(n, k) : n \in spoken}
  BY <1>1, <1>2 DEF broadcast_commitments, Runtimes, Round
<1>5. /\ Grows(r, r2) /\ r2.log.proposals = r.log.proposals
      /\ \A n \in Nodes : ~Speaks(r, n, k) => Rejected(r2.log, k, n, "commitment", "node_dropped")
  BY <1>1, BeginRejects
<1>6. \A x, n, kind, code : Rejected(r.log, x, n, kind, code) => Rejected(r2.log, x, n, kind, code)
  BY <1>5, GrowsFacts
<1>7. b \o out = out
  BY <1>3, ConcatEmptySeq DEF AtLoop
<1>8. /\ Round(r2) = k
      /\ \A n, x : Speaks(r2, n, x) <=> Speaks(r, n, x)
      /\ \A n, x : Doubles(r2, n, x) <=> Doubles(r, n, x)
      /\ \A n, j, x : Replays(r2, n, j, x) <=> Replays(r, n, j, x)
      /\ \A n : OwnMessage(r2, n) = OwnMessage(r, n)
      /\ \A n, j : ReplayedMessage(r2, n, j) = ReplayedMessage(r, n, j)
  BY <1>3 DEF Round, Speaks, Doubles, Replays, OwnMessage, ReplayedMessage
<1>9. \A n \in Nodes : ~Accepted(r2, n)
  BY <1>3 DEF AtLoop, Accepted, NoCommitments
<1>10. /\ \A x \in RoundIds : Begun(r2, x) => Begun(r, x) \/ x = k
       /\ \A x \in RoundIds : Begun(r, x) => x < k
  BY <1>8 DEF Begun
<1> HIDE DEF out
<1>11. /\ SpokenKept(r) /\ DropsTraced(r) /\ ReplaysTraced(r, b) /\ DoublesTraced(r, b)
       /\ ProofsTraced(r, b)
  BY DEF Traced
<1>12. SpokenKept(r2)
  <2> SUFFICES ASSUME NEW n \in Nodes, NEW x \in RoundIds, Begun(r2, x), Speaks(r, n, x)
               PROVE  build_commitment(n, x) \in r2.historical_commitments
    BY <1>8 DEF SpokenKept
  <2>1. CASE Begun(r, x)
    BY <1>4, <1>11, <2>1 DEF SpokenKept
  <2>2. CASE x = k
    BY <1>2, <1>4, <2>2 DEF Speaks
  <2> QED  BY <1>10, <2>1, <2>2
<1>13. DropsTraced(r2)
  <2> SUFFICES ASSUME NEW n \in Nodes, NEW x \in RoundIds, Begun(r2, x), ~Speaks(r, n, x)
               PROVE  Rejected(r2.log, x, n, "commitment", "node_dropped")
    BY <1>8 DEF DropsTraced
  <2>1. CASE Begun(r, x)
    BY <1>6, <1>11, <2>1 DEF DropsTraced
  <2>2. CASE x = k
    BY <1>5, <2>2
  <2> QED  BY <1>10, <2>1, <2>2
<1>14. ReplaysTraced(r2, out)
  <2> SUFFICES ASSUME NEW n \in Nodes, NEW j \in RoundIds, NEW x \in RoundIds,
                      Begun(r2, x), j < x, Speaks(r, n, j), Replays(r, n, j, x)
               PROVE  \/ Rejected(r2.log, x, n, "commitment", "replay_detected")
                      \/ x = k /\ ReplayComing(r2, out, n, j)
    BY <1>3, <1>8 DEF ReplaysTraced
  <2>1. CASE Begun(r, x)
    BY <1>6, <1>10, <1>11, <2>1 DEF ReplaysTraced
  <2>2. CASE x = k
    <3>1. On(out, ReplayedMessage(r, n, j)) /\ Precedes(out, ReplayedMessage(r, n, j), OwnMessage(r, n))
      BY <1>11, <2>2, BeginOrders DEF out
    <3> QED  BY <1>8, <1>9, <2>2, <3>1 DEF ReplayComing
  <2> QED  BY <1>10, <2>1, <2>2
<1>15. DoublesTraced(r2, out)
  <2> SUFFICES ASSUME NEW n \in Nodes, NEW x \in RoundIds,
                      Begun(r2, x), Speaks(r, n, x), Doubles(r, n, x)
               PROVE  \/ Rejected(r2.log, x, n, "commitment", "duplicate_commitment")
                      \/ x = k /\ CopyComing(r2, out, n)
    BY <1>3, <1>8 DEF DoublesTraced
  <2>1. CASE Begun(r, x)
    BY <1>6, <1>10, <1>11, <2>1 DEF DoublesTraced
  <2>2. CASE x = k
    <3>1. Twice(out, OwnMessage(r, n))
      BY <1>11, <2>2, BeginOrders DEF out
    <3> QED  BY <1>8, <2>2, <3>1 DEF CopyComing
  <2> QED  BY <1>10, <2>1, <2>2
<1>16. ProofsTraced(r2, out)
  <2> SUFFICES ASSUME NEW i \in DOMAIN r.log.proposals,
                      NEW n \in {r.log.proposals[i].candidate_requester,
                                 r.log.proposals[i].candidate_provider},
                      ProofIsSabotaged(r.scenario, n, r.log.proposals[i].round)
               PROVE  Rejected(r2.log, r.log.proposals[i].round, n, "proof", "public_inputs_mismatch")
    BY <1>3, <1>5 DEF ProofsTraced
  <2>1. ~ProofComing(r, b, n)
    BY DEF ProofComing
  <2> QED  BY <1>6, <1>11, <2>1 DEF ProofsTraced
<1> QED  BY <1>1, <1>7, <1>12, <1>13, <1>14, <1>15, <1>16 DEF Traced, out

-----------------------------------------------------------------------------
(* Draining the commitments of a round.                                    *)

\* A refused offer leaves the rejection that names what it was.
LEMMA OfferRejected ==
    ASSUME NEW r, Alone(r), Known(r), r.phase = "commit", r.round_machine.proposal = None,
           NEW n \in Nodes
    PROVE  /\ (Accepted(r, n) /\ OwnMessage(r, n) \in Offered(r)) =>
                  Rejected(drain_commitment(r, OwnMessage(r, n)).log, Round(r), n,
                           "commitment", "duplicate_commitment")
           /\ \A j \in RoundIds :
                  LET msg == ReplayedMessage(r, n, j)
                  IN  (j < Round(r) /\ ~Accepted(r, n) /\ msg \in Offered(r)) =>
                          Rejected(drain_commitment(r, msg).log, Round(r), n,
                                   "commitment", "replay_detected")
<1>1. r \in Runtimes /\ Round(r) \in Nat
  BY AloneFacts
<1>2. ASSUME NEW msg \in Offered(r), NEW code, code # "ok", msg.origin = n,
             commitment_result(r.round_machine, msg.rec) = code
      PROVE  Rejected(drain_commitment(r, msg).log, Round(r), n, "commitment", code)
  <2>1. msg.rec.node_id = n /\ msg.type = "commitment"
    BY <1>2, OfferResult, AloneFacts
  <2>2. drain_commitment(r, msg) = reject(r, n, "commitment", code)
    BY <1>2, <2>1 DEF drain_commitment
  <2> QED  BY <1>1, <2>2, RejectAdds
<1>3. ASSUME Accepted(r, n), OwnMessage(r, n) \in Offered(r)
      PROVE  Rejected(drain_commitment(r, OwnMessage(r, n)).log, Round(r), n,
                      "commitment", "duplicate_commitment")
  <2>1. OwnMessage(r, n).origin = n
    BY DEF OwnMessage, message
  <2>2. commitment_result(r.round_machine, OwnMessage(r, n).rec) = "duplicate_commitment"
    BY <1>3, <2>1, OfferResult, AloneFacts
  <2> QED  BY <1>2, <1>3, <2>1, <2>2
<1>4. ASSUME NEW j \in RoundIds, j < Round(r), ~Accepted(r, n), ReplayedMessage(r, n, j) \in Offered(r)
      PROVE  Rejected(drain_commitment(r, ReplayedMessage(r, n, j)).log, Round(r), n,
                      "commitment", "replay_detected")
  <2> DEFINE msg == ReplayedMessage(r, n, j)
  <2>1. msg.origin = n /\ msg.rec.commitment_hex = HashOf(n, j)
    BY DEF ReplayedMessage, message, relabel, build_commitment
  <2>2. OwnMessage(r, n).rec.commitment_hex = HashOf(n, Round(r))
    BY DEF OwnMessage, message, build_commitment
  <2>3. msg # OwnMessage(r, n)
    <3>1. j # Round(r)
      BY <1>1, <1>4 DEF RoundIds
    <3> HIDE DEF msg
    <3> QED  BY <2>1, <2>2, <3>1, HashesDiffer
  <2>4. commitment_result(r.round_machine, msg.rec) = "replay_detected"
    BY <1>4, <2>1, <2>3, OfferResult, AloneFacts
  <2> HIDE DEF msg
  <2> QED  BY <1>2, <1>4, <2>1, <2>4 DEF msg
<1> QED  BY <1>3, <1>4

\* Whatever a drained commitment owed is on the log, what others owe is still
\* on the bus.
LEMMA DrainCommitmentTraced ==
    ASSUME NEW r, NEW b, Alone(r), Known(r), r.phase = "commit", AtCommit(r, b), b # <<>>,
           Traced(r, b)
    PROVE  Traced(drain_commitment(r, Head(b)), Tail(b))
<1> DEFINE k == Round(r)
<1>1. PICK msg : msg = Head(b)
  OBVIOUS
<1>2. PICK r2 : r2 = drain_commitment(r, msg)
  OBVIOUS
<1>3. b \in Seq(Offered(r)) /\ msg \in Offered(r) /\ msg \in Messages /\ r.round_machine.proposal = None
  <2>1. b \in Seq(Offered(r)) /\ r.round_machine.proposal = None
    BY DEF AtCommit
  <2>2. msg \in Offered(r)
    BY <1>1, <2>1, HeadAndTail
  <2> QED  BY <2>1, <2>2 DEF Offered, Messages
<1>4. /\ r2.phase = "commit" /\ Round(r2) = k /\ r2.scenario = r.scenario
      /\ \A n \in Nodes : Accepted(r2, n) <=> Accepted(r, n) \/ msg = OwnMessage(r, n)
  BY <1>2, <1>3, DrainOffer, AloneFacts
<1>5. /\ r2.historical_commitments = r.historical_commitments /\ Grows(r, r2)
      /\ r2.log.proposals = r.log.proposals
  <2>1. r2 = Drain(r, msg) /\ Draining(r) /\ RtInv(r)
    BY <1>2, AloneFacts DEF Drain, Draining
  <2> QED  BY <1>3, <2>1, DrainLeaves DEF Quiet, Remembers
<1>6. \A x, n, kind, code : Rejected(r.log, x, n, kind, code) => Rejected(r2.log, x, n, kind, code)
  BY <1>5, GrowsFacts
<1>7. /\ \A n, x : Speaks(r2, n, x) <=> Speaks(r, n, x)
      /\ \A n, x : Doubles(r2, n, x) <=> Doubles(r, n, x)
      /\ \A n, j, x : Replays(r2, n, j, x) <=> Replays(r, n, j, x)
      /\ \A n : OwnMessage(r2, n) = OwnMessage(r, n)
      /\ \A n, j : ReplayedMessage(r2, n, j) = ReplayedMessage(r, n, j)
      /\ \A x : Begun(r2, x) <=> Begun(r, x)
  BY <1>4 DEF Speaks, Doubles, Replays, OwnMessage, ReplayedMessage, Begun
<1>8. /\ SpokenKept(r) /\ DropsTraced(r) /\ ReplaysTraced(r, b) /\ DoublesTraced(r, b)
      /\ ProofsTraced(r, b)
  BY DEF Traced
<1>9. SpokenKept(r2)
  BY <1>5, <1>7, <1>8 DEF SpokenKept
<1>10. DropsTraced(r2)
  BY <1>6, <1>7, <1>8 DEF DropsTraced
<1>11. ReplaysTraced(r2, Tail(b))
  <2> SUFFICES ASSUME NEW n \in Nodes, NEW j \in RoundIds, NEW x \in RoundIds,
                      Begun(r, x), j < x, Speaks(r, n, j), Replays(r, n, j, x)
               PROVE  \/ Rejected(r2.log, x, n, "commitment", "replay_detected")
                      \/ x = k /\ ReplayComing(r2, Tail(b), n, j)
    BY <1>4, <1>7 DEF ReplaysTraced
  <2>1. \/ Rejected(r.log, x, n, "commitment", "replay_detected")
        \/ x = k /\ ReplayComing(r, b, n, j)
    BY <1>8 DEF ReplaysTraced
  <2>2. CASE x = k /\ ReplayComing(r, b, n, j)
    <3> DEFINE y == ReplayedMessage(r, n, j)
    <3>1. ~Accepted(r, n) /\ On(b, y) /\ Precedes(b, y, OwnMessage(r, n))
      BY <2>2 DEF ReplayComing
    <3>2. CASE msg = y
      BY <1>2, <1>3, <2>2, <3>1, <3>2, OfferRejected
    <3>3. CASE msg # y
      <4> HIDE DEF y
      <4>1. msg # OwnMessage(r, n) /\ On(Tail(b), y) /\ Precedes(Tail(b), y, OwnMessage(r, n))
        BY <1>1, <1>3, <3>1, <3>3, TailOrders
      <4> QED  BY <1>4, <1>7, <2>2, <3>1, <4>1 DEF ReplayComing, y
    <3> QED  BY <3>2, <3>3
  <2> QED  BY <1>6, <2>1, <2>2
<1>12. DoublesTraced(r2, Tail(b))
  <2> SUFFICES ASSUME NEW n \in Nodes, NEW x \in RoundIds,
                      Begun(r, x), Speaks(r, n, x), Doubles(r, n, x)
               PROVE  \/ Rejected(r2.log, x, n, "commitment", "duplicate_commitment")
                      \/ x = k /\ CopyComing(r2, Tail(b), n)
    BY <1>4, <1>7 DEF DoublesTraced
  <2>1. \/ Rejected(r.log, x, n, "commitment", "duplicate_commitment")
        \/ x = k /\ CopyComing(r, b, n)
    BY <1>8 DEF DoublesTraced
  <2>2. CASE x = k /\ CopyComing(r, b, n)
    <3> DEFINE y == OwnMessage(r, n)
    <3>1. Twice(b, y) \/ (Accepted(r, n) /\ On(b, y))
      BY <2>2 DEF CopyComing
    <3>2. CASE Twice(b, y)
      <4> HIDE DEF y
      <4>1. Twice(Tail(b), y) \/ (msg = y /\ On(Tail(b), y))
        BY <1>1, <1>3, <3>2, TailOrders
      <4> QED  BY <1>4, <1>7, <2>2, <4>1 DEF CopyComing, y
    <3>3. CASE Accepted(r, n) /\ On(b, y) /\ msg = y
      BY <1>2, <1>3, <2>2, <3>3, OfferRejected
    <3>4. CASE Accepted(r, n) /\ On(b, y) /\ msg # y
      <4> HIDE DEF y
      <4>1. On(Tail(b), y)
        BY <1>1, <1>3, <3>4, TailOrders
      <4> QED  BY <1>4, <1>7, <2>2, <3>4, <4>1 DEF CopyComing, y
    <3> QED  BY <3>1, <3>2, <3>3, <3>4
  <2> QED  BY <1>6, <2>1, <2>2
<1>13. ProofsTraced(r2, Tail(b))
  <2> SUFFICES ASSUME NEW i \in DOMAIN r.log.proposals,
                      NEW n \in {r.log.proposals[i].candidate_requester,
                                 r.log.proposals[i].candidate_provider},
                      ProofIsSabotaged(r.scenario, n, r.log.proposals[i].round)
               PROVE  Rejected(r2.log, r.log.proposals[i].round, n, "proof", "public_inputs_mismatch")
    BY <1>4, <1>5 DEF ProofsTraced
  <2>1. ~ProofComing(r, b, n)
    BY DEF ProofComing
  <2> QED  BY <1>6, <1>8, <2>1 DEF ProofsTraced
<1> QED  BY <1>1, <1>2, <1>9, <1>10, <1>11, <1>12, <1>13 DEF Traced

-----------------------------------------------------------------------------
(* The other phases.                                                       *)

\* Once no commitment is on the way, what the commitments owed is on the log
\* and stays there.
LEMMA CommitmentsSettled ==
    ASSUME NEW r, NEW b, NEW r2, NEW b2, Traced(r, b), r.phase # "commit" \/ b = <<>>,
           Remembers(r, r2), \A k \in RoundIds : Begun(r2, k) => Begun(r, k)
    PROVE  SpokenKept(r2) /\ DropsTraced(r2) /\ ReplaysTraced(r2, b2) /\ DoublesTraced(r2, b2)
<1>1. /\ r2.scenario = r.scenario /\ r2.historical_commitments = r.historical_commitments
      /\ \A x, n, kind, code : Rejected(r.log, x, n, kind, code) => Rejected(r2.log, x, n, kind, code)
  BY GrowsFacts DEF Remembers
<1>2. /\ \A n, x : Speaks(r2, n, x) <=> Speaks(r, n, x)
      /\ \A n, x : Doubles(r2, n, x) <=> Doubles(r, n, x)
      /\ \A n, j, x : Replays(r2, n, j, x) <=> Replays(r, n, j, x)
  BY <1>1 DEF Speaks, Doubles, Replays
<1>3. SpokenKept(r) /\ DropsTraced(r) /\ ReplaysTraced(r, b) /\ DoublesTraced(r, b)
  BY DEF Traced
<1>4. r.phase = "commit" => \A n, j : ~ReplayComing(r, b, n, j) /\ ~CopyComing(r, b, n)
  BY DEF ReplayComing, CopyComing, On, Twice
<1>5. SpokenKept(r2)
  BY <1>1, <1>2, <1>3 DEF SpokenKept
<1>6. DropsTraced(r2)
  BY <1>1, <1>2, <1>3 DEF DropsTraced
<1>7. ReplaysTraced(r2, b2)
  <2> SUFFICES ASSUME NEW n \in Nodes, NEW j \in RoundIds, NEW k \in RoundIds,
                      Begun(r2, k), j < k, Speaks(r, n, j), Replays(r, n, j, k)
               PROVE  Rejected(r2.log, k, n, "commitment", "replay_detected")
    BY <1>2 DEF ReplaysTraced
  <2>1. Begun(r, k)
    OBVIOUS
  <2> QED  BY <1>1, <1>3, <1>4, <2>1 DEF ReplaysTraced
<1>8. DoublesTraced(r2, b2)
  <2> SUFFICES ASSUME NEW n \in Nodes, NEW k \in RoundIds,
                      Begun(r2, k), Speaks(r, n, k), Doubles(r, n, k)
               PROVE  Rejected(r2.log, k, n, "commitment", "duplicate_commitment")
    BY <1>2 DEF DoublesTraced
  <2>1. Begun(r, k)
    OBVIOUS
  <2> QED  BY <1>1, <1>3, <1>4, <2>1 DEF DoublesTraced
<1> QED  BY <1>5, <1>6, <1>7, <1>8

\* Nor do proofs owe anything more once they are in.
LEMMA ProofsSettled ==
    ASSUME NEW r, NEW b, NEW r2, NEW b2, Traced(r, b), \A n : ~ProofComing(r, b, n),
           Remembers(r, r2), r2.log.proposals = r.log.proposals
    PROVE  ProofsTraced(r2, b2)
<1>1. /\ r2.scenario = r.scenario
      /\ \A x, n, kind, code : Rejected(r.log, x, n, kind, code) => Rejected(r2.log, x, n, kind, code)
  BY GrowsFacts DEF Remembers
<1> SUFFICES ASSUME NEW i \in DOMAIN r.log.proposals,
                    NEW n \in {r.log.proposals[i].candidate_requester,
                               r.log.proposals[i].candidate_provider},
                    ProofIsSabotaged(r.scenario, n, r.log.proposals[i].round)
             PROVE  Rejected(r2.log, r.log.proposals[i].round, n, "proof", "public_inputs_mismatch")
  BY <1>1 DEF ProofsTraced
<1> QED  BY <1>1 DEF Traced, ProofsTraced

\* A drained proposal is of the round whose proofs are yet to come.
LEMMA DrainProposalTraced ==
    ASSUME NEW r, NEW b, Alone(r), r.phase = "proposal", AtProposal(r, b), b # <<>>,
           Traced(r, b)
    PROVE  ProofsTraced(drain_proposal(r, Head(b)), Tail(b))
<1> DEFINE m == r.round_machine
           p == TheProposal(r)
           msg == message(proposer_for_round(Round(r)), "proposal", p)
<1>1. PICK r2 : r2 = drain_proposal(r, Head(b))
  OBVIOUS
<1>2. b = <<msg>> /\ m.proposal = None /\ Complete(r)
  BY DEF AtProposal
<1>3. p \in ProposalRecord /\ proposal_result(m, p) = "ok"
  BY <1>2, TheProposalPasses, AloneFacts
<1>4. Head(b) = msg
  <2> HIDE DEF msg
  <2> QED  BY <1>2
<1>5. msg.type = "proposal" /\ msg.rec = p /\ msg.origin = p.proposer
  BY DEF message, TheProposal
<1>6. p.round = Round(r)
  BY DEF TheProposal
<1> HIDE DEF msg, p
<1>7. r \in Runtimes /\ m \in Machine /\ r.log \in Logs
  BY AloneFacts
<1> DEFINE log2 == append_proposal(r.log, p)
<1>8. r2 = [r EXCEPT !.round_machine = accept_proposal(m, p), !.log = log2]
  BY <1>1, <1>3, <1>4, <1>5 DEF drain_proposal
<1>9. /\ log2.proposals = Append(r.log.proposals, p) /\ log2.rejections = r.log.rejections
      /\ accept_proposal(m, p).current = m.current
  BY <1>7 DEF append_proposal, Logs, accept_proposal, Machine
<1> HIDE DEF log2
<1>10. /\ r2.log = log2 /\ r2.scenario = r.scenario /\ r2.phase = "proposal"
       /\ Round(r2) = Round(r)
  BY <1>7, <1>8, <1>9 DEF Runtimes, Round
<1>11. ASSUME NEW i \in DOMAIN r2.log.proposals
       PROVE  \/ r2.log.proposals[i] = p
              \/ i \in DOMAIN r.log.proposals /\ r2.log.proposals[i] = r.log.proposals[i]
  <2> DEFINE s == r.log.proposals
  <2>1. s \in Seq(ProposalRecord) /\ r2.log.proposals = Append(s, p)
    BY <1>7, <1>9, <1>10 DEF Logs
  <2> HIDE DEF s
  <2>2. Append(s, p)[i] = p \/ (i \in DOMAIN s /\ Append(s, p)[i] = s[i])
    BY <1>3, <1>11, <2>1
  <2> QED  BY <2>1, <2>2 DEF s
<1>12. \A k, n, kind, code : Rejected(r2.log, k, n, kind, code) <=> Rejected(r.log, k, n, kind, code)
  BY <1>9, <1>10 DEF Rejected
<1>13. ProofsTraced(r, b)
  BY DEF Traced
<1>14. ProofsTraced(r2, Tail(b))
  <2> SUFFICES ASSUME NEW i \in DOMAIN r2.log.proposals,
                      NEW n \in {r2.log.proposals[i].candidate_requester,
                                 r2.log.proposals[i].candidate_provider},
                      ProofIsSabotaged(r.scenario, n, r2.log.proposals[i].round)
               PROVE  \/ Rejected(r2.log, r2.log.proposals[i].round, n, "proof",
                                  "public_inputs_mismatch")
                      \/ r2.log.proposals[i].round = Round(r)
    BY <1>10 DEF ProofsTraced, ProofComing
  <2>1. CASE r2.log.proposals[i] = p
    BY <1>6, <2>1
  <2>2. CASE i \in DOMAIN r.log.proposals /\ r2.log.proposals[i] = r.log.proposals[i]
    BY <1>12, <1>13, <2>2 DEF ProofsTraced
  <2> QED  BY <1>11, <2>1, <2>2
<1> QED  BY <1>1, <1>14

\* A sabotaged proof that leaves the bus is refused, by name.
LEMMA DrainProofTraced ==
    ASSUME NEW r, NEW b, Alone(r), r.phase = "proof", AtProof(r, b), b # <<>>, Traced(r, b)
    PROVE  ProofsTraced(drain_proof(r, Head(b)), Tail(b))
<1> DEFINE k == Round(r)
<1>1. PICK msg : msg = Head(b)
  OBVIOUS
<1>2. PICK r2 : r2 = drain_proof(r, msg)
  OBVIOUS
<1>3. /\ r \in Runtimes /\ RtInv(r) /\ Draining(r) /\ InPhase(r, b)
      /\ r.round_machine.proposal = TheProposal(r) /\ Complete(r)
  BY AloneFacts DEF Draining, InPhase, AtProof
<1>4. msg \in Messages /\ r2 = Drain(r, msg)
  BY <1>1, <1>2, <1>3, HeadIsMessage DEF Drain
<1>5. /\ r2.scenario = r.scenario /\ r2.log.proposals = r.log.proposals /\ r2.phase = "proof"
      /\ Round(r2) = k
      /\ \A x, n, kind, code : Rejected(r.log, x, n, kind, code) => Rejected(r2.log, x, n, kind, code)
  BY <1>3, <1>4, DrainLeaves, DrainKeeps, DrainKeepsRound, GrowsFacts DEF Quiet, Remembers
<1>6. /\ Requester \in Nodes /\ Best(r) \in Nodes
      /\ Accepted(r, Requester) /\ Accepted(r, Best(r))
  BY <1>3, BestFacts, NodeFacts DEF Complete, AllSpoke
<1>7. PICK S : b \in Seq(S)
  <2>1. PICK x, y : b = <<x, y>> \/ b = <<y>>
    BY DEF AtProof
  <2>2. <<x, y>> \in Seq({x, y}) /\ <<y>> \in Seq({x, y})
    OBVIOUS
  <2> QED  BY <2>1, <2>2
<1>8. ASSUME NEW n \in {Requester, Best(r)}, ProofIsSabotaged(r.scenario, n, k),
             On(b, ProofMessage(r, n, k))
      PROVE  \/ Rejected(r2.log, k, n, "proof", "public_inputs_mismatch")
             \/ On(Tail(b), ProofMessage(r2, n, k))
  <2>1. r2.round_machine = r.round_machine
    BY <1>2, <1>6, <1>1, <1>3, DrainOwnProof DEF AtProof
  <2>2. ProofMessage(r2, n, k) = ProofMessage(r, n, k)
    BY <1>5, <2>1, SameRound
  <2>3. CASE msg = ProofMessage(r, n, k)
    <3>1. Sabotaged(r, n)
      BY <1>8 DEF Sabotaged
    <3>2. r2 = reject(r, n, "proof", "public_inputs_mismatch")
      BY <1>2, <1>6, <2>3, <3>1, DrainOwnProof, AloneFacts
    <3> QED  BY <1>3, <3>2, RejectAdds
  <2>4. CASE msg # ProofMessage(r, n, k)
    <3> DEFINE x == ProofMessage(r, n, k)
    <3> HIDE DEF x
    <3>1. On(b, x) /\ Head(b) # x
      BY <1>1, <1>8, <2>4 DEF x
    <3>2. On(Tail(b), x)
      BY <1>7, <3>1, TailOrders
    <3> QED  BY <2>2, <3>2 DEF x
  <2> QED  BY <2>3, <2>4
<1>9. ASSUME NEW i \in DOMAIN r.log.proposals, r.log.proposals[i].round = k
      PROVE  /\ r.log.proposals[i].candidate_requester = Requester
             /\ r.log.proposals[i].candidate_provider = Best(r)
  <2>1. r.log.proposals[i] = TheProposal(r)
    BY <1>3, <1>9, AloneFacts DEF ProposalsCoherent, Round
  <2> QED  BY <2>1 DEF TheProposal
<1>10. ProofsTraced(r, b)
  BY DEF Traced
<1>11. ProofsTraced(r2, Tail(b))
  <2> SUFFICES ASSUME NEW i \in DOMAIN r.log.proposals,
                      NEW n \in {r.log.proposals[i].candidate_requester,
                                 r.log.proposals[i].candidate_provider},
                      ProofIsSabotaged(r.scenario, n, r.log.proposals[i].round)
               PROVE  \/ Rejected(r2.log, r.log.proposals[i].round, n, "proof",
                                  "public_inputs_mismatch")
                      \/ /\ r.log.proposals[i].round = k
                         /\ On(Tail(b), ProofMessage(r2, n, k))
    BY <1>5 DEF ProofsTraced, ProofComing
  <2>1. \/ Rejected(r.log, r.log.proposals[i].round, n, "proof", "public_inputs_mismatch")
        \/ r.log.proposals[i].round = k /\ On(b, ProofMessage(r, n, k))
    BY <1>10 DEF ProofsTraced, ProofComing
  <2>2. CASE r.log.proposals[i].round = k /\ On(b, ProofMessage(r, n, k))
    <3>1. n \in {Requester, Best(r)}
      BY <1>9, <2>2
    <3> QED  BY <1>8, <2>2, <3>1
  <2> QED  BY <1>5, <2>1, <2>2
<1> QED  BY <1>1, <1>2, <1>11

\* A message that leaves the bus takes nothing with it.
LEMMA DrainTraced ==
    ASSUME NEW r, NEW b, Alone(r), Known(r), InPhase(r, b), Draining(r), b # <<>>, Traced(r, b)
    PROVE  Traced(Drain(r, Head(b)), Tail(b))
<1>1. PICK r2 : r2 = Drain(r, Head(b))
  OBVIOUS
<1>2. RtInv(r) /\ Head(b) \in Messages
  BY AloneFacts, HeadIsMessage
<1>3. /\ Remembers(r, r2) /\ (r.phase # "proposal" => Quiet(r, r2))
      /\ r2.phase = r.phase /\ Round(r2) = Round(r)
  BY <1>1, <1>2, DrainLeaves, DrainKeeps, DrainKeepsRound
<1>4. \A k \in RoundIds : Begun(r2, k) => Begun(r, k)
  BY <1>3 DEF Begun
<1>5. CASE r.phase = "commit"
  <2>1. AtCommit(r, b) /\ Drain(r, Head(b)) = drain_commitment(r, Head(b))
    BY <1>5 DEF InPhase, Drain
  <2> QED  BY <1>5, <2>1, DrainCommitmentTraced
<1>6. CASE r.phase # "commit"
  <2>1. /\ SpokenKept(r2) /\ DropsTraced(r2)
        /\ ReplaysTraced(r2, Tail(b)) /\ DoublesTraced(r2, Tail(b))
    BY <1>3, <1>4, <1>6, CommitmentsSettled
  <2>2. CASE r.phase = "proposal"
    <3>1. AtProposal(r, b) /\ r2 = drain_proposal(r, Head(b))
      BY <1>1, <2>2 DEF InPhase, Drain
    <3>2. ProofsTraced(r2, Tail(b))
      BY <2>2, <3>1, DrainProposalTraced
    <3> QED  BY <1>1, <2>1, <3>2 DEF Traced
  <2>3. CASE r.phase = "proof"
    <3>1. AtProof(r, b) /\ r2 = drain_proof(r, Head(b))
      BY <1>1, <2>3 DEF InPhase, Drain
    <3>2. ProofsTraced(r2, Tail(b))
      BY <2>3, <3>1, DrainProofTraced
    <3> QED  BY <1>1, <2>1, <3>2 DEF Traced
  <2>4. CASE r.phase = "receipt"
    <3>1. \A n : ~ProofComing(r, b, n)
      BY <2>4 DEF ProofComing
    <3>2. r2.log.proposals = r.log.proposals
      BY <1>3, <2>4 DEF Quiet
    <3>3. ProofsTraced(r2, Tail(b))
      BY <1>3, <3>1, <3>2, ProofsSettled
    <3> QED  BY <1>1, <2>1, <3>3 DEF Traced
  <2> QED  BY <1>6, <2>2, <2>3, <2>4 DEF Draining
<1> QED  BY <1>5, <1>6

\* The end of the proposals puts both proofs on the bus, sabotaged or not.
LEMMA EndProposalTraced ==
    ASSUME NEW r, Alone(r), r.phase = "proposal", Traced(r, <<>>)
    PROVE  LET res == end_proposal_phase(r) IN ProofsTraced(res.rt, res.out)
<1> DEFINE m == r.round_machine
           k == Round(r)
<1>1. PICK r2 : r2 = end_proposal_phase(r).rt
  OBVIOUS
<1>2. PICK out : out = end_proposal_phase(r).out
  OBVIOUS
<1>3. /\ RtInv(r) /\ r \in Runtimes /\ r.log \in Logs /\ r.agents = Nodes /\ Draining(r)
      /\ ProposalsCoherent(m, r.log)
  BY AloneFacts DEF Draining
<1>4. /\ r2.scenario = r.scenario /\ r2.log.proposals = r.log.proposals
      /\ \A x, n, kind, code : Rejected(r.log, x, n, kind, code) => Rejected(r2.log, x, n, kind, code)
  <2>1. Quiet(r, r2)
    BY <1>1, <1>3, EndPhaseLeaves DEF EndPhase
  <2> QED  BY <2>1, GrowsFacts DEF Quiet, Remembers
<1> SUFFICES ASSUME NEW i \in DOMAIN r.log.proposals,
                    NEW n \in {r.log.proposals[i].candidate_requester,
                               r.log.proposals[i].candidate_provider},
                    ProofIsSabotaged(r.scenario, n, r.log.proposals[i].round)
             PROVE  \/ Rejected(r2.log, r.log.proposals[i].round, n, "proof",
                                "public_inputs_mismatch")
                    \/ r.log.proposals[i].round = Round(r2) /\ ProofComing(r2, out, n)
  BY <1>1, <1>2, <1>4 DEF ProofsTraced
<1>5. \/ Rejected(r.log, r.log.proposals[i].round, n, "proof", "public_inputs_mismatch")
      \/ r.log.proposals[i].round = k
  BY DEF Traced, ProofsTraced
<1>6. CASE r.log.proposals[i].round = k
  <2>1. PICK p \in ProposalRecord : p = r.log.proposals[i]
    BY <1>3 DEF Logs
  <2>2. m.proposal = p /\ p.candidate_requester = Requester /\ m.proposal # None
    BY <1>3, <1>6, <2>1, NoneAssumption DEF ProposalsCoherent, Grounded, Round, NoneAssumption
  <2>3. /\ r2 = [r EXCEPT !.phase = "proof"]
        /\ out = <<ProofMessage(r, Requester, k), ProofMessage(r, p.candidate_provider, k)>>
    BY <1>1, <1>2, <1>3, <2>2, EndProposalShape DEF Round
  <2>4. r2.phase = "proof" /\ r2.round_machine = m
    BY <1>3, <2>3 DEF Runtimes
  <2>5. ProofMessage(r2, n, Round(r2)) = ProofMessage(r, n, k) /\ Round(r2) = k
    BY <1>4, <2>4, SameRound
  <2>6. On(out, ProofMessage(r, n, k))
    <3>1. ASSUME NEW x, NEW y PROVE On(<<x, y>>, x) /\ On(<<x, y>>, y)
      <4>1. 1 \in DOMAIN <<x, y>> /\ <<x, y>>[1] = x /\ 2 \in DOMAIN <<x, y>> /\ <<x, y>>[2] = y
        OBVIOUS
      <4> QED  BY <4>1 DEF On
    <3>2. n = Requester \/ n = p.candidate_provider
      BY <2>1, <2>2
    <3> QED  BY <2>3, <3>1, <3>2
  <2> QED  BY <1>6, <2>4, <2>5, <2>6 DEF ProofComing
<1> QED  BY <1>4, <1>5, <1>6

\* A phase that ends has nothing of its own left on the bus.
LEMMA EndPhaseTraced ==
    ASSUME NEW r, Alone(r), Draining(r), Traced(r, <<>>)
    PROVE  LET res == EndPhase(r) IN Traced(res.rt, res.out)
<1>1. PICK r2 : r2 = EndPhase(r).rt
  OBVIOUS
<1>2. PICK out : out = EndPhase(r).out
  OBVIOUS
<1>3. RtInv(r) /\ Round(r) \in Nat /\ Round(r) < MaxRounds
  BY AloneFacts
<1>4. Quiet(r, r2)
  BY <1>1, <1>3, EndPhaseLeaves
<1>5. \A k \in RoundIds : Begun(r2, k) => Begun(r, k)
  <2>1. /\ r.phase # "loop" /\ \A k \in RoundIds : k \in Nat
    BY DEF Draining, RoundIds
  <2>2. \/ r2.phase = "loop" /\ Round(r2) = Round(r) + 1
        \/ Round(r2) = Round(r)
    <3>1. CASE r.phase = "receipt"
      <4>1. r2 = [r EXCEPT !.phase = "done",
                           !.log = set_final_round(@, r.round_machine.current, TRUE)]
        BY <1>1, <3>1 DEF EndPhase, end_receipt_phase
      <4> QED  BY <1>3, <4>1 DEF RtInv, Runtimes, Round
    <3> QED  BY <1>1, <1>3, <3>1, EndPhaseMoves
  <2> QED  BY <1>3, <2>1, <2>2 DEF Begun
<1>6. SpokenKept(r2) /\ DropsTraced(r2) /\ ReplaysTraced(r2, out) /\ DoublesTraced(r2, out)
  BY <1>4, <1>5, CommitmentsSettled DEF Quiet
<1>7. ProofsTraced(r2, out)
  <2>1. CASE r.phase = "proposal"
    BY <1>1, <1>2, <2>1, EndProposalTraced DEF EndPhase
  <2>2. CASE r.phase # "proposal"
    <3>1. \A n : ~ProofComing(r, <<>>, n)
      BY <2>2 DEF ProofComing, On
    <3> QED  BY <1>4, <3>1, ProofsSettled DEF Quiet
  <2> QED  BY <2>1, <2>2
<1> QED  BY <1>1, <1>2, <1>6, <1>7 DEF Traced

\* Nor does the end of the loop.
LEMMA EndRunTraced ==
    ASSUME NEW r, NEW b, Alone(r), LoopExhausted(r), Traced(r, b)
    PROVE  Traced(end_run(r), b)
<1>1. PICK r2 : r2 = end_run(r)
  OBVIOUS
<1>2. r \in Runtimes /\ r.phase = "loop" /\ Round(r) \in Nat /\ Round(r) >= MaxRounds
  BY AloneFacts DEF LoopExhausted, Round
<1>3. Quiet(r, r2)
  BY <1>1, <1>2, EndRunLeaves
<1>4. Round(r2) = Round(r)
  BY <1>1, <1>2 DEF end_run, Round, Runtimes
<1>5. \A k \in RoundIds : Begun(r2, k) => Begun(r, k)
  BY <1>2, <1>4, MaxRoundsAssumption DEF Begun, MaxRoundsAssumption
<1>6. SpokenKept(r2) /\ DropsTraced(r2) /\ ReplaysTraced(r2, b) /\ DoublesTraced(r2, b)
  BY <1>2, <1>3, <1>5, CommitmentsSettled DEF Quiet
<1>7. ProofsTraced(r2, b)
  <2>1. \A n : ~ProofComing(r, b, n)
    BY <1>2 DEF ProofComing
  <2> QED  BY <1>3, <2>1, ProofsSettled DEF Quiet
<1> QED  BY <1>1, <1>6, <1>7 DEF Traced

\* Before the first round nothing is owed.
LEMMA InitTraced == Init => Traced(rt, bus)
<1> SUFFICES ASSUME Init PROVE Traced(rt, bus)
  OBVIOUS
<1>1. PICK scenario \in Scenarios : rt = new_runtime(Nodes, scenario)
  BY DEF Init
<1>2. rt.phase = "loop" /\ Round(rt) = 0 /\ rt.log.proposals = <<>>
  BY <1>1 DEF new_runtime, new, new_log, Round
<1>3. \A k \in RoundIds : ~Begun(rt, k)
  BY <1>2 DEF Begun, RoundIds
<1> QED  BY <1>2, <1>3
         DEF Traced, SpokenKept, DropsTraced, ReplaysTraced, DoublesTraced, ProofsTraced

\* Every step leaves what an attack owes on the bus or on the log.
LEMMA StepTraced == LocalInv /\ Traced(rt, bus) /\ [Next]_vars => Traced(rt, bus)'
<1> SUFFICES ASSUME LocalInv, Traced(rt, bus), [Next]_vars PROVE Traced(rt', bus')
  OBVIOUS
<1>1. Alone(rt) /\ Known(rt) /\ InPhase(rt, bus) /\ RtInv(rt)
  BY AloneFacts DEF LocalInv
<1>2. CASE BeginRound
  <2>1. /\ rt.phase = "loop" /\ ~LoopExhausted(rt) /\ AtLoop(rt, bus)
        /\ rt' = broadcast_commitments(rt).rt /\ bus' = bus \o broadcast_commitments(rt).out
    BY <1>1, <1>2 DEF BeginRound, Broadcasting, InPhase
  <2> QED  BY <1>1, <2>1, BeginRoundTraced
<1>3. CASE DrainOne
  <2>1. bus # <<>> /\ rt' = Drain(rt, Head(bus)) /\ bus' = Tail(bus) /\ Draining(rt)
    BY <1>3 DEF DrainOne
  <2> QED  BY <1>1, <2>1, DrainTraced
<1>4. CASE PhaseEnds
  <2> DEFINE step == EndPhase(rt)
  <2>1. bus = <<>> /\ rt' = step.rt /\ bus' = bus \o step.out /\ Draining(rt)
    BY <1>4 DEF PhaseEnds, Broadcasting
  <2>2. bus' = step.out
    <3>1. step.out \in Seq(Messages)
      BY <1>1, <2>1, EndPhaseSound DEF Sound
    <3> HIDE DEF step
    <3> QED  BY <2>1, <3>1, ConcatEmptySeq
  <2>3. Traced(rt, <<>>)
    BY <2>1
  <2> QED  BY <1>1, <2>1, <2>2, <2>3, EndPhaseTraced
<1>5. CASE RunEnds
  <2>1. LoopExhausted(rt) /\ rt' = end_run(rt) /\ bus' = bus
    BY <1>5 DEF RunEnds
  <2> QED  BY <1>1, <2>1, EndRunTraced
<1>6. CASE UNCHANGED vars
  <2>1. rt' = rt /\ bus' = bus
    BY <1>6 DEF vars
  <2> QED  BY <2>1
<1> QED  BY <1>2, <1>3, <1>4, <1>5, <1>6 DEF Next, Terminated

\* No attack that acts goes unrecorded: every double commitment, replay,
\* sabotaged proof and silent round of a dropped node is named by a rejection
\* on the public log of the finished run, under its node and round.
THEOREM AttacksAreNamed == Spec => []AttacksLeaveTrace
<1>1. ASSUME LocalInv, Traced(rt, bus), rt.phase = "done", NEW e \in rt.scenario
      PROVE  /\ (e.kind = "double_commit" /\ WentThrough(rt.log, e.round)
                   /\ ~has_dropped(rt.scenario, e.node, e.round))
                => Rejected(rt.log, e.round, e.node, "commitment", "duplicate_commitment")
             /\ (e.kind = "replay_prior_commitment" /\ WentThrough(rt.log, e.round)
                   /\ e.from_round < e.round
                   /\ ~has_dropped(rt.scenario, e.node, e.from_round))
                => Rejected(rt.log, e.round, e.node, "commitment", "replay_detected")
             /\ (e.kind = "drop_node")
                => \A r \in (e.after_round + 1)..rt.log.final_round :
                       Rejected(rt.log, r, e.node, "commitment", "node_dropped")
             /\ (e.kind = "inject_invalid_proof" /\ e.round <= rt.log.final_round)
                => LET p == LoggedProposal(rt.log, e.round)
                   IN  (p # None /\ e.node \in {p.candidate_requester, p.candidate_provider})
                       => Rejected(rt.log, e.round, e.node, "proof", "public_inputs_mismatch")
  <2>1. /\ Alone(rt) /\ AtDone(rt, bus) /\ Round(rt) \in Nat /\ MaxRounds \in Nat
        /\ rt.log \in Logs /\ rt.scenario \in SUBSET ScenarioEvents
        /\ rt.round_machine \in Machine /\ ProposalsCoherent(rt.round_machine, rt.log)
    BY <1>1, AloneFacts, MaxRoundsAssumption
       DEF LocalInv, InPhase, Runtimes, MaxRoundsAssumption
  <2>2. /\ SpokenKept(rt) /\ DropsTraced(rt) /\ ReplaysTraced(rt, bus)
        /\ DoublesTraced(rt, bus) /\ ProofsTraced(rt, bus)
    BY <1>1 DEF Traced
  <2>3. ASSUME NEW k \in RoundIds, WentThrough(rt.log, k) PROVE Begun(rt, k)
    <3>1. k \in Nat /\ k <= rt.log.final_round /\ k < MaxRounds
      BY <2>1, <2>3 DEF WentThrough, RoundIds
    <3>2. CASE rt.log.finalized
      BY <1>1, <2>1, <3>1, <3>2 DEF AtDone, Ended, Begun
    <3>3. CASE ~rt.log.finalized
      BY <2>1, <3>1, <3>3 DEF AtDone, Ended, Begun
    <3> QED  BY <3>2, <3>3
  <2>4. e \in ScenarioEvents
    BY <2>1
  <2>5. ASSUME e.kind = "double_commit", WentThrough(rt.log, e.round),
               ~has_dropped(rt.scenario, e.node, e.round)
        PROVE  Rejected(rt.log, e.round, e.node, "commitment", "duplicate_commitment")
    <3>1. e.node \in Nodes /\ e.round \in RoundIds
      BY <2>4, <2>5 DEF ScenarioEvents, RoundIds
    <3>2. Doubles(rt, e.node, e.round) /\ Speaks(rt, e.node, e.round) /\ Begun(rt, e.round)
      BY <2>3, <2>5, <3>1 DEF Doubles, Speaks
    <3> QED  BY <1>1, <2>2, <3>1, <3>2 DEF DoublesTraced
  <2>6. ASSUME e.kind = "replay_prior_commitment", WentThrough(rt.log, e.round),
               e.from_round < e.round, ~has_dropped(rt.scenario, e.node, e.from_round)
        PROVE  Rejected(rt.log, e.round, e.node, "commitment", "replay_detected")
    <3>1. e.node \in Nodes /\ e.round \in RoundIds /\ e.from_round \in RoundIds
      BY <2>4, <2>6 DEF ScenarioEvents, RoundIds
    <3>2. /\ Replays(rt, e.node, e.from_round, e.round) /\ Speaks(rt, e.node, e.from_round)
          /\ Begun(rt, e.round)
      BY <2>3, <2>6, <3>1 DEF Replays, Speaks
    <3> QED  BY <1>1, <2>2, <2>6, <3>1, <3>2 DEF ReplaysTraced
  <2>7. ASSUME e.kind = "drop_node", NEW r \in (e.after_round + 1)..rt.log.final_round
        PROVE  Rejected(rt.log, r, e.node, "commitment", "node_dropped")
    <3>1. e.node \in Nodes /\ e.after_round \in Nat
      BY <2>4, <2>7 DEF ScenarioEvents, RoundIds
    <3>2. r \in Nat /\ r > e.after_round /\ r <= rt.log.final_round /\ r > 0
      BY <2>1, <2>7, <3>1 DEF Logs
    <3>3. rt.log.final_round \in Nat /\ rt.log.final_round <= MaxRounds
          /\ (rt.log.final_round > 0 => rt.log.final_round < MaxRounds)
      BY <2>1 DEF AtDone, Ended, Logs
    <3>4. r \in RoundIds /\ WentThrough(rt.log, r)
      BY <2>1, <3>2, <3>3 DEF RoundIds, WentThrough
    <3>5. ~Speaks(rt, e.node, r)
      BY <2>7, <3>2 DEF Speaks, has_dropped
    <3> QED  BY <2>2, <2>3, <3>1, <3>4, <3>5 DEF DropsTraced
  <2>8. ASSUME NEW p, p = LoggedProposal(rt.log, e.round), p # None,
               e.kind = "inject_invalid_proof",
               e.node \in {p.candidate_requester, p.candidate_provider}
        PROVE  Rejected(rt.log, e.round, e.node, "proof", "public_inputs_mismatch")
    <3>1. PICK i \in DOMAIN rt.log.proposals : rt.log.proposals[i].round = e.round
      BY <2>8 DEF LoggedProposal
    <3>2. p = rt.log.proposals[i] /\ p.round = e.round
      BY <2>1, <2>8, <3>1, LookupProposal
    <3>3. ProofIsSabotaged(rt.scenario, e.node, e.round)
      BY <2>8 DEF ProofIsSabotaged
    <3>4. ~ProofComing(rt, bus, e.node)
      BY <1>1 DEF ProofComing
    <3> QED  BY <2>2, <2>8, <3>2, <3>3, <3>4 DEF ProofsTraced
  <2> QED  BY <2>5, <2>6, <2>7, <2>8
<1>2. LocalInv /\ Traced(rt, bus) => AttacksLeaveTrace
  BY <1>1 DEF AttacksLeaveTrace
<1>3. Spec => [](LocalInv /\ Traced(rt, bus))
  BY InitLocalInv, StepLocalInv, InitTraced, StepTraced, PTL DEF Spec
<1> QED  BY <1>2, <1>3, PTL
=============================================================================
