------------------------------ MODULE LocalRun ------------------------------
(***************************************************************************)
(* The in-process run: one CoordinationRuntime that holds the agents of    *)
(* every configured node over an OrderedBus (runtime.rs; the demo command  *)
(* of run.rs).  The bus is a FIFO queue whose next_ordered never waits:    *)
(* None exactly when it is empty.  The adversarial scenario is any one of  *)
(* the given Scenarios.                                                    *)
(***************************************************************************)
EXTENDS Verifier, Runtime

CONSTANT Scenarios
ASSUME ScenariosAssumption == Scenarios \subseteq SUBSET ScenarioEvents

VARIABLES rt, bus
vars == <<rt, bus>>

Init == /\ \E scenario \in Scenarios : rt = new_runtime(Nodes, scenario)
        /\ bus = <<>>

\* A runtime step that broadcasts: its messages go to the back of the bus.
Broadcasting(step) == rt' = step.rt /\ bus' = bus \o step.out

\* The next iteration of the for-loop starts a round.
BeginRound == /\ rt.phase = "loop" /\ ~LoopExhausted(rt)
              /\ Broadcasting(broadcast_commitments(rt))

\* next_ordered pops the front of the bus into the current drain loop.
DrainOne == /\ Draining(rt) /\ bus # <<>>
            /\ rt' = Drain(rt, Head(bus))
            /\ bus' = Tail(bus)

\* The bus is empty: the phase ends.
PhaseEnds == /\ Draining(rt) /\ bus = <<>>
             /\ Broadcasting(EndPhase(rt))

RunEnds == LoopExhausted(rt) /\ rt' = end_run(rt) /\ UNCHANGED bus

Terminated == rt.phase = "done" /\ UNCHANGED vars

Next == BeginRound \/ DrainOne \/ PhaseEnds \/ RunEnds \/ Terminated

\* The process runs alone and never blocks, so it keeps taking steps.
Spec == Init /\ [][Next]_vars /\ WF_vars(Next)

-----------------------------------------------------------------------------
\* Whatever the scenario, the log the run leaves behind passes the
\* standalone verifier (verifier.rs: "enforces the same invariants the
\* runtime enforced locally").
LogVerifies == rt.phase = "done" => verify_log(rt.log) = {}

\* The run ends in the first round that can succeed with the lowest feasible
\* provider, and aborts only if no round of the budget can: no event delays
\* or diverts it further than its own round.
OutcomeAsExpected ==
    rt.phase = "done" => OutcomeOf(rt.log) = ExpectedOutcome(rt.scenario)

\* The public log and the round machine never disagree about the active
\* round, so the log_duplicate branch of drain_commitments is dead code and
\* the .expect of broadcast_proofs never fires.
LogMirrorsMachine ==
    /\ MirrorsMachine(rt)
    /\ "log_duplicate" \notin RejectionCodes(rt)
    /\ rt.phase # "panicked"

Rejected(log, round, node, kind, code) ==
    \E i \in DOMAIN log.rejections : log.rejections[i] = rejection(round, node, kind, code)

\* A round the finished run went through.  With an empty budget there is none,
\* although final_round is 0.
WentThrough(log, round) == round <= log.final_round /\ round < MaxRounds

\* Every adversarial event of a round the run went through that could act
\* at all leaves the rejection that names it on the public log, under the
\* node and the round it happened in.
AttacksLeaveTrace ==
    rt.phase = "done" =>
        \A e \in rt.scenario :
            /\ (e.kind = "double_commit" /\ WentThrough(rt.log, e.round)
                  /\ ~has_dropped(rt.scenario, e.node, e.round))
               => Rejected(rt.log, e.round, e.node, "commitment", "duplicate_commitment")
            /\ (e.kind = "replay_prior_commitment" /\ WentThrough(rt.log, e.round)
                  /\ e.from_round < e.round
                  /\ ~has_dropped(rt.scenario, e.node, e.from_round))
               => Rejected(rt.log, e.round, e.node, "commitment", "replay_detected")
            /\ (e.kind = "drop_node")
               => \A r \in (e.after_round + 1)..rt.log.final_round :
                      Rejected(rt.log, r, e.node, "commitment", "node_dropped")
            /\ (e.kind = "inject_invalid_proof" /\ e.round <= rt.log.final_round)
               => LET p == LoggedProposal(rt.log, e.round)
                  IN  (p # None /\ e.node \in {p.candidate_requester, p.candidate_provider})
                      => Rejected(rt.log, e.round, e.node, "proof", "public_inputs_mismatch")

\* The run implements the abstract protocol, message by message and with
\* every attack of the scenario: what happens in a round amounts to one step,
\* which finalizes with the lowest feasible provider or falls back, as the
\* scenario alone determines.
Abstract == INSTANCE Coordination WITH
    Reliable <- TRUE,
    agenda   <- [r \in 0..MaxRounds |-> Chances(rt.scenario, r)],
    round    <- rt.round_machine.current,
    outcome  <- IF rt.phase = "done" THEN OutcomeOf(rt.log) ELSE None
ImplementsCoordination == Abstract!Spec

\* Every run ends, finalized or aborted, within max_rounds.
Terminates == <>(rt.phase = "done")

-----------------------------------------------------------------------------
(* Statements of the documentation that do not hold of the code: README.md *)
(* says which of them have a run.                                          *)

\* private_intents.rs on signing_secret_key: "When present, the topology MUST
\* also carry the matching `signing_public_key`": the receipt of a finalized
\* run is signed the way the verifier checks it.
ReceiptVerifies ==
    rt.phase = "done" => "final_round_signature_mismatch" \notin verify_log(rt.log)

\* A dropped node "stops participating starting the round strictly after
\* after_round" (adversarial.rs): from then on the runtime puts nothing of
\* its own on the bus in its name, forged replays aside.
DroppedNodeIsSilent ==
    \A i \in DOMAIN bus :
        bus[i].type # "commitment" =>
            ~has_dropped(rt.scenario, bus[i].origin, rt.round_machine.current)
=============================================================================
