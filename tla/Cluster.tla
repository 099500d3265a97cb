------------------------------- MODULE Cluster ------------------------------
(***************************************************************************)
(* The multi-process run (node.rs, vertex_transport.rs): one process per   *)
(* configured node, each with a CoordinationRuntime that holds its own     *)
(* agent only, over the consensus-ordered broadcast of tashi-vertex.       *)
(*                                                                         *)
(* The engine (external) gives every process the same sequence `order`;    *)
(* process n has consumed its first pos[n] messages.  A broadcast goes     *)
(* straight to the end of the order: since a process may be arbitrarily    *)
(* slow to take its next step, a message that is ordered late is a process *)
(* that took the broadcasting step late.                                   *)
(*                                                                         *)
(* next_ordered returns None when nothing arrives within poll_timeout, and *)
(* None ends a phase.  Nothing ties the phases of two processes together:  *)
(* a process may give up waiting before a message it needs is there, and a *)
(* message may reach a process that is still in an earlier phase, where it *)
(* is thrown away.  Each such event is a timing fault; `faults` counts     *)
(* them, and a run with none is one in which delays stay below             *)
(* poll_timeout and the processes keep step.                               *)
(*                                                                         *)
(* With --persist a process starts its next session over the same          *)
(* transport with a new runtime at round 0: what it left unread it reads   *)
(* then, and no message says which session it is of.  A process may also   *)
(* be killed and started again with --rejoin: it has forgotten everything, *)
(* and where in the order the engine lets it resume is not known.          *)
(***************************************************************************)
EXTENDS Verifier, Runtime

\* A setup is the scenario every process loads, the number of sessions (1 is a
\* node without --persist), and the bounds on timing faults, on workers that die
\* and on processes that are killed.
CONSTANT Setups

ASSUME ClusterAssumption ==
    \A s \in Setups : /\ s.scenario \subseteq ScenarioEvents
                      /\ s.sessions \in Nat \ {0}
                      /\ {s.timing, s.exits, s.kills} \subseteq Nat

VARIABLES
    setup,      \* the setup of this behaviour
    procs,      \* procs[n]: the runtime of node n's process
    order,      \* the engine's total order: messages stamped with the sender's stage
    pos,        \* pos[n]: how much of the order process n has consumed
    closed,     \* the processes whose transport worker has exited
    inbound,    \* inbound[n]: how much of the order that worker had handed over
    faults,     \* timing faults so far
    session,    \* session[n]: session_idx of process n
    restarted   \* the processes that have been killed, started again or not
life == <<setup, session, restarted>>
workers == <<closed, inbound>>
vars == <<setup, procs, order, pos, workers, faults, session, restarted>>

Init == /\ setup \in Setups
        /\ procs = [n \in Nodes |-> new_runtime({n}, setup.scenario)]
        /\ order = <<>>
        /\ pos = [n \in Nodes |-> 0]
        /\ closed = {}
        /\ inbound = [n \in Nodes |-> 0]
        /\ faults = 0
        /\ session = [n \in Nodes |-> 0]
        /\ restarted = {}

-----------------------------------------------------------------------------
(* How far a process is, and what counts as keeping step.                  *)

Done(n) == procs[n].phase = "done"

PhaseIndex(phase) ==
    CASE phase = "loop" -> 0 [] phase = "commit" -> 1 [] phase = "proposal" -> 2
      [] phase = "proof" -> 3 [] phase = "receipt" -> 4

Stopped(rt) == rt.phase \in {"done", "panicked", "failed", "killed"}

\* The process has no further session.
Over(n) == Stopped(procs[n]) /\ (Done(n) => session[n] + 1 = setup.sessions)

\* Rounds and phases of all sessions, in order.
StageOf(rt, idx) ==
    5 * (MaxRounds + 1) * idx
    + (IF Stopped(rt) THEN 5 * MaxRounds + 4
       ELSE 5 * rt.round_machine.current + PhaseIndex(rt.phase))

Stage(n) == IF Over(n) THEN 5 * (MaxRounds + 1) * setup.sessions
            ELSE StageOf(procs[n], session[n])

Unread(n) == (pos[n] + 1)..Len(order)

\* The channel to a dead worker still holds what it handed over before it died.
Readable(n) == {i \in Unread(n) : n \in closed => i <= inbound[n]}

\* A message of process n's own stage or an earlier one is still unread.
Awaits(n) == \E i \in Unread(n) : order[i].stage <= Stage(n)

\* Everything sent for this stage has been consumed and nobody is behind,
\* processes that came back from a kill aside.
TimelyEnd(n) ==
    /\ ~Awaits(n)
    /\ \A k \in Nodes \ restarted : Stage(k) >= Stage(n)

Charge(inStep) ==
    \/ inStep /\ UNCHANGED faults
    \/ ~inStep /\ faults < setup.timing /\ faults' = faults + 1

-----------------------------------------------------------------------------
Stamped(n, rt, msgs) ==
    [i \in DOMAIN msgs |-> [stage |-> StageOf(rt, session[n]), msg |-> msgs[i]]]

\* The worker leaves its loop; its process may not have read all it handed over.
WorkerDies(n) ==
    /\ n \notin closed /\ Cardinality(closed) < setup.exits
    /\ closed' = closed \cup {n}
    /\ \E got \in pos[n]..Len(order) : inbound' = [inbound EXCEPT ![n] = got]

\* broadcast with a live worker: the messages join the order.
Ordered(n, step) ==
    /\ n \notin closed
    /\ procs' = [procs EXCEPT ![n] = step.rt]
    /\ order' = order \o Stamped(n, step.rt, step.out)
    /\ UNCHANGED workers

\* The worker dies with the messages still in its outbound channel:
\* broadcast has returned Ok, nobody will ever see them.
LostInWorker(n, step) ==
    /\ WorkerDies(n)
    /\ step.out # <<>>
    /\ procs' = [procs EXCEPT ![n] = step.rt]
    /\ UNCHANGED order

\* Mutant: the error is swallowed and the step tried again.
OnClosedRetry(n, step) ==
    /\ n \in closed
    /\ procs' = [procs EXCEPT ![n] = IF step.out = <<>> THEN step.rt ELSE procs[n]]
    /\ UNCHANGED <<order, workers>>

\* The worker is gone: broadcast returns TransportError::Closed, and run_node
\* returns without a bundle; a step with nothing to send goes on.
OnClosed(n, step) ==
    /\ n \in closed
    /\ procs' = [procs EXCEPT ![n] = IF step.out = <<>> THEN step.rt
                                     ELSE [procs[n] EXCEPT !.phase = "failed"]]
    /\ UNCHANGED <<order, workers>>

Broadcasting(n, step) == Ordered(n, step) \/ LostInWorker(n, step) \/ OnClosed(n, step)

BeginRound(n) ==
    /\ procs[n].phase = "loop" /\ ~LoopExhausted(procs[n])
    /\ Broadcasting(n, broadcast_commitments(procs[n]))
    /\ UNCHANGED <<pos, faults, life>>

\* next_ordered returns the next message of the order, also one that the
\* worker handed over before it died.
Receive(n) ==
    /\ Draining(procs[n])
    /\ Readable(n) # {}
    /\ Charge(n \in restarted \cup closed \/ Awaits(n))
    /\ procs' = [procs EXCEPT ![n] = Drain(@, order[pos[n] + 1].msg)]
    /\ pos' = [pos EXCEPT ![n] = @ + 1]
    /\ UNCHANGED <<order, workers, life>>

\* next_ordered returns None: nothing within poll_timeout, or the worker is
\* gone and what it handed over is read.
PhaseEnds(n) ==
    /\ Draining(procs[n])
    /\ n \in closed => Readable(n) = {}
    /\ Charge(n \in closed \/ TimelyEnd(n))
    /\ Broadcasting(n, EndPhase(procs[n]))
    /\ UNCHANGED <<pos, life>>

RunEnds(n) ==
    /\ LoopExhausted(procs[n])
    /\ procs' = [procs EXCEPT ![n] = end_run(@)]
    /\ UNCHANGED <<order, pos, workers, faults, life>>

\* Mutant: the next session goes on with the round machine of the last one.
NextSessionOldMachine(n) ==
    /\ Done(n) /\ session[n] + 1 < setup.sessions
    /\ procs' = [procs EXCEPT ![n].phase = "loop", ![n].log = new_log]
    /\ session' = [session EXCEPT ![n] = @ + 1]
    /\ UNCHANGED <<setup, order, pos, workers, faults, restarted>>

\* Mutant: one session too many.
NextSessionTooMany(n) ==
    /\ Done(n) /\ session[n] < setup.sessions
    /\ procs' = [procs EXCEPT ![n] = new_runtime({n}, setup.scenario)]
    /\ session' = [session EXCEPT ![n] = @ + 1]
    /\ UNCHANGED <<setup, order, pos, workers, faults, restarted>>

\* --persist: the bundle is written, the next session starts over the same
\* transport.
NextSession(n) ==
    /\ Done(n) /\ session[n] + 1 < setup.sessions
    /\ procs' = [procs EXCEPT ![n] = new_runtime({n}, setup.scenario)]
    /\ session' = [session EXCEPT ![n] = @ + 1]
    /\ UNCHANGED <<setup, order, pos, workers, faults, restarted>>

\* The worker breaks out of its loop on an engine error.
WorkerExits(n) ==
    /\ WorkerDies(n)
    /\ ~Stopped(procs[n])
    /\ UNCHANGED <<procs, order, pos, faults, life>>

\* SIGKILL, by the orchestrator or the operator.
Killed(n) ==
    /\ Cardinality(restarted) < setup.kills /\ n \notin restarted /\ ~Over(n)
    /\ procs' = [procs EXCEPT ![n].phase = "killed"]
    /\ restarted' = restarted \cup {n}
    /\ UNCHANGED <<setup, order, pos, workers, faults, session>>

\* node --rejoin: everything starts anew but the cluster's order.
Rejoin(n) ==
    /\ procs[n].phase = "killed"
    /\ procs' = [procs EXCEPT ![n] = new_runtime({n}, setup.scenario)]
    /\ session' = [session EXCEPT ![n] = 0]
    /\ \E p \in 0..Len(order) : pos' = [pos EXCEPT ![n] = p]
    /\ closed' = closed \ {n} /\ inbound' = [inbound EXCEPT ![n] = 0]
    /\ UNCHANGED <<setup, order, faults, restarted>>

Step(n) == BeginRound(n) \/ Receive(n) \/ PhaseEnds(n) \/ RunEnds(n) \/ NextSession(n)

AllOver == \A n \in Nodes : Over(n)
Terminated == AllOver /\ UNCHANGED vars

Next == \/ \E n \in Nodes : Step(n) \/ WorkerExits(n) \/ Killed(n) \/ Rejoin(n)
        \/ Terminated

\* Every process is scheduled; nothing is assumed of the workers' deaths.
Spec == Init /\ [][Next]_vars /\ \A n \in Nodes : WF_vars(Step(n))

-----------------------------------------------------------------------------
LogOf(n) == procs[n].log
Finalized(n) == Done(n) /\ LogOf(n).finalized

TypeOK ==
    /\ \A n \in Nodes : procs[n].round_machine \in Machine /\ procs[n].agents = {n}
    /\ pos \in [Nodes -> 0..Len(order)]
    /\ closed \subseteq Nodes
    /\ inbound \in [Nodes -> 0..Len(order)]
    /\ faults \in 0..setup.timing
    /\ session \in [Nodes -> 0..(setup.sessions - 1)]
    /\ restarted \subseteq Nodes

\* However the phases drift apart and whatever is lost, no process accepts a
\* proposal that another process did not accept in the same form: the log
\* entries for one round are one proposal.
ProposalsAgree ==
    \A a, b \in Nodes : \A i \in DOMAIN LogOf(a).proposals :
        \A j \in DOMAIN LogOf(b).proposals :
            LogOf(a).proposals[i].round = LogOf(b).proposals[j].round
            => LogOf(a).proposals[i] = LogOf(b).proposals[j]

\* A process can leave a log its own verifier rejects in one way only: it
\* finalized and did not see the receipt in time.  Every other defect the
\* verifier looks for is excluded under any timing.
OnlyReceiptCanBeMissing ==
    \A n \in Nodes : Done(n) => verify_log(LogOf(n)) \subseteq {"final_round_missing_receipt"}

\* In a single session without kills a round is finalized anywhere only after
\* the matched requester's and the matched provider's own processes accepted
\* the very proposal.
FinalizedNeedsBothParties ==
    \A n \in Nodes : Finalized(n) =>
        LET p == LoggedProposal(LogOf(n), LogOf(n).final_round)
        IN  \A k \in {p.candidate_requester, p.candidate_provider} :
                \E i \in DOMAIN LogOf(k).proposals : LogOf(k).proposals[i] = p

\* Node k's proof for the round of p was ordered, and before it a proposal for
\* that round that named k.
Consented(k, p) ==
    \E i, j \in DOMAIN order :
        /\ i < j
        /\ order[i].msg.type = "proposal" /\ order[i].msg.rec.round = p.round
        /\ k \in {order[i].msg.rec.candidate_requester, order[i].msg.rec.candidate_provider}
        /\ order[j].msg.type = "proof" /\ order[j].msg.rec.round = p.round
        /\ order[j].msg.origin = k /\ order[j].msg.rec.node_id = k

\* Across sessions and lives of the processes less is left of it, since no
\* message says which session it is of: what a process finalizes was proposed,
\* and both of its parties proved for that round, each after a proposal that
\* named it.  That may have been in an earlier session or life than the one
\* that finalizes, and the requester may have proved for another proposal.
FinalizedOnConsent ==
    \A n \in Nodes : Finalized(n) =>
        LET p == LoggedProposal(LogOf(n), LogOf(n).final_round)
        IN  /\ \E i \in DOMAIN order : order[i].msg.type = "proposal" /\ order[i].msg.rec = p
            /\ Consented(p.candidate_requester, p) /\ Consented(p.candidate_provider, p)

\* Log and round machine of a process never disagree, also when it missed
\* messages or consumed them in the wrong phase; the .expect never fires.
ProcessesStayCoherent ==
    \A n \in Nodes :
        /\ MirrorsMachine(procs[n])
        /\ "log_duplicate" \notin RejectionCodes(procs[n])
        /\ procs[n].phase # "panicked"

\* Without timing faults and worker deaths the processes do what the
\* in-process run does: every bundle verifies, and all report the outcome
\* the scenario calls for (runtime.rs: "No protocol logic depends on
\* transport specifics").
InStepOutcome ==
    (faults = 0 /\ closed = {} /\ restarted = {}) =>
        \A n \in Nodes : Done(n) =>
            /\ OutcomeOf(LogOf(n)) = ExpectedOutcome(setup.scenario)
            /\ verify_log(LogOf(n)) = {}

\* Every process of a single session implements the abstract protocol.
\* Where no fault may happen it is reliable and follows the scenario;
\* otherwise a round may fail for any reason, but it still ends with a
\* feasible provider or not at all, no process skips a round, and an outcome
\* is never taken back.
Faultless == setup.timing + setup.exits + setup.kills = 0
Process(n, reliable) == INSTANCE Coordination WITH
    Reliable <- reliable,
    agenda   <- [r \in 0..MaxRounds |-> IF Faultless THEN Chances(setup.scenario, r)
                                       ELSE {p \in Providers : Required \in Claims[p]}],
    round    <- procs[n].round_machine.current,
    outcome  <- IF Done(n) THEN OutcomeOf(LogOf(n)) ELSE None
ProcessesCoordinate ==
    /\ \A n \in Nodes : Process(n, FALSE)!Init
    /\ [][\A n \in Nodes :
            \/ UNCHANGED Process(n, FALSE)!vars
            \/ IF Faultless THEN Process(n, TRUE)!Next ELSE Process(n, FALSE)!Next]_vars

\* Every process ends: done within max_rounds, or failed with a dead worker.
EveryProcessEnds == <>[]AllOver

-----------------------------------------------------------------------------
(* Statements of the documentation that do not hold of the code: README.md *)
(* says which of them have a run.                                          *)

\* "a swarm that reaches cryptographically verifiable agreement on outcomes"
\* (README.md): two processes whose runs are over report the same outcome,
\* finalized with the same provider in the same round or aborted.
Agreement ==
    \A a, b \in Nodes : Done(a) /\ Done(b) => OutcomeOf(LogOf(a)) = OutcomeOf(LogOf(b))

\* artifacts.rs: finalized is "True when the run produced a valid completion
\* receipt on `final_round`."
FinalizedHasReceipt ==
    \A n \in Nodes : Finalized(n) => HasFinalReceipt(LogOf(n))

\* runtime.rs on an older commitment under the label of a later round: "The
\* replay check rejects it."  No hash that one process logged for a round is
\* logged by any process for another round.
ReplayIsRejected ==
    \A a, b \in Nodes : \A i \in DOMAIN LogOf(a).commitments :
        \A j \in DOMAIN LogOf(b).commitments :
            LogOf(a).commitments[i].commitment_hex = LogOf(b).commitments[j].commitment_hex
            => LogOf(a).commitments[i].round = LogOf(b).commitments[j].round

\* runtime.rs on run_salt: "Per-run salt so commitments vary between tests;
\* also makes nonces deterministic for a given (run_id, node_id, round)
\* triple."  Two sessions, whose run ids differ, send no common hash.
NoncePerRun ==
    LET SessionOf(i) == order[i].stage \div (5 * (MaxRounds + 1))
    IN  \A i, j \in DOMAIN order :
            (/\ {order[i].msg.type, order[j].msg.type} = {"commitment"}
             /\ order[i].msg.rec.commitment_hex = order[j].msg.rec.commitment_hex)
            => SessionOf(i) = SessionOf(j)
=============================================================================
