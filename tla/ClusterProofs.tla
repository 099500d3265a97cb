--------------------------- MODULE ClusterProofs ----------------------------
(***************************************************************************)
(* The multi-process run for every topology, budget of rounds, scenario,   *)
(* number of sessions, and bound on timing faults, dead workers and kills. *)
(* What one process keeps true whatever arrives is RuntimeProofs; here it  *)
(* is carried through sessions, worker deaths, kills and rejoins, with the *)
(* order only ever holding messages that runtimes send.  Where nothing is  *)
(* late or lost the processes keep step, and a round comes to what it does *)
(* in one process; in every case each implements the abstract protocol.    *)
(***************************************************************************)
EXTENDS Cluster, RuntimeProofs

Stamps == [stage : Nat, msg : Messages]

\* Process n is coherent, runs its own agent only and the common scenario.
ProcInv(n, rt) == RtInv(rt) /\ rt.agents = {n} /\ rt.scenario = setup.scenario

\* The inductive invariant of the cluster.
ClusterInv ==
    /\ setup \in Setups
    /\ procs \in [Nodes -> Runtimes]
    /\ \A n \in Nodes : ProcInv(n, procs[n])
    /\ order \in Seq(Stamps)
    /\ pos \in [Nodes -> 0..Len(order)]
    /\ closed \subseteq Nodes
    /\ inbound \in [Nodes -> 0..Len(order)]
    /\ faults \in 0..setup.timing
    /\ session \in [Nodes -> 0..(setup.sessions - 1)]
    /\ restarted \subseteq Nodes

\* What a setup is.
LEMMA SetupFacts ==
    ASSUME setup \in Setups
    PROVE  /\ setup.scenario \in SUBSET ScenarioEvents /\ setup.sessions \in Nat
           /\ setup.sessions > 0 /\ setup.timing \in Nat
  BY ClusterAssumption DEF ClusterAssumption

\* The stage of a process is a number.
LEMMA StageIsNat ==
    ASSUME NEW rt \in Runtimes, NEW k \in Nat PROVE StageOf(rt, k) \in Nat
<1>1. rt.round_machine.current \in Nat /\ rt.phase \in Phases
  BY DEF Runtimes, Machine
<1>2. MaxRounds \in Nat
  BY MaxRoundsAssumption DEF MaxRoundsAssumption
<1>3. ~Stopped(rt) => PhaseIndex(rt.phase) \in Nat
  BY <1>1 DEF Stopped, Phases, PhaseIndex
<1>4. \A a, b \in Nat : a * b \in Nat
  OBVIOUS
<1>5. 5 * (MaxRounds + 1) \in Nat
  BY <1>2
<1>6. 5 * (MaxRounds + 1) * k \in Nat
  BY <1>4, <1>5
<1>7. (IF Stopped(rt) THEN 5 * MaxRounds + 4
       ELSE 5 * rt.round_machine.current + PhaseIndex(rt.phase)) \in Nat
  <2>1. CASE Stopped(rt)
    BY <1>2, <2>1
  <2>2. CASE ~Stopped(rt)
    BY <1>1, <1>3, <2>2
  <2> QED  BY <2>1, <2>2
<1> DEFINE x == 5 * (MaxRounds + 1) * k
           y == IF Stopped(rt) THEN 5 * MaxRounds + 4
                ELSE 5 * rt.round_machine.current + PhaseIndex(rt.phase)
<1>8. StageOf(rt, k) = x + y
  BY DEF StageOf
<1> HIDE DEF x, y
<1> QED  BY <1>6, <1>7, <1>8 DEF x, y

\* A new process of any session is coherent.
LEMMA NewProcess ==
    ASSUME setup \in Setups, NEW n \in Nodes
    PROVE  ProcInv(n, new_runtime({n}, setup.scenario))
  BY SetupFacts, NewRuntimeInv DEF ProcInv

\* Replacing the runtime of one process by a coherent one.
LEMMA OneProcessChanges ==
    ASSUME ClusterInv, setup' = setup, NEW n \in Nodes, NEW rt, ProcInv(n, rt),
           procs' = [procs EXCEPT ![n] = rt]
    PROVE  procs' \in [Nodes -> Runtimes] /\ \A k \in Nodes : ProcInv(k, procs[k])'
<1>1. rt \in Runtimes
  BY DEF ProcInv, RtInv
<1>2. procs' \in [Nodes -> Runtimes] /\ procs'[n] = rt
      /\ \A k \in Nodes : k # n => procs'[k] = procs[k]
  BY <1>1 DEF ClusterInv
<1>3. ASSUME NEW k \in Nodes PROVE ProcInv(k, procs[k])'
  <2>1. PICK q : q = procs'[k]
    OBVIOUS
  <2>2. RtInv(q) /\ q.agents = {k} /\ q.scenario = setup'.scenario
    BY <1>2, <2>1 DEF ClusterInv, ProcInv
  <2> QED  BY <2>1, <2>2 DEF ProcInv
<1> QED  BY <1>2, <1>3

\* A process that is stopped from outside stays coherent.
LEMMA StoppedKeeps ==
    ASSUME NEW rt, RtInv(rt), NEW next \in {"failed", "killed"}
    PROVE  Keeps(rt, [rt EXCEPT !.phase = next])
<1> DEFINE rt2 == [rt EXCEPT !.phase = next]
<1>1. rt \in Runtimes /\ PhaseCoherent(rt)
  BY DEF RtInv
<1>2. /\ rt2 \in Runtimes /\ rt2.phase = next /\ rt2.log = rt.log
      /\ rt2.round_machine = rt.round_machine /\ rt2.agents = rt.agents
      /\ rt2.scenario = rt.scenario
  BY <1>1 DEF Runtimes, Phases
<1> HIDE DEF rt2
<1>3. PhaseCoherent(rt2)
  BY <1>1, <1>2 DEF PhaseCoherent, Draining
<1> QED  BY <1>2, <1>3 DEF Keeps, RtInv, rt2

\* A worker that dies has handed over some of the order.
LEMMA WorkerDiesKeeps ==
    ASSUME ClusterInv, NEW n \in Nodes, WorkerDies(n)
    PROVE  closed' \subseteq Nodes /\ inbound' \in [Nodes -> 0..Len(order)]
<1>1. inbound \in [Nodes -> 0..Len(order)] /\ pos[n] \in 0..Len(order) /\ order \in Seq(Stamps)
  BY DEF ClusterInv
<1>2. PICK got \in pos[n]..Len(order) : inbound' = [inbound EXCEPT ![n] = got]
  BY DEF WorkerDies
<1>3. got \in 0..Len(order)
  BY <1>1
<1>4. closed' \subseteq Nodes
  BY DEF WorkerDies, ClusterInv
<1> QED  BY <1>1, <1>2, <1>3, <1>4

\* What a broadcasting step does to processes, order and workers.
LEMMA BroadcastingKeeps ==
    ASSUME ClusterInv, setup' = setup, UNCHANGED pos, NEW n \in Nodes, NEW step,
           Sound(procs[n], step), Broadcasting(n, step)
    PROVE  /\ procs' \in [Nodes -> Runtimes] /\ \A k \in Nodes : ProcInv(k, procs[k])'
           /\ order' \in Seq(Stamps) /\ pos' \in [Nodes -> 0..Len(order')]
           /\ closed' \subseteq Nodes /\ inbound' \in [Nodes -> 0..Len(order')]
<1>1. ProcInv(n, procs[n]) /\ order \in Seq(Stamps)
  BY DEF ClusterInv
<1>2. ProcInv(n, step.rt) /\ step.rt \in Runtimes /\ step.out \in Seq(Messages)
  BY <1>1 DEF Sound, Keeps, ProcInv, RtInv
<1>3. CASE Ordered(n, step)
  <2> DEFINE more == Stamped(n, step.rt, step.out)
  <2>1. StageOf(step.rt, session[n]) \in Nat
    <3>1. session[n] \in Nat
      BY SetupFacts DEF ClusterInv
    <3> QED  BY <1>2, <3>1, StageIsNat
  <2>2. more \in Seq(Stamps)
    <3>1. PICK out, l : out = step.out /\ l \in Nat /\ DOMAIN out = 1..l
                        /\ \A i \in 1..l : out[i] \in Messages
      BY <1>2
    <3>2. PICK st \in Nat : st = StageOf(step.rt, session[n])
      BY <2>1
    <3>3. more = [i \in 1..l |-> [stage |-> st, msg |-> out[i]]]
      BY <3>1, <3>2 DEF Stamped
    <3>4. \A i \in 1..l : [stage |-> st, msg |-> out[i]] \in Stamps
      BY <3>1, <3>2 DEF Stamps
    <3> QED  BY <3>1, <3>3, <3>4
  <2> HIDE DEF more
  <2>3. /\ order' = order \o more /\ procs' = [procs EXCEPT ![n] = step.rt]
        /\ closed' = closed /\ inbound' = inbound
    BY <1>3 DEF Ordered, workers, more
  <2>4. order' \in Seq(Stamps) /\ Len(order') = Len(order) + Len(more)
    BY <1>1, <2>2, <2>3, ConcatProperties
  <2>5. Len(order) <= Len(order') /\ Len(order) \in Nat /\ Len(order') \in Nat
    BY <1>1, <2>2, <2>4
  <2>6. pos' \in [Nodes -> 0..Len(order')] /\ inbound' \in [Nodes -> 0..Len(order')]
    BY <2>3, <2>5 DEF ClusterInv
  <2> QED  BY <1>2, <2>3, <2>4, <2>6, OneProcessChanges DEF ClusterInv
<1>4. CASE LostInWorker(n, step)
  <2>1. WorkerDies(n) /\ procs' = [procs EXCEPT ![n] = step.rt] /\ UNCHANGED order
    BY <1>4 DEF LostInWorker
  <2>2. closed' \subseteq Nodes /\ inbound' \in [Nodes -> 0..Len(order')]
    BY <2>1, WorkerDiesKeeps
  <2>3. procs' \in [Nodes -> Runtimes] /\ \A k \in Nodes : ProcInv(k, procs[k])'
    BY <1>2, <2>1, OneProcessChanges
  <2> QED  BY <1>1, <2>1, <2>2, <2>3 DEF ClusterInv
<1>5. CASE OnClosed(n, step)
  <2> DEFINE rt2 == IF step.out = <<>> THEN step.rt ELSE [procs[n] EXCEPT !.phase = "failed"]
  <2>1. ProcInv(n, [procs[n] EXCEPT !.phase = "failed"])
    BY <1>1, StoppedKeeps DEF ProcInv, Keeps
  <2>2. ProcInv(n, rt2)
    BY <1>2, <2>1
  <2> HIDE DEF rt2
  <2>3. procs' = [procs EXCEPT ![n] = rt2] /\ UNCHANGED <<order, closed, inbound>>
    BY <1>5 DEF OnClosed, workers, rt2
  <2> QED  BY <2>2, <2>3, OneProcessChanges DEF ClusterInv
<1> QED  BY <1>3, <1>4, <1>5 DEF Broadcasting

\* Init establishes the invariant.
LEMMA InitClusterInv == Init => ClusterInv
<1> SUFFICES ASSUME Init PROVE ClusterInv
  OBVIOUS
<1>1. setup \in Setups /\ order = <<>> /\ closed = {} /\ faults = 0 /\ restarted = {}
      /\ pos = [n \in Nodes |-> 0] /\ inbound = [n \in Nodes |-> 0] /\ session = [n \in Nodes |-> 0]
      /\ procs = [n \in Nodes |-> new_runtime({n}, setup.scenario)]
  BY DEF Init
<1>2. \A n \in Nodes : ProcInv(n, procs[n])
  BY <1>1, NewProcess
<1>3. procs \in [Nodes -> Runtimes]
  <2>1. \A n \in Nodes : procs[n] \in Runtimes
    BY <1>2 DEF ProcInv, RtInv
  <2> QED  BY <1>1, <2>1
<1>4. order \in Seq(Stamps) /\ pos \in [Nodes -> 0..Len(order)]
      /\ inbound \in [Nodes -> 0..Len(order)]
  BY <1>1
<1>5. 0 \in 0..(setup.sessions - 1) /\ 0 \in 0..setup.timing
  BY <1>1, SetupFacts
<1> QED  BY <1>1, <1>2, <1>3, <1>4, <1>5 DEF ClusterInv

\* A timing fault is charged within its bound.
LEMMA ChargeKeeps ==
    ASSUME ClusterInv, setup' = setup, NEW inStep, Charge(inStep)
    PROVE  faults' \in 0..setup'.timing
  BY SetupFacts DEF ClusterInv, Charge

\* Every step keeps the invariant.
LEMMA StepClusterInv == ClusterInv /\ [Next]_vars => ClusterInv'
<1> SUFFICES ASSUME ClusterInv, [Next]_vars PROVE ClusterInv'
  OBVIOUS
<1>0. /\ setup \in Setups /\ procs \in [Nodes -> Runtimes] /\ order \in Seq(Stamps)
      /\ pos \in [Nodes -> 0..Len(order)] /\ closed \subseteq Nodes
      /\ inbound \in [Nodes -> 0..Len(order)]
      /\ faults \in 0..setup.timing /\ session \in [Nodes -> 0..(setup.sessions - 1)]
      /\ restarted \subseteq Nodes
      /\ \A n \in Nodes : RtInv(procs[n]) /\ ProcInv(n, procs[n])
  BY DEF ClusterInv, ProcInv
<1>1. ASSUME NEW n \in Nodes, BeginRound(n) PROVE ClusterInv'
  <2>1. Sound(procs[n], broadcast_commitments(procs[n]))
    BY <1>0, <1>1, BroadcastCommitmentsSound DEF BeginRound
  <2>2. UNCHANGED <<pos, faults, life>> /\ Broadcasting(n, broadcast_commitments(procs[n]))
    BY <1>1 DEF BeginRound
  <2>3. UNCHANGED <<setup, session, restarted, pos, faults>>
    BY <2>2 DEF life
  <2> QED  BY <1>0, <2>1, <2>2, <2>3, BroadcastingKeeps DEF ClusterInv
<1>2. ASSUME NEW n \in Nodes, Receive(n) PROVE ClusterInv'
  <2>1. /\ Draining(procs[n]) /\ Unread(n) # {}
        /\ Charge(n \in restarted \cup closed \/ Awaits(n))
        /\ procs' = [procs EXCEPT ![n] = Drain(procs[n], order[pos[n] + 1].msg)]
        /\ pos' = [pos EXCEPT ![n] = @ + 1]
        /\ UNCHANGED <<order, closed, inbound, setup, session, restarted>>
    BY <1>0, <1>2 DEF Receive, Readable, workers, life
  <2>2. pos[n] \in Nat /\ Len(order) \in Nat /\ pos[n] + 1 \in 1..Len(order)
    BY <1>0, <2>1 DEF Unread
  <2>3. order[pos[n] + 1].msg \in Messages
    <3>1. order[pos[n] + 1] \in Stamps
      BY <1>0, <2>2
    <3> QED  BY <3>1 DEF Stamps
  <2>4. ProcInv(n, Drain(procs[n], order[pos[n] + 1].msg))
    <3>1. Keeps(procs[n], Drain(procs[n], order[pos[n] + 1].msg))
      BY <1>0, <2>1, <2>3, DrainKeeps
    <3> QED  BY <1>0, <3>1 DEF ProcInv, Keeps
  <2>5. pos' \in [Nodes -> 0..Len(order')]
    <3>1. pos[n] + 1 \in 0..Len(order')
      BY <2>1, <2>2
    <3> QED  BY <1>0, <2>1, <3>1
  <2>6. procs' \in [Nodes -> Runtimes] /\ \A k \in Nodes : ProcInv(k, procs[k])'
    BY <2>1, <2>4, OneProcessChanges
  <2>7. faults' \in 0..setup'.timing
    BY <2>1, ChargeKeeps
  <2> QED  BY <1>0, <2>1, <2>5, <2>6, <2>7 DEF ClusterInv
<1>3. ASSUME NEW n \in Nodes, PhaseEnds(n) PROVE ClusterInv'
  <2>1. Sound(procs[n], EndPhase(procs[n]))
    BY <1>0, <1>3, EndPhaseSound DEF PhaseEnds
  <2>2. /\ Charge(n \in closed \/ TimelyEnd(n)) /\ Broadcasting(n, EndPhase(procs[n]))
        /\ UNCHANGED <<setup, session, restarted, pos>>
    BY <1>3 DEF PhaseEnds, life
  <2>3. faults' \in 0..setup'.timing
    BY <2>2, ChargeKeeps
  <2> QED  BY <1>0, <2>1, <2>2, <2>3, BroadcastingKeeps DEF ClusterInv
<1>4. ASSUME NEW n \in Nodes, RunEnds(n) PROVE ClusterInv'
  <2>0. UNCHANGED <<setup, session, restarted, order, pos, closed, inbound, faults>>
    BY <1>4 DEF RunEnds, workers, life
  <2>1. LoopExhausted(procs[n]) /\ procs' = [procs EXCEPT ![n] = end_run(procs[n])]
    BY <1>4 DEF RunEnds
  <2>2. ProcInv(n, end_run(procs[n]))
    <3>1. Keeps(procs[n], end_run(procs[n]))
      BY <1>0, <2>1, EndRunKeeps
    <3> QED  BY <1>0, <3>1 DEF ProcInv, Keeps
  <2>3. procs' \in [Nodes -> Runtimes] /\ \A k \in Nodes : ProcInv(k, procs[k])'
    BY <2>0, <2>1, <2>2, OneProcessChanges
  <2> QED  BY <1>0, <2>0, <2>3 DEF ClusterInv
<1>5. ASSUME NEW n \in Nodes, NextSession(n) PROVE ClusterInv'
  <2>1. /\ session[n] + 1 < setup.sessions
        /\ procs' = [procs EXCEPT ![n] = new_runtime({n}, setup.scenario)]
        /\ session' = [session EXCEPT ![n] = @ + 1]
        /\ UNCHANGED <<setup, order, pos, closed, inbound, faults, restarted>>
    BY <1>5 DEF NextSession, workers
  <2>2. session[n] + 1 \in 0..(setup.sessions - 1)
    BY <1>0, <2>1, SetupFacts
  <2>3. session' \in [Nodes -> 0..(setup'.sessions - 1)]
    BY <1>0, <2>1, <2>2
  <2> QED  BY <1>0, <2>1, <2>3, NewProcess, OneProcessChanges DEF ClusterInv
<1>6. ASSUME NEW n \in Nodes, WorkerExits(n) PROVE ClusterInv'
  <2>1. WorkerDies(n) /\ UNCHANGED <<procs, order, pos, faults, setup, session, restarted>>
    BY <1>6 DEF WorkerExits, life
  <2>2. closed' \subseteq Nodes /\ inbound' \in [Nodes -> 0..Len(order)]
    BY <2>1, WorkerDiesKeeps
  <2> QED  BY <1>0, <2>1, <2>2 DEF ClusterInv, ProcInv
<1>7. ASSUME NEW n \in Nodes, Killed(n) PROVE ClusterInv'
  <2>1. /\ procs' = [procs EXCEPT ![n] = [procs[n] EXCEPT !.phase = "killed"]]
        /\ restarted' = restarted \cup {n}
        /\ UNCHANGED <<setup, order, pos, closed, inbound, faults, session>>
    BY <1>0, <1>7 DEF Killed, workers
  <2>2. ProcInv(n, [procs[n] EXCEPT !.phase = "killed"])
    <3>1. Keeps(procs[n], [procs[n] EXCEPT !.phase = "killed"])
      BY <1>0, StoppedKeeps
    <3> QED  BY <1>0, <3>1 DEF ProcInv, Keeps
  <2> QED  BY <1>0, <2>1, <2>2, OneProcessChanges DEF ClusterInv
<1>8. ASSUME NEW n \in Nodes, Rejoin(n) PROVE ClusterInv'
  <2>1. /\ procs' = [procs EXCEPT ![n] = new_runtime({n}, setup.scenario)]
        /\ session' = [session EXCEPT ![n] = 0] /\ closed' = closed \ {n}
        /\ inbound' = [inbound EXCEPT ![n] = 0]
        /\ \E p \in 0..Len(order) : pos' = [pos EXCEPT ![n] = p]
        /\ UNCHANGED <<setup, order, faults, restarted>>
    BY <1>8 DEF Rejoin
  <2>2. 0 \in 0..(setup.sessions - 1)
    BY <1>0, SetupFacts
  <2>3. pos' \in [Nodes -> 0..Len(order')] /\ inbound' \in [Nodes -> 0..Len(order')]
    <3>1. 0 \in 0..Len(order)
      BY <1>0
    <3> QED  BY <1>0, <2>1, <3>1
  <2> QED  BY <1>0, <2>1, <2>2, <2>3, NewProcess, OneProcessChanges DEF ClusterInv
<1>9. CASE UNCHANGED vars
  BY <1>9 DEF vars, workers, ClusterInv, ProcInv
<1> QED  BY <1>1, <1>2, <1>3, <1>4, <1>5, <1>6, <1>7, <1>8, <1>9 DEF Next, Step, Terminated

\* The invariant holds of every behaviour.
LEMMA ClusterIsInvariant == Spec => []ClusterInv
  BY InitClusterInv, StepClusterInv, PTL DEF Spec

\* The state of the cluster has its type: every process holds a round machine
\* and its own agent, has consumed no more of the order than there is, and the
\* timing faults and the sessions stay within their bounds.
THEOREM ClusterTypeCorrect == Spec => []TypeOK
<1>1. ClusterInv => TypeOK
  <2>1. \A n \in Nodes : ClusterInv => procs[n].round_machine \in Machine
    BY DEF ClusterInv, ProcInv, RtInv, Runtimes
  <2> QED  BY <2>1 DEF ClusterInv, ProcInv, TypeOK
<1> QED  BY <1>1, ClusterIsInvariant, PTL

\* Whatever is lost, late or read in the wrong phase, session or life of a
\* process (next_ordered of vertex_transport.rs, the drain loops of
\* runtime.rs), its public log and its round machine agree about the active
\* round, log_duplicate is never recorded, and the .expect of broadcast_proofs
\* never fires.
THEOREM ProcessesNeverDisagreeWithTheirLogs == Spec => []ProcessesStayCoherent
<1>1. ClusterInv => ProcessesStayCoherent
  BY CoherentRuntime DEF ClusterInv, ProcInv, ProcessesStayCoherent
<1> QED  BY <1>1, ClusterIsInvariant, PTL

\* Where the signing keys of topology and private intents match, a process of
\* run_node leaves a log that verify_log rejects for one reason at most, under
\* any timing: it finalized without having seen the receipt.
THEOREM LogsLackAtMostTheReceipt ==
    ASSUME KeysMatch PROVE Spec => []OnlyReceiptCanBeMissing
<1>1. ClusterInv => OnlyReceiptCanBeMissing
  BY DoneVerifies DEF ClusterInv, ProcInv, OnlyReceiptCanBeMissing, Done, LogOf
<1> QED  BY <1>1, ClusterIsInvariant, PTL

-----------------------------------------------------------------------------
(* Who has agreed to what: a proposal in the order is its proposer's only  *)
(* one for the round, and whoever sends a proof has accepted a proposal.   *)

\* Process rt is past the point of round r at which it would propose.
Past(rt, r) ==
    LET m == rt.round_machine
    IN  r < m.current \/ (r = m.current /\ rt.phase \notin {"loop", "commit"})

HasRound(log, r) == \E i \in DOMAIN log.proposals : log.proposals[i].round = r

\* The process goes on, and its log keeps its proposals and proofs.
Onward(rt, rt2) ==
    /\ rt2.phase # "killed"
    /\ \A r \in Nat : Past(rt, r) => Past(rt2, r)
    /\ rt2.log.proposals = rt.log.proposals /\ rt2.log.proofs = rt.log.proofs

\* A message a process sends in the step from rt to rt2: a proposal is the
\* process's own, for a round it had not proposed for, and a proof follows a
\* proposal of its round on the log.
Honest(rt, rt2, msg) ==
    LET rec == msg.rec
    IN  /\ msg.type = "proposal" =>
               /\ msg.origin = rec.proposer /\ rec.proposer = proposer_for_round(rec.round)
               /\ msg.origin \in rt.agents /\ ~Past(rt, rec.round) /\ Past(rt2, rec.round)
        /\ msg.type = "proof" =>
               /\ msg.origin = rec.node_id /\ msg.origin \in rt.agents
               /\ HasRound(rt2.log, rec.round)

\* What a broadcasting step may do; it sends one proposal at most.
Regular(rt, step) ==
    /\ Onward(rt, step.rt)
    /\ \A i \in DOMAIN step.out : Honest(rt, step.rt, step.out[i])
    /\ \A i, j \in DOMAIN step.out :
           step.out[i].type = "proposal" /\ step.out[j].type = "proposal" => i = j

\* An iteration of a drain loop puts at most the message's own record on the
\* log, and the process stays where it is.
LEMMA DrainLogsTheMessage ==
    ASSUME NEW rt, RtInv(rt), Draining(rt), NEW msg \in Messages
    PROVE  LET rt2 == Drain(rt, msg)
           IN  /\ rt2.phase = rt.phase /\ rt2.round_machine.current = rt.round_machine.current
               /\ \/ rt2.log.proposals = rt.log.proposals
                  \/ /\ msg.type = "proposal"
                     /\ rt2.log.proposals = Append(rt.log.proposals, msg.rec)
               /\ \/ rt2.log.proofs = rt.log.proofs
                  \/ msg.type = "proof" /\ rt2.log.proofs = Append(rt.log.proofs, msg.rec)
<1> DEFINE m == rt.round_machine
           rt2 == Drain(rt, msg)
<1>1. rt \in Runtimes /\ rt.log \in Logs /\ m \in Machine
  BY DEF RtInv, Runtimes
<1>2. rt2.phase = rt.phase
  BY DrainKeeps
<1>3. ASSUME NEW n, NEW kind, NEW code
      PROVE  LET q == reject(rt, n, kind, code)
             IN  /\ q.round_machine = m /\ q.log.proposals = rt.log.proposals
                 /\ q.log.proofs = rt.log.proofs
  BY <1>1 DEF reject, append_rejection, Runtimes, Logs
<1>4. CASE rt.phase = "commit"
  <2> DEFINE rec == msg.rec
  <2>1. rt2 = drain_commitment(rt, msg)
    BY <1>4 DEF Drain
  <2>2. CASE /\ msg.type = "commitment" /\ msg.origin = rec.node_id
             /\ commitment_result(m, rec) = "ok"
    <3>1. rec \in CommitmentRecord
      BY <2>2, MessageFacts DEF SentCommitments
    <3>2. ~LogHasCommitment(rt.log, rec.node_id, rec.round)
      BY <1>1, <2>2, <3>1, NeverLogDuplicate DEF RtInv
    <3> DEFINE m2 == accept_commitment(m, rec)
               log2 == append_commitment(rt.log, rec)
    <3>3. rt2 = [[rt EXCEPT !.round_machine = m2] EXCEPT !.log = log2]
      BY <1>1, <2>1, <2>2, <3>2 DEF drain_commitment, Runtimes
    <3>4. m2.current = m.current
      BY <1>1 DEF accept_commitment, insert_commitment, Machine
    <3>5. log2.proposals = rt.log.proposals /\ log2.proofs = rt.log.proofs
      BY <1>1 DEF append_commitment, Logs
    <3> HIDE DEF m2, log2
    <3>6. rt2.round_machine = m2 /\ rt2.log = log2
      BY <1>1, <3>3 DEF Runtimes
    <3> QED  BY <1>2, <3>4, <3>5, <3>6
  <2>3. CASE ~(/\ msg.type = "commitment" /\ msg.origin = rec.node_id
               /\ commitment_result(m, rec) = "ok")
    <3>1. \E n, kind, code : rt2 = reject(rt, n, kind, code)
      BY <2>1, <2>3 DEF drain_commitment
    <3> QED  BY <1>2, <1>3, <3>1
  <2> QED  BY <2>2, <2>3
<1>5. CASE rt.phase = "proposal"
  <2> DEFINE p == msg.rec
  <2>1. rt2 = drain_proposal(rt, msg)
    BY <1>5 DEF Drain
  <2>2. CASE msg.type = "proposal" /\ msg.origin = p.proposer /\ proposal_result(m, p) = "ok"
    <3> DEFINE m2 == accept_proposal(m, p)
               log2 == append_proposal(rt.log, p)
    <3>1. rt2 = [rt EXCEPT !.round_machine = m2, !.log = log2]
      BY <1>1, <2>1, <2>2 DEF drain_proposal, Runtimes
    <3>2. m2.current = m.current
      BY <1>1 DEF accept_proposal, Machine
    <3>3. log2.proposals = Append(rt.log.proposals, p) /\ log2.proofs = rt.log.proofs
      BY <1>1 DEF append_proposal, Logs
    <3> HIDE DEF m2, log2
    <3>4. rt2.round_machine = m2 /\ rt2.log = log2
      BY <1>1, <3>1 DEF Runtimes
    <3> QED  BY <1>2, <2>2, <3>2, <3>3, <3>4
  <2>3. CASE ~(msg.type = "proposal" /\ msg.origin = p.proposer /\ proposal_result(m, p) = "ok")
    <3>1. \E n, kind, code : rt2 = reject(rt, n, kind, code)
      BY <2>1, <2>3 DEF drain_proposal
    <3> QED  BY <1>2, <1>3, <3>1
  <2> QED  BY <2>2, <2>3
<1>6. CASE rt.phase = "proof"
  <2>1. rt2 = drain_proof(rt, msg)
    BY <1>6 DEF Drain
  <2>2. \/ \E n, kind, code : rt2 = reject(rt, n, kind, code)
        \/ msg.type = "proof" /\ rt2 = [rt EXCEPT !.log = append_proof(rt.log, msg.rec)]
    BY <1>1, <2>1 DEF drain_proof, Runtimes
  <2>3. ASSUME msg.type = "proof", rt2 = [rt EXCEPT !.log = append_proof(rt.log, msg.rec)]
        PROVE  /\ rt2.round_machine = m /\ rt2.log.proposals = rt.log.proposals
               /\ rt2.log.proofs = Append(rt.log.proofs, msg.rec)
    BY <1>1, <2>3 DEF append_proof, Runtimes, Logs
  <2> QED  BY <1>2, <1>3, <2>2, <2>3
<1>7. CASE rt.phase = "receipt"
  <2>1. rt2 = drain_receipt(rt, msg)
    BY <1>7 DEF Drain
  <2>2. \/ \E n, kind, code : rt2 = reject(rt, n, kind, code)
        \/ rt2 = [rt EXCEPT !.log = append_receipt(rt.log, msg.rec)]
    BY <1>1, <2>1 DEF drain_receipt, Runtimes
  <2>3. ASSUME rt2 = [rt EXCEPT !.log = append_receipt(rt.log, msg.rec)]
        PROVE  /\ rt2.round_machine = m /\ rt2.log.proposals = rt.log.proposals
               /\ rt2.log.proofs = rt.log.proofs
    BY <1>1, <2>3 DEF append_receipt, Runtimes, Logs
  <2> QED  BY <1>2, <1>3, <2>2, <2>3
<1> QED  BY <1>4, <1>5, <1>6, <1>7 DEF Draining

\* A round that fails is left behind, and the log keeps its evidence.
LEMMA FallbackGoesOn ==
    ASSUME NEW rt, RtInv(rt), Draining(rt), rt.phase # "receipt"
    PROVE  /\ Onward(rt, Fallback(rt))
           /\ \A n \in NodeIds, kind \in Kinds, code \in Codes :
                  Onward(rt, Fallback(reject(rt, n, kind, code)))
<1>1. rt.round_machine.current \in Nat
  BY DEF RtInv, Runtimes, Machine
<1>2. ASSUME NEW q, RtInv(q), q.phase = rt.phase, q.round_machine = rt.round_machine,
             q.log.proposals = rt.log.proposals, q.log.proofs = rt.log.proofs
      PROVE  Onward(rt, Fallback(q))
  <2>1. Draining(q) /\ q.phase # "receipt"
    BY <1>2 DEF Draining
  <2>2. /\ Fallback(q).round_machine.current = rt.round_machine.current + 1
        /\ Fallback(q).log = q.log /\ Fallback(q).phase = "loop"
    BY <1>2, <2>1, FallbackKeeps
  <2> QED  BY <1>1, <1>2, <2>2 DEF Onward, Past
<1>3. ASSUME NEW n \in NodeIds, NEW kind \in Kinds, NEW code \in Codes
      PROVE  Onward(rt, Fallback(reject(rt, n, kind, code)))
  <2> DEFINE q == reject(rt, n, kind, code)
  <2>1. /\ RtInv(q) /\ q.phase = rt.phase /\ q.round_machine = rt.round_machine
        /\ q.log.proposals = rt.log.proposals /\ q.log.proofs = rt.log.proofs
    BY RejectKeeps
  <2> HIDE DEF q
  <2>2. Onward(rt, Fallback(q))
    BY <1>2, <2>1
  <2> QED  BY <2>2 DEF q
<1> QED  BY <1>2, <1>3

\* A step that sends nothing and goes on is regular.
LEMMA SilentIsRegular ==
    ASSUME NEW rt, NEW step, Onward(rt, step.rt), step.out = <<>> PROVE Regular(rt, step)
  BY DEF Regular

\* A change of phase within the round goes on, as does the end of the run.
LEMMA PhaseGoesOn ==
    ASSUME NEW rt, RtInv(rt), Draining(rt),
           NEW next \in {"proposal", "proof", "receipt", "failed"}
    PROVE  LET rt2 == [rt EXCEPT !.phase = next]
           IN  /\ Onward(rt, rt2) /\ rt2.log = rt.log
               /\ rt2.round_machine = rt.round_machine /\ rt2.phase = next
  BY DEF RtInv, Runtimes, Onward, Past

\* The start of a round is regular.
LEMMA BeginRoundRegular ==
    ASSUME NEW rt, RtInv(rt), rt.phase = "loop", ~LoopExhausted(rt)
    PROVE  Regular(rt, broadcast_commitments(rt))
<1> DEFINE res == broadcast_commitments(rt)
<1>1. /\ res.out \in Seq(CommitmentMessages)
      /\ res.rt.phase = "commit" /\ res.rt.round_machine = rt.round_machine
      /\ res.rt.log.proposals = rt.log.proposals /\ res.rt.log.proofs = rt.log.proofs
  BY BroadcastCommitmentsSound
<1> HIDE DEF res
<1>2. \A i \in DOMAIN res.out : res.out[i].type = "commitment"
  <2>1. \A i \in DOMAIN res.out : res.out[i] \in CommitmentMessages
    BY <1>1
  <2> QED  BY <2>1 DEF CommitmentMessages
<1>3. Onward(rt, res.rt)
  BY <1>1 DEF Onward, Past
<1> QED  BY <1>2, <1>3 DEF Regular, Honest, res

\* So is the end of every drain loop.
LEMMA EndPhaseRegular ==
    ASSUME NEW rt, RtInv(rt), Draining(rt) PROVE Regular(rt, EndPhase(rt))
<1> DEFINE m == rt.round_machine
<1>0. /\ m \in Machine /\ m.current \in Nat /\ rt.log \in Logs /\ rt.agents \subseteq Nodes
      /\ CommitmentsCoherent(m, rt.log) /\ ProposalsCoherent(m, rt.log)
  BY DEF RtInv, Runtimes, Machine
<1>1. CASE rt.phase = "commit"
  <2> DEFINE res == end_commit_phase(rt)
  <2>0. EndPhase(rt) = res
    BY <1>1 DEF EndPhase
  <2>1. CASE \/ ~HasCommitment(m, Requester)
             \/ HoldsProposer(rt) /\ StoredFeasible(m) = {}
    <3>1. res.out = <<>> /\ \E n \in NodeIds, kind \in Kinds, code \in Codes :
                                res.rt = Fallback(reject(rt, n, kind, code))
      BY <1>1, <2>1, EndCommitShape
    <3>2. Onward(rt, res.rt)
      BY <1>1, <3>1, FallbackGoesOn
    <3> QED  BY <2>0, <3>1, <3>2, SilentIsRegular
  <2>2. CASE ~(\/ ~HasCommitment(m, Requester)
               \/ HoldsProposer(rt) /\ StoredFeasible(m) = {})
    <3> DEFINE msg == message(current_proposer(m), "proposal", DerivedProposal(m))
    <3>1. /\ res.rt = [rt EXCEPT !.phase = "proposal"]
          /\ res.out = IF HoldsProposer(rt) THEN <<msg>> ELSE <<>>
      BY <1>1, <2>2, EndCommitShape
    <3>2. /\ Onward(rt, res.rt) /\ res.rt.round_machine = m /\ res.rt.phase = "proposal"
      <4> DEFINE rt2 == [rt EXCEPT !.phase = "proposal"]
      <4>1. Onward(rt, rt2) /\ rt2.round_machine = m /\ rt2.phase = "proposal"
        BY PhaseGoesOn
      <4> QED  BY <3>1, <4>1, Zenon
    <3>3. CASE ~HoldsProposer(rt)
      BY <2>0, <3>1, <3>2, <3>3, SilentIsRegular
    <3>4. CASE HoldsProposer(rt)
      <4>1. /\ msg.type = "proposal" /\ msg.origin = current_proposer(m)
            /\ msg.rec.proposer = current_proposer(m) /\ msg.rec.round = m.current
        BY DEF message, DerivedProposal
      <4>2. ~Past(rt, m.current) /\ Past(res.rt, m.current)
        BY <1>0, <1>1, <3>2 DEF Past
      <4>3. current_proposer(m) = proposer_for_round(m.current) /\ current_proposer(m) \in rt.agents
        BY <3>4 DEF current_proposer, HoldsProposer
      <4> HIDE DEF msg, res
      <4>4. Honest(rt, res.rt, msg)
        BY <4>1, <4>2, <4>3 DEF Honest
      <4>5. res.out = <<msg>>
        BY <3>1, <3>4
      <4> QED  BY <2>0, <3>2, <4>4, <4>5 DEF Regular
    <3> QED  BY <3>3, <3>4
  <2> QED  BY <2>1, <2>2
<1>2. CASE rt.phase = "proposal"
  <2> DEFINE res == end_proposal_phase(rt)
  <2>0. EndPhase(rt) = res
    BY <1>2 DEF EndPhase
  <2>1. CASE m.proposal = None
    <3>1. res.out = <<>> /\ res.rt = Fallback(rt)
      BY <1>2, <2>1, EndProposalShape
    <3> QED  BY <1>2, <2>0, <3>1, FallbackGoesOn, SilentIsRegular
  <2>2. CASE m.proposal # None
    <3>1. /\ res.rt = [rt EXCEPT !.phase = "proof"]
          /\ \A i \in DOMAIN res.out : \E n \in rt.agents :
                 res.out[i] = ProofMessage(rt, n, m.current)
      BY <1>2, <2>2, EndProposalShape
    <3>2. Onward(rt, res.rt) /\ res.rt.log = rt.log
      <4> DEFINE rt2 == [rt EXCEPT !.phase = "proof"]
      <4>1. Onward(rt, rt2) /\ rt2.log = rt.log
        BY PhaseGoesOn
      <4> QED  BY <3>1, <4>1, Zenon
    <3>3. HasRound(rt.log, m.current)
      BY <1>0, <2>2 DEF ProposalsCoherent, HasRound
    <3>4. ASSUME NEW n \in rt.agents
          PROVE  LET msg == ProofMessage(rt, n, m.current)
                 IN  /\ msg.type = "proof" /\ msg.origin = n
                     /\ msg.rec.node_id = n /\ msg.rec.round = m.current
      BY DEF ProofMessage, message, build_proof_artifact, tamper_public_inputs
    <3> HIDE DEF res
    <3>5. \A i \in DOMAIN res.out : /\ res.out[i].type = "proof" /\ res.out[i].origin \in rt.agents
                                    /\ res.out[i].rec.node_id = res.out[i].origin
                                    /\ res.out[i].rec.round = m.current
      BY <3>1, <3>4
    <3> QED  BY <2>0, <3>2, <3>3, <3>5 DEF Regular, Honest
  <2> QED  BY <2>1, <2>2
<1>3. CASE rt.phase = "proof"
  <2> DEFINE res == end_proof_phase(rt)
             provider == m.proposal.candidate_provider
             msg == message(provider, "receipt",
                        [provider |-> provider, round |-> m.current,
                         signature |-> sign_receipt(provider, m.current, Required)])
  <2>0. EndPhase(rt) = res
    BY <1>3 DEF EndPhase
  <2>1. CASE ~HasBothProofs(rt, m.proposal)
    <3>1. res.out = <<>> /\ res.rt = Fallback(rt)
      BY <1>3, <2>1, EndProofShape
    <3> QED  BY <1>3, <2>0, <3>1, FallbackGoesOn, SilentIsRegular
  <2>2. CASE HasBothProofs(rt, m.proposal)
    <3>1. /\ res.rt = [rt EXCEPT !.phase = "receipt"]
          /\ res.out = <<>> \/ res.out = <<msg>>
      BY <1>3, <2>2, EndProofShape
    <3>2. Onward(rt, res.rt)
      BY <3>1, PhaseGoesOn
    <3>3. msg.type = "receipt"
      BY DEF message
    <3> HIDE DEF res, msg
    <3> QED  BY <2>0, <3>1, <3>2, <3>3 DEF Regular, Honest
  <2> QED  BY <2>1, <2>2
<1>4. CASE rt.phase = "receipt"
  <2> DEFINE res == end_receipt_phase(rt)
  <2>0. EndPhase(rt) = res
    BY <1>4 DEF EndPhase
  <2>1. res.out = <<>> /\ res.rt.round_machine = m /\ res.rt.phase = "done"
        /\ res.rt.log.proposals = rt.log.proposals /\ res.rt.log.proofs = rt.log.proofs
    BY <1>0 DEF RtInv, Runtimes, Logs, end_receipt_phase, set_final_round
  <2>2. Onward(rt, res.rt)
    BY <2>1 DEF Onward, Past
  <2> QED  BY <2>0, <2>1, <2>2, SilentIsRegular
<1> QED  BY <1>1, <1>2, <1>3, <1>4 DEF Draining

\* The end of the run goes on.
LEMMA EndRunGoesOn ==
    ASSUME NEW rt, RtInv(rt) PROVE Onward(rt, end_run(rt))
<1>1. rt \in Runtimes /\ rt.log \in Logs
  BY DEF RtInv, Runtimes
<1>2. LET rt2 == end_run(rt)
      IN  /\ rt2.round_machine = rt.round_machine /\ rt2.phase = "done"
          /\ rt2.log.proposals = rt.log.proposals /\ rt2.log.proofs = rt.log.proofs
  BY <1>1 DEF Runtimes, Logs, end_run, set_final_round, set_abort_reason
<1> QED  BY <1>2 DEF Onward, Past

\* Where no process is killed and none has a second session, every process has
\* one life only.
OneLife == \A s \in Setups : s.sessions = 1 /\ s.kills = 0

\* What a message in the order says of the process that sent it.
Backed(ps, msg) ==
    LET rec == msg.rec
    IN  /\ msg.type = "proposal" =>
               /\ msg.origin = rec.proposer /\ rec.proposer = proposer_for_round(rec.round)
               /\ Past(ps[msg.origin], rec.round)
        /\ msg.type = "proof" =>
               msg.origin = rec.node_id /\ HasRound(ps[msg.origin].log, rec.round)

Sent(o, kind, rec) == \E j \in DOMAIN o : o[j].msg.type = kind /\ o[j].msg.rec = rec

\* What is in the order is backed by its sender, no round has two proposals,
\* and what is on a log was in the order.
EvidenceInv ==
    /\ restarted = {}
    /\ \A n \in Nodes : procs[n].phase # "killed"
    /\ \A i \in DOMAIN order : Backed(procs, order[i].msg)
    /\ \A i, j \in DOMAIN order :
           (/\ order[i].msg.type = "proposal" /\ order[j].msg.type = "proposal"
            /\ order[i].msg.rec.round = order[j].msg.rec.round)
           => order[i].msg.rec = order[j].msg.rec
    /\ \A n \in Nodes :
           /\ \A i \in DOMAIN procs[n].log.proposals :
                  Sent(order, "proposal", procs[n].log.proposals[i])
           /\ \A i \in DOMAIN procs[n].log.proofs : Sent(order, "proof", procs[n].log.proofs[i])

\* Process n goes on, has logged nothing but what was in the order, and sends
\* what is honest.
Carries(n, rt2, more) ==
    /\ more \in Seq(Stamps) /\ order' = order \o more
    /\ procs' = [procs EXCEPT ![n] = rt2] /\ restarted' = restarted
    /\ rt2.phase # "killed"
    /\ \A r \in Nat : Past(procs[n], r) => Past(rt2, r)
    /\ \A r \in Nat : HasRound(procs[n].log, r) => HasRound(rt2.log, r)
    /\ \A i \in DOMAIN more : Honest(procs[n], rt2, more[i].msg)
    /\ \A i, j \in DOMAIN more :
           more[i].msg.type = "proposal" /\ more[j].msg.type = "proposal" => i = j
    /\ \A i \in DOMAIN rt2.log.proposals : Sent(order, "proposal", rt2.log.proposals[i])
    /\ \A i \in DOMAIN rt2.log.proofs : Sent(order, "proof", rt2.log.proofs[i])

\* That keeps the evidence.
LEMMA EvidenceCarries ==
    ASSUME ClusterInv, EvidenceInv, NEW n \in Nodes, NEW rt2, NEW more, Carries(n, rt2, more)
    PROVE  EvidenceInv'
<1>1. /\ order \in Seq(Stamps) /\ procs \in [Nodes -> Runtimes]
      /\ procs[n].agents = {n} /\ more \in Seq(Stamps)
  BY DEF ClusterInv, ProcInv, Carries
<1>2. procs'[n] = rt2 /\ \A k \in Nodes : k # n => procs'[k] = procs[k]
  BY <1>1 DEF Carries
<1>3. /\ order' \in Seq(Stamps)
      /\ \A i \in DOMAIN order : i \in DOMAIN order' /\ order'[i] = order[i]
      /\ \A i \in DOMAIN order' : \/ i \in DOMAIN order /\ order'[i] = order[i]
                                  \/ \E j \in DOMAIN more : /\ i = Len(order) + j
                                                            /\ order'[i] = more[j]
  BY <1>1, ConcatProperties DEF Carries
<1>4. ASSUME NEW x \in Stamps
      PROVE  /\ x.msg.origin \in Nodes
             /\ x.msg.type \in {"proposal", "proof"} => x.msg.rec.round \in Nat
  <2>1. x.msg \in Messages
    BY DEF Stamps
  <2>2. MaxRounds \in Nat
    BY MaxRoundsAssumption DEF MaxRoundsAssumption
  <2> QED  BY <2>1, <2>2, MessageFacts DEF ProposalRecord, SentProofs, RoundIds
<1>5. \A i \in DOMAIN order : order[i] \in Stamps
  BY <1>1
<1>6. ASSUME NEW x \in Stamps, Backed(procs, x.msg) PROVE Backed(procs', x.msg)
  <2> DEFINE msg == x.msg
  <2>1. Backed(procs, msg) /\ msg.origin \in Nodes
        /\ (msg.type \in {"proposal", "proof"} => msg.rec.round \in Nat)
    BY <1>4, <1>6
  <2> HIDE DEF msg
  <2>2. Backed(procs', msg)
    BY <1>2, <2>1 DEF Backed, Carries
  <2> QED  BY <2>2 DEF msg
<1>7. ASSUME NEW j \in DOMAIN more PROVE Backed(procs', more[j].msg)
  <2> DEFINE msg == more[j].msg
  <2>1. Honest(procs[n], rt2, msg)
    BY <1>7 DEF Carries
  <2> HIDE DEF msg
  <2>2. Backed(procs', msg)
    BY <1>1, <1>2, <2>1 DEF Backed, Honest
  <2> QED  BY <2>2 DEF msg
<1>8. \A i \in DOMAIN order' : Backed(procs', order'[i].msg)
  BY <1>3, <1>5, <1>6, <1>7 DEF EvidenceInv
<1>9. ASSUME NEW i \in DOMAIN order, NEW j \in DOMAIN more,
             order[i].msg.type = "proposal", more[j].msg.type = "proposal",
             order[i].msg.rec.round = more[j].msg.rec.round
      PROVE  FALSE
  <2> DEFINE old == order[i].msg
             fresh == more[j].msg
  <2>1. Honest(procs[n], rt2, fresh) /\ Backed(procs, old)
    BY DEF EvidenceInv, Carries
  <2>2. old.type = "proposal" /\ fresh.type = "proposal" /\ old.rec.round = fresh.rec.round
    BY <1>9
  <2> HIDE DEF old, fresh
  <2>3. fresh.origin = n /\ ~Past(procs[n], fresh.rec.round)
        /\ n = proposer_for_round(fresh.rec.round)
    BY <1>1, <2>1, <2>2 DEF Honest
  <2>4. old.origin = proposer_for_round(old.rec.round) /\ Past(procs[old.origin], old.rec.round)
    BY <2>1, <2>2 DEF Backed
  <2> QED  BY <2>2, <2>3, <2>4
<1>10. ASSUME NEW i \in DOMAIN order', NEW j \in DOMAIN order',
              order'[i].msg.type = "proposal", order'[j].msg.type = "proposal",
              order'[i].msg.rec.round = order'[j].msg.rec.round
       PROVE  order'[i].msg.rec = order'[j].msg.rec
  <2>1. CASE i \in DOMAIN order /\ j \in DOMAIN order
    <3>1. order'[i] = order[i] /\ order'[j] = order[j]
      BY <1>3, <2>1
    <3> QED  BY <1>10, <2>1, <3>1 DEF EvidenceInv
  <2>2. CASE i \in DOMAIN order /\ j \notin DOMAIN order
    <3>1. PICK b \in DOMAIN more : order'[j] = more[b]
      BY <1>3, <2>2
    <3> QED  BY <1>3, <1>9, <1>10, <2>2, <3>1
  <2>3. CASE i \notin DOMAIN order /\ j \in DOMAIN order
    <3>1. PICK a \in DOMAIN more : order'[i] = more[a]
      BY <1>3, <2>3
    <3> QED  BY <1>3, <1>9, <1>10, <2>3, <3>1
  <2>4. CASE i \notin DOMAIN order /\ j \notin DOMAIN order
    <3>1. PICK a \in DOMAIN more : order'[i] = more[a]
      BY <1>3, <2>4
    <3>2. PICK b \in DOMAIN more : order'[j] = more[b]
      BY <1>3, <2>4
    <3>3. a = b
      BY <1>10, <3>1, <3>2 DEF Carries
    <3> QED  BY <3>1, <3>2, <3>3
  <2> QED  BY <2>1, <2>2, <2>3, <2>4
<1>11. ASSUME NEW kind, NEW rec, Sent(order, kind, rec) PROVE Sent(order', kind, rec)
  BY <1>3, <1>11 DEF Sent
<1>12. ASSUME NEW k \in Nodes
       PROVE  /\ \A i \in DOMAIN procs'[k].log.proposals :
                     Sent(order', "proposal", procs'[k].log.proposals[i])
              /\ \A i \in DOMAIN procs'[k].log.proofs :
                     Sent(order', "proof", procs'[k].log.proofs[i])
              /\ procs'[k].phase # "killed"
  <2>1. CASE k = n
    BY <1>2, <1>11, <2>1 DEF Carries
  <2>2. CASE k # n
    BY <1>2, <1>11, <2>2 DEF EvidenceInv
  <2> QED  BY <2>1, <2>2
<1> QED  BY <1>8, <1>10, <1>12 DEF EvidenceInv, Carries

\* Nothing has been sent or logged at first.
LEMMA InitEvidenceInv == Init => EvidenceInv
<1> SUFFICES ASSUME Init PROVE EvidenceInv
  OBVIOUS
<1>1. /\ restarted = {} /\ order = <<>>
      /\ procs = [n \in Nodes |-> new_runtime({n}, setup.scenario)]
  BY DEF Init
<1>2. ASSUME NEW n \in Nodes
      PROVE  /\ procs[n].phase = "loop" /\ procs[n].log.proposals = <<>>
             /\ procs[n].log.proofs = <<>>
  BY <1>1 DEF new_runtime, new_log
<1> QED  BY <1>1, <1>2 DEF EvidenceInv

\* A broadcasting step keeps the evidence, also if its messages are lost or
\* the worker is gone.
LEMMA BroadcastingCarries ==
    ASSUME ClusterInv, EvidenceInv, NEW n \in Nodes, NEW step, Sound(procs[n], step),
           Regular(procs[n], step), Broadcasting(n, step), restarted' = restarted,
           UNCHANGED <<setup, pos>>
    PROVE  EvidenceInv'
<1>1. /\ procs \in [Nodes -> Runtimes] /\ order \in Seq(Stamps) /\ RtInv(procs[n])
      /\ procs[n].agents = {n}
  BY DEF ClusterInv, ProcInv
<1>2. /\ Onward(procs[n], step.rt) /\ step.rt.log.proposals = procs[n].log.proposals
      /\ step.rt.log.proofs = procs[n].log.proofs
  BY DEF Regular, Onward
<1>3. \A r : HasRound(procs[n].log, r) => HasRound(step.rt.log, r)
  BY <1>2 DEF HasRound
<1>4. /\ \A i \in DOMAIN procs[n].log.proposals :
             Sent(order, "proposal", procs[n].log.proposals[i])
      /\ \A i \in DOMAIN procs[n].log.proofs : Sent(order, "proof", procs[n].log.proofs[i])
  BY DEF EvidenceInv
<1>5. <<>> \in Seq(Stamps) /\ order \o <<>> = order
  BY <1>1, ConcatEmptySeq
<1>6. CASE Ordered(n, step)
  <2> DEFINE more == Stamped(n, step.rt, step.out)
  <2>1. order' = order \o more /\ procs' = [procs EXCEPT ![n] = step.rt]
    BY <1>6 DEF Ordered
  <2>2. DOMAIN more = DOMAIN step.out /\ \A i \in DOMAIN step.out : more[i].msg = step.out[i]
    BY DEF Stamped
  <2>3. more \in Seq(Stamps)
    <3>1. session[n] \in Nat /\ step.rt \in Runtimes
      BY SetupFacts DEF ClusterInv, Sound, Keeps, RtInv
    <3>2. PICK st \in Nat : st = StageOf(step.rt, session[n])
      BY <3>1, StageIsNat
    <3>3. PICK out, l : out = step.out /\ l \in Nat /\ DOMAIN out = 1..l
                        /\ \A i \in 1..l : out[i] \in Messages
      BY DEF Sound
    <3>4. more = [i \in 1..l |-> [stage |-> st, msg |-> out[i]]]
      BY <3>2, <3>3 DEF Stamped
    <3>5. \A i \in 1..l : [stage |-> st, msg |-> out[i]] \in Stamps
      BY <3>2, <3>3 DEF Stamps
    <3> QED  BY <3>3, <3>4, <3>5
  <2> HIDE DEF more
  <2>4. \A i \in DOMAIN more : Honest(procs[n], step.rt, more[i].msg)
    BY <2>2 DEF Regular
  <2>5. \A i, j \in DOMAIN more :
            more[i].msg.type = "proposal" /\ more[j].msg.type = "proposal" => i = j
    BY <2>2 DEF Regular
  <2>6. Carries(n, step.rt, more)
    BY <1>2, <1>3, <1>4, <2>1, <2>3, <2>4, <2>5 DEF Onward, Carries
  <2> QED  BY <2>6, EvidenceCarries
<1>7. CASE LostInWorker(n, step)
  <2>1. order' = order \o <<>> /\ procs' = [procs EXCEPT ![n] = step.rt]
    BY <1>5, <1>7 DEF LostInWorker
  <2>2. Carries(n, step.rt, <<>>)
    BY <1>2, <1>3, <1>4, <1>5, <2>1 DEF Onward, Carries
  <2> QED  BY <2>2, EvidenceCarries
<1>8. CASE OnClosed(n, step) /\ step.out = <<>>
  <2>1. order' = order \o <<>> /\ procs' = [procs EXCEPT ![n] = step.rt]
    BY <1>5, <1>8 DEF OnClosed
  <2>2. Carries(n, step.rt, <<>>)
    BY <1>2, <1>3, <1>4, <1>5, <2>1 DEF Onward, Carries
  <2> QED  BY <2>2, EvidenceCarries
<1>9. CASE OnClosed(n, step) /\ step.out # <<>>
  <2> DEFINE rt2 == [procs[n] EXCEPT !.phase = "failed"]
  <2>1. order' = order \o <<>> /\ procs' = [procs EXCEPT ![n] = rt2]
    BY <1>5, <1>9 DEF OnClosed
  <2>2. /\ rt2.phase = "failed" /\ rt2.log = procs[n].log
        /\ rt2.round_machine = procs[n].round_machine
    BY <1>1 DEF Runtimes
  <2> HIDE DEF rt2
  <2>3. \A r \in Nat : Past(procs[n], r) => Past(rt2, r)
    BY <2>2 DEF Past
  <2>4. Carries(n, rt2, <<>>)
    BY <1>4, <1>5, <2>1, <2>2, <2>3 DEF Carries
  <2> QED  BY <2>4, EvidenceCarries
<1> QED  BY <1>6, <1>7, <1>8, <1>9 DEF Broadcasting

\* So does every step of processes that have one life.
LEMMA StepEvidenceInv ==
    ASSUME OneLife PROVE ClusterInv /\ EvidenceInv /\ [Next]_vars => EvidenceInv'
<1> SUFFICES ASSUME ClusterInv, EvidenceInv, [Next]_vars PROVE EvidenceInv'
  OBVIOUS
<1>0. /\ setup.sessions = 1 /\ setup.kills = 0 /\ restarted = {}
      /\ procs \in [Nodes -> Runtimes] /\ order \in Seq(Stamps)
      /\ pos \in [Nodes -> 0..Len(order)] /\ session \in [Nodes -> 0..(setup.sessions - 1)]
      /\ \A n \in Nodes : RtInv(procs[n]) /\ procs[n].phase # "killed"
  BY DEF ClusterInv, ProcInv, EvidenceInv, OneLife
<1>00. <<>> \in Seq(Stamps) /\ order \o <<>> = order
  BY <1>0, ConcatEmptySeq
<1>1. ASSUME NEW n \in Nodes, BeginRound(n) PROVE EvidenceInv'
  <2> DEFINE step == broadcast_commitments(procs[n])
  <2>1. Sound(procs[n], step) /\ Regular(procs[n], step)
    BY <1>0, <1>1, BroadcastCommitmentsSound, BeginRoundRegular DEF BeginRound
  <2>2. UNCHANGED <<setup, restarted, pos>> /\ Broadcasting(n, step)
    BY <1>1 DEF BeginRound, life
  <2> HIDE DEF step
  <2> QED  BY <2>1, <2>2, BroadcastingCarries
<1>2. ASSUME NEW n \in Nodes, Receive(n) PROVE EvidenceInv'
  <2> DEFINE msg == order[pos[n] + 1].msg
             rt2 == Drain(procs[n], msg)
  <2>1. /\ Draining(procs[n]) /\ procs' = [procs EXCEPT ![n] = rt2]
        /\ UNCHANGED <<order, restarted>> /\ Unread(n) # {}
    BY <1>0, <1>2 DEF Receive, Readable, life
  <2>2. pos[n] + 1 \in DOMAIN order
    BY <1>0, <2>1 DEF Unread
  <2>3. msg \in Messages /\ Sent(order, msg.type, msg.rec)
    <3>1. order[pos[n] + 1] \in Stamps
      BY <1>0, <2>2
    <3> QED  BY <2>2, <3>1 DEF Stamps, Sent
  <2> HIDE DEF msg
  <2>4. /\ rt2.phase = procs[n].phase
        /\ rt2.round_machine.current = procs[n].round_machine.current
        /\ \/ rt2.log.proposals = procs[n].log.proposals
           \/ /\ msg.type = "proposal"
              /\ rt2.log.proposals = Append(procs[n].log.proposals, msg.rec)
        /\ \/ rt2.log.proofs = procs[n].log.proofs
           \/ msg.type = "proof" /\ rt2.log.proofs = Append(procs[n].log.proofs, msg.rec)
    BY <1>0, <2>1, <2>3, DrainLogsTheMessage
  <2> HIDE DEF rt2
  <2>5. \A r \in Nat : Past(procs[n], r) => Past(rt2, r)
    BY <2>4 DEF Past
  <2> DEFINE s == procs[n].log.proposals
             q == procs[n].log.proofs
  <2>6. s \in Seq(ProposalRecord) /\ q \in Seq(SentProofs)
    BY <1>0 DEF Runtimes, Logs
  <2>7. /\ \A i \in DOMAIN s : Sent(order, "proposal", s[i])
        /\ \A i \in DOMAIN q : Sent(order, "proof", q[i])
    BY DEF EvidenceInv
  <2> HIDE DEF s, q
  <2> DEFINE s2 == rt2.log.proposals
             q2 == rt2.log.proofs
  <2>71. /\ s2 = s \/ (msg.type = "proposal" /\ s2 = Append(s, msg.rec))
         /\ q2 = q \/ (msg.type = "proof" /\ q2 = Append(q, msg.rec))
         /\ msg.type = "proposal" => msg.rec \in ProposalRecord
         /\ msg.type = "proof" => msg.rec \in SentProofs
    BY <2>3, <2>4, MessageFacts DEF s, q
  <2> HIDE DEF s2, q2
  <2>72. ASSUME NEW S, NEW a \in Seq(S), NEW e \in S
         PROVE  LET b == Append(a, e)
                IN  /\ \A i \in DOMAIN a : i \in DOMAIN b /\ b[i] = a[i]
                    /\ \A i \in DOMAIN b : (i \in DOMAIN a /\ b[i] = a[i]) \/ b[i] = e
    OBVIOUS
  <2>8. /\ \A i \in DOMAIN s : i \in DOMAIN s2 /\ s2[i] = s[i]
        /\ \A i \in DOMAIN s2 : \/ i \in DOMAIN s /\ s2[i] = s[i]
                                \/ msg.type = "proposal" /\ s2[i] = msg.rec
    <3>1. CASE s2 = s
      BY <3>1
    <3>2. CASE msg.type = "proposal" /\ s2 = Append(s, msg.rec)
      <4>1. msg.rec \in ProposalRecord
        BY <2>71, <3>2
      <4>2. LET b == Append(s, msg.rec)
            IN  /\ \A i \in DOMAIN s : i \in DOMAIN b /\ b[i] = s[i]
                /\ \A i \in DOMAIN b : (i \in DOMAIN s /\ b[i] = s[i]) \/ b[i] = msg.rec
        BY <2>6, <2>72, <4>1
      <4> QED  BY <3>2, <4>2
    <3> QED  BY <2>71, <3>1, <3>2
  <2>9. \A i \in DOMAIN q2 : \/ i \in DOMAIN q /\ q2[i] = q[i]
                             \/ msg.type = "proof" /\ q2[i] = msg.rec
    <3>1. CASE q2 = q
      BY <3>1
    <3>2. CASE msg.type = "proof" /\ q2 = Append(q, msg.rec)
      <4>1. msg.rec \in SentProofs
        BY <2>71, <3>2
      <4>2. LET b == Append(q, msg.rec)
            IN  /\ \A i \in DOMAIN q : i \in DOMAIN b /\ b[i] = q[i]
                /\ \A i \in DOMAIN b : (i \in DOMAIN q /\ b[i] = q[i]) \/ b[i] = msg.rec
        BY <2>6, <2>72, <4>1
      <4> QED  BY <3>2, <4>2
    <3> QED  BY <2>71, <3>1, <3>2
  <2>10. \A i \in DOMAIN rt2.log.proposals : Sent(order, "proposal", rt2.log.proposals[i])
    BY <2>3, <2>7, <2>8 DEF s2
  <2>11. \A i \in DOMAIN rt2.log.proofs : Sent(order, "proof", rt2.log.proofs[i])
    BY <2>3, <2>7, <2>9 DEF q2
  <2>12. \A r : HasRound(procs[n].log, r) => HasRound(rt2.log, r)
    BY <2>8 DEF HasRound, s, s2
  <2>13. order' = order \o <<>> /\ rt2.phase # "killed"
    BY <1>0, <1>00, <2>1, <2>4
  <2>14. Carries(n, rt2, <<>>)
    BY <1>00, <2>1, <2>5, <2>10, <2>11, <2>12, <2>13 DEF Carries
  <2> QED  BY <2>14, EvidenceCarries
<1>3. ASSUME NEW n \in Nodes, PhaseEnds(n) PROVE EvidenceInv'
  <2> DEFINE step == EndPhase(procs[n])
  <2>1. Sound(procs[n], step) /\ Regular(procs[n], step)
    BY <1>0, <1>3, EndPhaseSound, EndPhaseRegular DEF PhaseEnds
  <2>2. UNCHANGED <<setup, restarted, pos>> /\ Broadcasting(n, step)
    BY <1>3 DEF PhaseEnds, life
  <2> HIDE DEF step
  <2> QED  BY <2>1, <2>2, BroadcastingCarries
<1>4. ASSUME NEW n \in Nodes, RunEnds(n) PROVE EvidenceInv'
  <2> DEFINE rt2 == end_run(procs[n])
  <2>1. /\ procs' = [procs EXCEPT ![n] = rt2] /\ restarted' = restarted
        /\ order' = order \o <<>>
    BY <1>0, <1>00, <1>4 DEF RunEnds, life
  <2>2. Onward(procs[n], rt2)
    BY <1>0, EndRunGoesOn
  <2> HIDE DEF rt2
  <2>3. /\ rt2.log.proposals = procs[n].log.proposals /\ rt2.log.proofs = procs[n].log.proofs
        /\ rt2.phase # "killed" /\ \A r \in Nat : Past(procs[n], r) => Past(rt2, r)
    BY <2>2 DEF Onward
  <2>4. /\ \A i \in DOMAIN procs[n].log.proposals :
               Sent(order, "proposal", procs[n].log.proposals[i])
        /\ \A i \in DOMAIN procs[n].log.proofs : Sent(order, "proof", procs[n].log.proofs[i])
    BY DEF EvidenceInv
  <2>5. \A r : HasRound(procs[n].log, r) => HasRound(rt2.log, r)
    BY <2>3 DEF HasRound
  <2>6. Carries(n, rt2, <<>>)
    BY <1>00, <2>1, <2>3, <2>4, <2>5 DEF Carries
  <2> QED  BY <2>6, EvidenceCarries
<1>5. ASSUME NEW n \in Nodes, NextSession(n) PROVE FALSE
  BY <1>0, <1>5 DEF NextSession
<1>6. ASSUME NEW n \in Nodes, WorkerExits(n) PROVE EvidenceInv'
  BY <1>6 DEF WorkerExits, life, EvidenceInv
<1>7. ASSUME NEW n \in Nodes, Killed(n) PROVE FALSE
  <2>1. Cardinality(restarted) = 0
    BY <1>0, FS_EmptySet
  <2> QED  BY <1>0, <1>7, <2>1 DEF Killed
<1>8. ASSUME NEW n \in Nodes, Rejoin(n) PROVE FALSE
  BY <1>0, <1>8 DEF Rejoin
<1>9. CASE UNCHANGED vars
  BY <1>9 DEF vars, EvidenceInv
<1> QED  BY <1>1, <1>2, <1>3, <1>4, <1>5, <1>6, <1>7, <1>8, <1>9 DEF Next, Step, Terminated

\* The evidence is invariant where every process has one life.
LEMMA EvidenceIsInvariant ==
    ASSUME OneLife PROVE Spec => [](ClusterInv /\ EvidenceInv)
<1>1. Init => ClusterInv /\ EvidenceInv
  BY InitClusterInv, InitEvidenceInv
<1>2. ClusterInv /\ EvidenceInv /\ [Next]_vars => (ClusterInv /\ EvidenceInv)'
  BY StepClusterInv, StepEvidenceInv
<1> QED  BY <1>1, <1>2, PTL DEF Spec

\* What the evidence says of proposals.
LEMMA EvidenceAgrees ==
    ASSUME ClusterInv, EvidenceInv PROVE ProposalsAgree
<1> SUFFICES ASSUME NEW a \in Nodes, NEW b \in Nodes, NEW i \in DOMAIN LogOf(a).proposals,
                    NEW j \in DOMAIN LogOf(b).proposals,
                    LogOf(a).proposals[i].round = LogOf(b).proposals[j].round
             PROVE  LogOf(a).proposals[i] = LogOf(b).proposals[j]
  BY DEF ProposalsAgree
<1>1. PICK k \in DOMAIN order :
          order[k].msg.type = "proposal" /\ order[k].msg.rec = LogOf(a).proposals[i]
  BY DEF EvidenceInv, Sent, LogOf
<1>2. PICK l \in DOMAIN order :
          order[l].msg.type = "proposal" /\ order[l].msg.rec = LogOf(b).proposals[j]
  BY DEF EvidenceInv, Sent, LogOf
<1>3. order[k].msg.rec = order[l].msg.rec
  BY <1>1, <1>2 DEF EvidenceInv
<1> QED  BY <1>1, <1>2, <1>3

\* What the evidence says of a finalized round.
LEMMA EvidenceHasBothParties ==
    ASSUME ClusterInv, EvidenceInv PROVE FinalizedNeedsBothParties
<1> SUFFICES ASSUME NEW n \in Nodes, Finalized(n)
             PROVE  LET p == LoggedProposal(LogOf(n), LogOf(n).final_round)
                    IN  \A k \in {p.candidate_requester, p.candidate_provider} :
                            \E i \in DOMAIN LogOf(k).proposals : LogOf(k).proposals[i] = p
  BY DEF FinalizedNeedsBothParties
<1> DEFINE rt == procs[n]
           m == rt.round_machine
           p == m.proposal
<1>1. /\ m \in Machine /\ rt.log \in Logs /\ CommitmentsCoherent(m, rt.log)
      /\ ProposalsCoherent(m, rt.log) /\ PhaseCoherent(rt)
      /\ rt.phase = "done" /\ rt.log.finalized
  BY DEF ClusterInv, ProcInv, RtInv, Runtimes, Finalized, Done, LogOf
<1>2. rt.log.final_round = m.current /\ p # None /\ HasBothProofs(rt, p)
  BY <1>1 DEF PhaseCoherent
<1>3. LoggedProposal(LogOf(n), LogOf(n).final_round) = p
  BY <1>1, <1>2, LookupProposal DEF LogOf
<1>4. /\ p.candidate_requester \in Nodes /\ p.candidate_provider \in Nodes
      /\ p.round = m.current
  BY <1>1, <1>2, AcceptedProposal, NodeFacts DEF Grounded
<1>5. PICK i \in DOMAIN LogOf(n).proposals : LogOf(n).proposals[i] = p
  BY <1>1, <1>2 DEF ProposalsCoherent, LogOf
<1>6. ASSUME NEW k \in {p.candidate_requester, p.candidate_provider}
      PROVE  \E j \in DOMAIN LogOf(k).proposals : LogOf(k).proposals[j] = p
  <2>1. PICK x \in DOMAIN rt.log.proofs :
            rt.log.proofs[x].round = m.current /\ rt.log.proofs[x].node_id = k
    BY <1>2 DEF HasBothProofs, HasProof
  <2>2. PICK y \in DOMAIN order :
            order[y].msg.type = "proof" /\ order[y].msg.rec = rt.log.proofs[x]
    BY DEF EvidenceInv, Sent
  <2>3. HasRound(LogOf(k), m.current)
    BY <2>1, <2>2 DEF EvidenceInv, Backed, LogOf
  <2>4. PICK j \in DOMAIN LogOf(k).proposals : LogOf(k).proposals[j].round = m.current
    BY <2>3 DEF HasRound
  <2>5. LogOf(n).proposals[i].round = LogOf(k).proposals[j].round /\ k \in Nodes
    BY <1>4, <1>5, <2>4
  <2>6. LogOf(n).proposals[i] = LogOf(k).proposals[j]
    BY <2>5, EvidenceAgrees DEF ProposalsAgree
  <2> QED  BY <1>5, <2>6
<1> HIDE DEF p
<1> QED  BY <1>3, <1>6

\* However the phases of the processes drift apart, whatever is lost with a
\* worker and whatever the scenario, the processes of one session accept one
\* proposal per round: two logs that have a proposal for the same round have
\* the same one (accept_proposal of round_machine.rs takes the first that
\* passes, and broadcast_proposal sends one per round).
THEOREM ProposalsOfASessionAgree == ASSUME OneLife PROVE Spec => []ProposalsAgree
  BY EvidenceIsInvariant, EvidenceAgrees, PTL

\* A process that finalizes a round (has_req_proof && has_prov_proof) is not
\* alone: the processes of the requester and of the matched provider have
\* accepted the very same proposal, whatever the transport did.
THEOREM FinalizingIsNeverUnilateral ==
    ASSUME OneLife PROVE Spec => []FinalizedNeedsBothParties
  BY EvidenceIsInvariant, EvidenceHasBothParties, PTL

-----------------------------------------------------------------------------
(* What is left of that across sessions and lives of the processes, where  *)
(* a round may have several proposals and a message may be read by a       *)
(* process in another session than its sender.                             *)

\* A log holds no proposal and no proof but what was in the order.
OnlySent(o, log) ==
    /\ \A i \in DOMAIN log.proposals : Sent(o, "proposal", log.proposals[i])
    /\ \A i \in DOMAIN log.proofs : Sent(o, "proof", log.proofs[i])

\* A proposal names the node as one of its two parties.
Names(p, k) == k \in {p.candidate_requester, p.candidate_provider}

\* A proof at place l of the order is its node's own, and a proposal for its
\* round that names the node stands before it.
Foretold(o, l, msg) ==
    msg.type = "proof" =>
        /\ msg.origin = msg.rec.node_id
        /\ \E i \in DOMAIN o : /\ i < l /\ o[i].msg.type = "proposal"
                               /\ o[i].msg.rec.round = msg.rec.round
                               /\ Names(o[i].msg.rec, msg.origin)

ConsentInv ==
    /\ \A j \in DOMAIN order : Foretold(order, j, order[j].msg)
    /\ \A n \in Nodes : OnlySent(order, procs[n].log)

\* A proof follows a proposal of its round on the log that names its node.
Willing(log, msg) ==
    msg.type = "proof" =>
        /\ msg.origin = msg.rec.node_id
        /\ \E i \in DOMAIN log.proposals : /\ log.proposals[i].round = msg.rec.round
                                           /\ Names(log.proposals[i], msg.origin)

\* Only named nodes prove.
LEMMA EndPhaseIsWilling ==
    ASSUME NEW rt, RtInv(rt), Draining(rt), NEW i \in DOMAIN EndPhase(rt).out
    PROVE  Willing(rt.log, EndPhase(rt).out[i])
<1> DEFINE m == rt.round_machine
<1>0. /\ m \in Machine /\ rt.log \in Logs /\ CommitmentsCoherent(m, rt.log)
      /\ ProposalsCoherent(m, rt.log)
  BY DEF RtInv, Runtimes
<1>1. CASE rt.phase = "commit"
  <2> DEFINE msg == message(current_proposer(m), "proposal", DerivedProposal(m))
  <2>1. EndPhase(rt).out = <<>> \/ EndPhase(rt).out = <<msg>>
    BY <1>1, EndCommitShape DEF EndPhase
  <2>2. msg.type = "proposal"
    BY DEF message
  <2> HIDE DEF msg
  <2> QED  BY <2>1, <2>2 DEF Willing
<1>2. CASE rt.phase = "proposal"
  <2> DEFINE res == end_proposal_phase(rt)
             p == m.proposal
  <2>0. EndPhase(rt) = res
    BY <1>2 DEF EndPhase
  <2>1. CASE p = None
    <3>1. res.out = <<>>
      BY <1>2, <2>1, EndProposalShape
    <3> QED  BY <2>0, <3>1
  <2>2. CASE p # None
    <3>0. i \in DOMAIN res.out
      BY <2>0
    <3>00. \A j \in DOMAIN res.out : \E n \in {Requester, p.candidate_provider} \cap rt.agents :
               res.out[j] = ProofMessage(rt, n, m.current)
      BY <1>2, <2>2, EndProposalShape
    <3>1. PICK n \in {Requester, p.candidate_provider} : res.out[i] = ProofMessage(rt, n, m.current)
      BY <3>0, <3>00
    <3>2. LET msg == ProofMessage(rt, n, m.current)
          IN  msg.origin = n /\ msg.rec.node_id = n /\ msg.rec.round = m.current
      BY DEF ProofMessage, message, build_proof_artifact, tamper_public_inputs
    <3>3. p.round = m.current /\ Names(p, n)
      BY <1>0, <2>2, AcceptedProposal DEF Grounded, Names
    <3>4. PICK x \in DOMAIN rt.log.proposals : rt.log.proposals[x] = p
      BY <1>0, <2>2 DEF ProposalsCoherent
    <3>5. PICK msg : msg = res.out[i]
      OBVIOUS
    <3>6. msg.origin = n /\ msg.rec.node_id = n /\ msg.rec.round = m.current
      BY <3>1, <3>2, <3>5
    <3>7. Willing(rt.log, msg)
      BY <3>3, <3>4, <3>6 DEF Willing
    <3> QED  BY <2>0, <3>5, <3>7
  <2> QED  BY <2>1, <2>2
<1>3. CASE rt.phase = "proof"
  <2> DEFINE provider == m.proposal.candidate_provider
             msg == message(provider, "receipt",
                        [provider |-> provider, round |-> m.current,
                         signature |-> sign_receipt(provider, m.current, Required)])
  <2>1. EndPhase(rt).out = <<>> \/ EndPhase(rt).out = <<msg>>
    BY <1>3, EndProofShape DEF EndPhase
  <2>2. msg.type = "receipt"
    BY DEF message
  <2> HIDE DEF msg
  <2> QED  BY <2>1, <2>2 DEF Willing
<1>4. CASE rt.phase = "receipt"
  BY <1>4 DEF EndPhase, end_receipt_phase
<1> QED  BY <1>1, <1>2, <1>3, <1>4 DEF Draining

\* What is sent by processes whose logs are of the order keeps the invariant.
LEMMA ConsentKept ==
    ASSUME ClusterInv, ConsentInv, NEW more \in Seq(Stamps), order' = order \o more,
           \A j \in DOMAIN more : \E n \in Nodes : Willing(procs[n].log, more[j].msg),
           \A k \in Nodes : OnlySent(order, procs'[k].log)
    PROVE  ConsentInv'
<1>1. order \in Seq(Stamps) /\ Len(order) \in Nat
  BY DEF ClusterInv
<1>2. /\ \A i \in DOMAIN order : i \in DOMAIN order' /\ order'[i] = order[i]
      /\ \A i \in DOMAIN order' : \/ i \in DOMAIN order /\ order'[i] = order[i]
                                  \/ \E j \in DOMAIN more : /\ i = Len(order) + j
                                                            /\ order'[i] = more[j]
  BY <1>1, ConcatProperties
<1>3. ASSUME NEW i \in DOMAIN order PROVE Foretold(order', i, order'[i].msg)
  <2>1. Foretold(order, i, order[i].msg) /\ order'[i] = order[i]
    BY <1>2 DEF ConsentInv
  <2> QED  BY <1>2, <2>1 DEF Foretold
<1>4. ASSUME NEW j \in DOMAIN more PROVE Foretold(order', Len(order) + j, more[j].msg)
  <2>1. PICK msg : msg = more[j].msg
    OBVIOUS
  <2>2. PICK n \in Nodes : Willing(procs[n].log, msg)
    BY <2>1
  <2>3. CASE msg.type # "proof"
    BY <2>1, <2>3 DEF Foretold
  <2>4. CASE msg.type = "proof"
    <3>1. PICK x \in DOMAIN procs[n].log.proposals :
              /\ procs[n].log.proposals[x].round = msg.rec.round
              /\ Names(procs[n].log.proposals[x], msg.origin)
      BY <2>2, <2>4 DEF Willing
    <3>2. PICK y \in DOMAIN order : /\ order[y].msg.type = "proposal"
                                    /\ order[y].msg.rec = procs[n].log.proposals[x]
      BY DEF ConsentInv, OnlySent, Sent
    <3>3. y < Len(order) + j
      BY <1>1
    <3>4. y \in DOMAIN order' /\ order'[y] = order[y]
      BY <1>2
    <3>5. Foretold(order', Len(order) + j, msg)
      BY <2>2, <2>4, <3>1, <3>2, <3>3, <3>4 DEF Foretold, Willing
    <3> QED  BY <2>1, <3>5
  <2> QED  BY <2>3, <2>4
<1>5. \A i \in DOMAIN order' : Foretold(order', i, order'[i].msg)
  <2> SUFFICES ASSUME NEW i \in DOMAIN order' PROVE Foretold(order', i, order'[i].msg)
    OBVIOUS
  <2>1. CASE i \in DOMAIN order
    BY <1>3, <2>1
  <2>2. CASE i \notin DOMAIN order
    <3>1. PICK j \in DOMAIN more : i = Len(order) + j /\ order'[i] = more[j]
      BY <1>2, <2>2
    <3> QED  BY <1>4, <3>1
  <2> QED  BY <2>1, <2>2
<1>6. ASSUME NEW k \in Nodes PROVE OnlySent(order', procs'[k].log)
  <2>1. ASSUME NEW kind, NEW rec, Sent(order, kind, rec) PROVE Sent(order', kind, rec)
    BY <1>2, <2>1 DEF Sent
  <2>2. OnlySent(order, procs'[k].log)
    OBVIOUS
  <2> QED  BY <2>1, <2>2 DEF OnlySent
<1> QED  BY <1>5, <1>6 DEF ConsentInv

\* A process changes whose log stays within the order, and nothing is sent.
LEMMA SilentConsent ==
    ASSUME ClusterInv, ConsentInv, NEW n \in Nodes, NEW rt2, OnlySent(order, rt2.log),
           procs' = [procs EXCEPT ![n] = rt2], order' = order
    PROVE  ConsentInv'
<1>1. order \in Seq(Stamps) /\ procs \in [Nodes -> Runtimes]
  BY DEF ClusterInv
<1>2. PICK none \in Seq(Stamps) : order' = order \o none /\ DOMAIN none = {}
  <2>1. <<>> \in Seq(Stamps) /\ order \o <<>> = order /\ DOMAIN <<>> = {}
    BY <1>1, ConcatEmptySeq
  <2> QED  BY <2>1
<1>3. \A k \in Nodes : procs'[k] = IF k = n THEN rt2 ELSE procs[k]
  BY <1>1
<1>4. ASSUME NEW k \in Nodes PROVE OnlySent(order, procs'[k].log)
  BY <1>3 DEF ConsentInv
<1> QED  BY <1>2, <1>4, ConsentKept

\* A new process has an empty log.
LEMMA NewLogIsSent ==
    ASSUME NEW o, NEW agents, NEW scenario PROVE OnlySent(o, new_runtime(agents, scenario).log)
  BY DEF OnlySent, new_runtime, new_log

\* A broadcasting step of a willing process, also if its messages are lost or
\* the worker is gone.
LEMMA BroadcastingConsent ==
    ASSUME ClusterInv, ConsentInv, NEW n \in Nodes, NEW step, Sound(procs[n], step),
           step.rt.log.proposals = procs[n].log.proposals,
           step.rt.log.proofs = procs[n].log.proofs,
           \A i \in DOMAIN step.out : Willing(procs[n].log, step.out[i]),
           Broadcasting(n, step), UNCHANGED setup
    PROVE  ConsentInv'
<1>1. procs \in [Nodes -> Runtimes] /\ order \in Seq(Stamps) /\ OnlySent(order, procs[n].log)
  BY DEF ClusterInv, ConsentInv
<1>2. OnlySent(order, step.rt.log)
  BY <1>1 DEF OnlySent
<1>3. CASE Ordered(n, step)
  <2> DEFINE more == Stamped(n, step.rt, step.out)
  <2>1. order' = order \o more /\ procs' = [procs EXCEPT ![n] = step.rt]
    BY <1>3 DEF Ordered
  <2>2. DOMAIN more = DOMAIN step.out /\ \A i \in DOMAIN step.out : more[i].msg = step.out[i]
    BY DEF Stamped
  <2>3. more \in Seq(Stamps)
    <3>1. session[n] \in Nat /\ step.rt \in Runtimes
      BY SetupFacts DEF ClusterInv, Sound, Keeps, RtInv
    <3>2. PICK st \in Nat : st = StageOf(step.rt, session[n])
      BY <3>1, StageIsNat
    <3>3. PICK out, l : out = step.out /\ l \in Nat /\ DOMAIN out = 1..l
                        /\ \A i \in 1..l : out[i] \in Messages
      BY DEF Sound
    <3>4. more = [i \in 1..l |-> [stage |-> st, msg |-> out[i]]]
      BY <3>2, <3>3 DEF Stamped
    <3>5. \A i \in 1..l : [stage |-> st, msg |-> out[i]] \in Stamps
      BY <3>2, <3>3 DEF Stamps
    <3> QED  BY <3>3, <3>4, <3>5
  <2> HIDE DEF more
  <2>4. \A j \in DOMAIN more : \E k \in Nodes : Willing(procs[k].log, more[j].msg)
    BY <2>2
  <2>5. ASSUME NEW k \in Nodes PROVE OnlySent(order, procs'[k].log)
    <3>1. procs'[k] = IF k = n THEN step.rt ELSE procs[k]
      BY <1>1, <2>1
    <3> QED  BY <1>2, <3>1 DEF ConsentInv
  <2> QED  BY <2>1, <2>3, <2>4, <2>5, ConsentKept
<1>4. CASE LostInWorker(n, step) \/ (OnClosed(n, step) /\ step.out = <<>>)
  <2>1. procs' = [procs EXCEPT ![n] = step.rt] /\ order' = order
    BY <1>4 DEF LostInWorker, OnClosed
  <2> QED  BY <1>2, <2>1, SilentConsent
<1>5. CASE OnClosed(n, step) /\ step.out # <<>>
  <2> DEFINE rt2 == [procs[n] EXCEPT !.phase = "failed"]
  <2>1. procs' = [procs EXCEPT ![n] = rt2] /\ order' = order
    BY <1>5 DEF OnClosed
  <2>2. rt2.log = procs[n].log
    BY <1>1 DEF Runtimes
  <2> HIDE DEF rt2
  <2> QED  BY <1>1, <2>1, <2>2, SilentConsent
<1> QED  BY <1>3, <1>4, <1>5 DEF Broadcasting

\* What a process reads is in the order.
LEMMA ReadIsSent ==
    ASSUME ClusterInv, ConsentInv, NEW n \in Nodes, Draining(procs[n]),
           NEW msg \in Messages, Sent(order, msg.type, msg.rec)
    PROVE  OnlySent(order, Drain(procs[n], msg).log)
<1>0. PICK log, log2 : log = procs[n].log /\ log2 = Drain(procs[n], msg).log
  OBVIOUS
<1>1. log \in Logs /\ OnlySent(order, log) /\ RtInv(procs[n])
  BY <1>0 DEF ClusterInv, ProcInv, RtInv, Runtimes, ConsentInv
<1>2. /\ \/ log2.proposals = log.proposals
         \/ msg.type = "proposal" /\ log2.proposals = Append(log.proposals, msg.rec)
      /\ \/ log2.proofs = log.proofs
         \/ msg.type = "proof" /\ log2.proofs = Append(log.proofs, msg.rec)
  BY <1>0, <1>1, DrainLogsTheMessage
<1>3. ASSUME NEW S, NEW a \in Seq(S), NEW e \in S, NEW i \in DOMAIN Append(a, e)
      PROVE  (i \in DOMAIN a /\ Append(a, e)[i] = a[i]) \/ Append(a, e)[i] = e
  OBVIOUS
<1>4. ASSUME NEW i \in DOMAIN log2.proposals PROVE Sent(order, "proposal", log2.proposals[i])
  <2>1. CASE log2.proposals = log.proposals
    BY <1>1, <2>1 DEF OnlySent
  <2>2. CASE msg.type = "proposal" /\ log2.proposals = Append(log.proposals, msg.rec)
    <3>1. log.proposals \in Seq(ProposalRecord) /\ msg.rec \in ProposalRecord
      BY <1>1, <2>2, MessageFacts DEF Logs
    <3>2. \/ i \in DOMAIN log.proposals /\ log2.proposals[i] = log.proposals[i]
          \/ log2.proposals[i] = msg.rec
      BY <1>3, <2>2, <3>1
    <3> QED  BY <1>1, <2>2, <3>2 DEF OnlySent
  <2> QED  BY <1>2, <2>1, <2>2
<1>5. ASSUME NEW i \in DOMAIN log2.proofs PROVE Sent(order, "proof", log2.proofs[i])
  <2>1. CASE log2.proofs = log.proofs
    BY <1>1, <2>1 DEF OnlySent
  <2>2. CASE msg.type = "proof" /\ log2.proofs = Append(log.proofs, msg.rec)
    <3>1. log.proofs \in Seq(SentProofs) /\ msg.rec \in SentProofs
      BY <1>1, <2>2, MessageFacts DEF Logs
    <3>2. \/ i \in DOMAIN log.proofs /\ log2.proofs[i] = log.proofs[i]
          \/ log2.proofs[i] = msg.rec
      BY <1>3, <2>2, <3>1
    <3> QED  BY <1>1, <2>2, <3>2 DEF OnlySent
  <2> QED  BY <1>2, <2>1, <2>2
<1> QED  BY <1>0, <1>4, <1>5 DEF OnlySent

\* Every step of every process keeps the invariant.
LEMMA StepConsentInv == ClusterInv /\ ConsentInv /\ [Next]_vars => ConsentInv'
<1> SUFFICES ASSUME ClusterInv, ConsentInv, [Next]_vars PROVE ConsentInv'
  OBVIOUS
<1>0. /\ procs \in [Nodes -> Runtimes] /\ order \in Seq(Stamps)
      /\ pos \in [Nodes -> 0..Len(order)]
      /\ \A n \in Nodes : RtInv(procs[n]) /\ OnlySent(order, procs[n].log)
  BY DEF ClusterInv, ProcInv, ConsentInv
<1>1. ASSUME NEW n \in Nodes, BeginRound(n) PROVE ConsentInv'
  <2> DEFINE step == broadcast_commitments(procs[n])
  <2>1. /\ Sound(procs[n], step) /\ step.out \in Seq(CommitmentMessages)
        /\ step.rt.log.proposals = procs[n].log.proposals
        /\ step.rt.log.proofs = procs[n].log.proofs
    BY <1>0, <1>1, BroadcastCommitmentsSound DEF BeginRound
  <2>2. UNCHANGED setup /\ Broadcasting(n, step)
    BY <1>1 DEF BeginRound, life
  <2> HIDE DEF step
  <2>3. ASSUME NEW i \in DOMAIN step.out PROVE Willing(procs[n].log, step.out[i])
    <3>1. step.out[i] \in CommitmentMessages
      BY <2>1
    <3> QED  BY <3>1 DEF CommitmentMessages, Willing
  <2> QED  BY <2>1, <2>2, <2>3, BroadcastingConsent
<1>2. ASSUME NEW n \in Nodes, Receive(n) PROVE ConsentInv'
  <2>1. PICK msg : msg = order[pos[n] + 1].msg
    OBVIOUS
  <2>2. /\ Draining(procs[n]) /\ Unread(n) # {} /\ order' = order
        /\ procs' = [procs EXCEPT ![n] = Drain(procs[n], msg)]
    BY <1>0, <1>2, <2>1 DEF Receive, Readable
  <2>3. msg \in Messages /\ Sent(order, msg.type, msg.rec)
    <3>1. pos[n] + 1 \in DOMAIN order
      BY <1>0, <2>2 DEF Unread
    <3>2. order[pos[n] + 1] \in Stamps
      BY <1>0, <3>1
    <3> QED  BY <2>1, <3>1, <3>2 DEF Stamps, Sent
  <2>4. OnlySent(order, Drain(procs[n], msg).log)
    BY <2>2, <2>3, ReadIsSent
  <2> QED  BY <2>2, <2>4, SilentConsent
<1>3. ASSUME NEW n \in Nodes, PhaseEnds(n) PROVE ConsentInv'
  <2> DEFINE step == EndPhase(procs[n])
  <2>1. /\ Draining(procs[n]) /\ Broadcasting(n, step) /\ UNCHANGED setup
    BY <1>3 DEF PhaseEnds, life
  <2>2. Sound(procs[n], step) /\ Regular(procs[n], step)
    BY <1>0, <2>1, EndPhaseSound, EndPhaseRegular
  <2>3. \A i \in DOMAIN step.out : Willing(procs[n].log, step.out[i])
    BY <1>0, <2>1, EndPhaseIsWilling
  <2> HIDE DEF step
  <2> QED  BY <2>1, <2>2, <2>3, BroadcastingConsent DEF Regular, Onward
<1>4. ASSUME NEW n \in Nodes, RunEnds(n) PROVE ConsentInv'
  <2>1. PICK rt2 : rt2 = end_run(procs[n])
    OBVIOUS
  <2>2. procs' = [procs EXCEPT ![n] = rt2] /\ order' = order
    BY <1>0, <1>4, <2>1 DEF RunEnds
  <2>3. OnlySent(order, rt2.log)
    BY <1>0, <2>1, EndRunGoesOn DEF Onward, OnlySent
  <2> QED  BY <2>2, <2>3, SilentConsent
<1>5. ASSUME NEW n \in Nodes, NextSession(n) \/ Rejoin(n) PROVE ConsentInv'
  <2>1. procs' = [procs EXCEPT ![n] = new_runtime({n}, setup.scenario)] /\ order' = order
    BY <1>5 DEF NextSession, Rejoin
  <2> QED  BY <2>1, NewLogIsSent, SilentConsent
<1>6. ASSUME NEW n \in Nodes, Killed(n) PROVE ConsentInv'
  <2>1. PICK rt2 : rt2 = [procs[n] EXCEPT !.phase = "killed"]
    OBVIOUS
  <2>2. procs' = [procs EXCEPT ![n] = rt2] /\ order' = order
    BY <1>0, <1>6, <2>1 DEF Killed
  <2>3. rt2.log = procs[n].log
    BY <1>0, <2>1 DEF Runtimes
  <2> QED  BY <1>0, <2>2, <2>3, SilentConsent
<1>7. ASSUME NEW n \in Nodes, WorkerExits(n) PROVE ConsentInv'
  BY <1>7 DEF WorkerExits, ConsentInv
<1>8. CASE UNCHANGED vars
  BY <1>8 DEF vars, ConsentInv
<1> QED  BY <1>1, <1>2, <1>3, <1>4, <1>5, <1>6, <1>7, <1>8 DEF Next, Step, Terminated

\* Nothing has been sent or logged at first.
LEMMA InitConsentInv == Init => ConsentInv
<1> SUFFICES ASSUME Init PROVE ConsentInv
  OBVIOUS
<1>1. order = <<>> /\ procs = [n \in Nodes |-> new_runtime({n}, setup.scenario)]
  BY DEF Init
<1> QED  BY <1>1, NewLogIsSent DEF ConsentInv

\* Both parties of what a process finalizes had proved for its round.
LEMMA FinalizedIsConsented == ASSUME ClusterInv, ConsentInv PROVE FinalizedOnConsent
<1> SUFFICES ASSUME NEW n \in Nodes, Finalized(n)
             PROVE  LET p == LoggedProposal(LogOf(n), LogOf(n).final_round)
                    IN  /\ \E i \in DOMAIN order :
                               order[i].msg.type = "proposal" /\ order[i].msg.rec = p
                        /\ Consented(p.candidate_requester, p)
                        /\ Consented(p.candidate_provider, p)
  BY DEF FinalizedOnConsent
<1> DEFINE rt == procs[n]
           m == rt.round_machine
           p == m.proposal
<1>1. /\ m \in Machine /\ rt.log \in Logs /\ CommitmentsCoherent(m, rt.log)
      /\ ProposalsCoherent(m, rt.log) /\ PhaseCoherent(rt)
      /\ rt.phase = "done" /\ rt.log.finalized
  BY DEF ClusterInv, ProcInv, RtInv, Runtimes, Finalized, Done, LogOf
<1>2. rt.log.final_round = m.current /\ p # None /\ HasBothProofs(rt, p)
  BY <1>1 DEF PhaseCoherent
<1>3. LoggedProposal(LogOf(n), LogOf(n).final_round) = p
  BY <1>1, <1>2, LookupProposal DEF LogOf
<1>4. p.round = m.current
  BY <1>1, <1>2, AcceptedProposal
<1>5. \E i \in DOMAIN order : order[i].msg.type = "proposal" /\ order[i].msg.rec = p
  <2>1. PICK i \in DOMAIN rt.log.proposals : rt.log.proposals[i] = p
    BY <1>1, <1>2 DEF ProposalsCoherent
  <2> QED  BY <2>1 DEF ConsentInv, OnlySent, Sent
<1>6. ASSUME NEW k \in {p.candidate_requester, p.candidate_provider} PROVE Consented(k, p)
  <2>1. PICK x \in DOMAIN rt.log.proofs :
            rt.log.proofs[x].round = m.current /\ rt.log.proofs[x].node_id = k
    BY <1>2 DEF HasBothProofs, HasProof
  <2>2. PICK j \in DOMAIN order :
            order[j].msg.type = "proof" /\ order[j].msg.rec = rt.log.proofs[x]
    BY DEF ConsentInv, OnlySent, Sent
  <2>3. Foretold(order, j, order[j].msg)
    BY DEF ConsentInv
  <2>4. order[j].msg.origin = k /\ order[j].msg.rec.node_id = k /\ order[j].msg.rec.round = p.round
    BY <1>4, <2>1, <2>2, <2>3 DEF Foretold
  <2>5. PICK i \in DOMAIN order :
            /\ i < j /\ order[i].msg.type = "proposal"
            /\ order[i].msg.rec.round = p.round /\ Names(order[i].msg.rec, k)
    BY <2>2, <2>3, <2>4 DEF Foretold
  <2> QED  BY <2>2, <2>4, <2>5 DEF Consented, Names
<1> HIDE DEF p
<1> QED  BY <1>3, <1>5, <1>6

\* Whatever sessions, kills and rejoins there are, and whatever the transport
\* loses or delays: what a process finalizes (has_req_proof && has_prov_proof)
\* was proposed, and each of its two parties sent its proof for that round
\* after a proposal of the round that named it.
THEOREM FinalizingTakesConsent == Spec => []FinalizedOnConsent
<1>1. Init => ClusterInv /\ ConsentInv
  BY InitClusterInv, InitConsentInv
<1>2. ClusterInv /\ ConsentInv /\ [Next]_vars => (ClusterInv /\ ConsentInv)'
  BY StepClusterInv, StepConsentInv
<1> QED  BY <1>1, <1>2, FinalizedIsConsented, PTL DEF Spec

-----------------------------------------------------------------------------
(* Where nothing is late or lost the processes keep step.                  *)

\* Phase p of round k of session x, as a stage.
At(x, k, p) == 5 * (MaxRounds + 1) * x + 5 * k + p

Before(x, k, p, x2, k2, p2) ==
    x < x2 \/ (x = x2 /\ (k < k2 \/ (k = k2 /\ p < p2)))

\* Sessions, rounds and phases are ordered as their stages are.
LEMMA StageOrder ==
    ASSUME NEW x \in Nat, NEW x2 \in Nat, NEW k \in RoundIds, NEW k2 \in RoundIds,
           NEW p \in 0..4, NEW p2 \in 0..4
    PROVE  /\ At(x, k, p) \in Nat
           /\ At(x, k, p) < At(x2, k2, p2) <=> Before(x, k, p, x2, k2, p2)
           /\ At(x, k, p) = At(x2, k2, p2) => x = x2 /\ k = k2 /\ p = p2
  <1> DEFINE B == 5 * (MaxRounds + 1)
             o  == 5 * k + p
             o2 == 5 * k2 + p2
  <1>1. MaxRounds \in Nat /\ B \in Nat
    BY MaxRoundsAssumption DEF MaxRoundsAssumption
  <1>2. k \in Nat /\ k2 \in Nat /\ o \in Nat /\ o2 \in Nat /\ o < B /\ o2 < B
    BY <1>1 DEF RoundIds
  <1>3. o < o2 <=> k < k2 \/ (k = k2 /\ p < p2)
    BY <1>2
  <1>4. o = o2 => k = k2 /\ p = p2
    BY <1>2
  <1>5. At(x, k, p) = B * x + o /\ At(x2, k2, p2) = B * x2 + o2
    BY <1>1, <1>2 DEF At
  <1> HIDE DEF B, o, o2
  <1>6. ASSUME NEW y \in Nat, NEW z \in Nat, y < z PROVE B * y + B <= B * z
    <2>1. PICK d \in Nat : z = y + 1 + d
      <3>1. z - y - 1 \in Nat /\ z = y + 1 + (z - y - 1)
        BY <1>6
      <3> QED BY <3>1
    <2>2. B * z = B * y + B + B * d
      BY <2>1, <1>1
    <2>3. B * d \in Nat /\ B * y \in Nat
      BY <1>1
    <2> QED BY <2>2, <2>3, <1>1
  <1>7. B * x \in Nat /\ B * x2 \in Nat
    BY <1>1
  <1>8. x < x2 => B * x + B <= B * x2
    BY <1>6
  <1>9. x2 < x => B * x2 + B <= B * x
    BY <1>6
  <1>10. x = x2 => B * x2 = B * x
    OBVIOUS
  <1>11. At(x, k, p) \in Nat
    BY <1>5, <1>7, <1>2
  <1>12. At(x, k, p) < At(x2, k2, p2) <=> x < x2 \/ (x = x2 /\ o < o2)
    <2>1. CASE x < x2
      BY <2>1, <1>8, <1>5, <1>7, <1>2, <1>1
    <2>2. CASE x2 < x
      BY <2>2, <1>9, <1>5, <1>7, <1>2, <1>1
    <2>3. CASE x = x2
      BY <2>3, <1>10, <1>5, <1>7, <1>2, <1>1
    <2> QED BY <2>1, <2>2, <2>3
  <1>13. At(x, k, p) = At(x2, k2, p2) => x = x2 /\ o = o2
    <2>1. CASE x < x2
      BY <2>1, <1>8, <1>5, <1>7, <1>2, <1>1
    <2>2. CASE x2 < x
      BY <2>2, <1>9, <1>5, <1>7, <1>2, <1>1
    <2>3. CASE x = x2
      BY <2>3, <1>10, <1>5, <1>7, <1>2, <1>1
    <2> QED BY <2>1, <2>2, <2>3
  <1> QED BY <1>3, <1>4, <1>11, <1>12, <1>13 DEF Before
-----------------------------------------------------------------------------
(* What is due in a stage.  Ideal is the round as the scenario has it,     *)
(* whoever looks at it.                                                    *)

Ideal(scenario, k) ==
    [scenario |-> scenario,
     round_machine |-> [current |-> k,
                        commitments |-> [n \in Nodes |-> build_commitment(n, k)]]]

\* Processes that keep step enter phase p of round k, and messages are due
\* there: the earlier rounds had no chance and this one has not failed yet.
Held(scenario, k, p) ==
    LET r == Ideal(scenario, k)
    IN  /\ k < MaxRounds /\ EarlierRoundsFailed(r)
        /\ p > 1 => Speaks(r, Requester, k) /\ Claimants(r) # {}
        /\ p = 4 => RoundSucceeds(scenario, k)

\* What is sent in it, and what may be sent besides: a second copy, a replay.
Due(scenario, k, p) ==
    LET r == Ideal(scenario, k)
    IN  CASE p = 1 -> {OwnMessage(r, n) : n \in {m \in Nodes : Speaks(r, m, k)}}
          [] p = 2 -> {message(proposer_for_round(k), "proposal", TheProposal(r))}
          [] p = 3 -> {ProofMessage(r, n, k) : n \in {Requester, Best(r)}}
          [] p = 4 -> {message(Best(r), "receipt", TheReceipt(r))}
Fit(scenario, k, p) == IF p = 1 THEN Offered(Ideal(scenario, k)) ELSE Due(scenario, k, p)

\* The process has taken in what is due: accepted or logged it, or refused a
\* sabotaged proof.
Heard(r, msg) ==
    CASE r.phase = "commit"   -> Accepted(r, msg.origin)
      [] r.phase = "proposal" -> r.round_machine.proposal # None
      [] r.phase = "proof"    -> Sabotaged(r, msg.origin) \/ Proved(r, msg.origin)
      [] r.phase = "receipt"  -> ReceiptLogged(r)
      [] OTHER                -> FALSE

\* What is true, phase by phase, of a process that keeps step.
NoneProved(r) == \A n \in Nodes : ~Proved(r, n)
Agreed(r) == Complete(r) /\ r.round_machine.proposal = TheProposal(r)
SteadyIn(r) ==
    \/ r.phase \in {"loop", "commit"} /\ r.round_machine.proposal = None /\ NoneProved(r)
    \/ /\ r.phase = "proposal" /\ NoneProved(r) /\ AllSpoke(r) /\ Speaks(r, Requester, Round(r))
       /\ r.round_machine.proposal # None => Agreed(r)
    \/ /\ r.phase = "proof" /\ Agreed(r)
       /\ \A n \in {Requester, Best(r)} : Proved(r, n) => ~Sabotaged(r, n)
    \/ r.phase = "receipt" /\ Agreed(r) /\ RoundSucceeds(r.scenario, Round(r))
    \/ r.phase = "done" /\ Ended(r)
Steady(r) == RtInv(r) /\ Known(r) /\ SteadyIn(r)

\* What is due in a stage, seen from a process in that round.
LEMMA IdealRound ==
    ASSUME NEW r, RtInv(r), NEW k, k = Round(r)
    PROVE  LET sc == r.scenario
           IN  /\ \A p : Held(sc, k, p) <=>
                      /\ k < MaxRounds /\ EarlierRoundsFailed(r)
                      /\ p > 1 => Speaks(r, Requester, k) /\ Claimants(r) # {}
                      /\ p = 4 => RoundSucceeds(sc, k)
               /\ Due(sc, k, 1) = {OwnMessage(r, n) : n \in {m \in Nodes : Speaks(r, m, k)}}
               /\ Due(sc, k, 2) = {message(proposer_for_round(k), "proposal", TheProposal(r))}
               /\ Due(sc, k, 3) = {ProofMessage(Ideal(sc, k), n, k) : n \in {Requester, Best(r)}}
               /\ Due(sc, k, 4) = {message(Best(r), "receipt", TheReceipt(r))}
               /\ Fit(sc, k, 1) = Offered(r)
               /\ \A p : p # 1 => Fit(sc, k, p) = Due(sc, k, p)
               /\ \A n \in Nodes : Known(r) /\ Accepted(r, n) =>
                      ProofMessage(Ideal(sc, k), n, k) = ProofMessage(r, n, k)
<1> DEFINE sc == r.scenario
           i  == Ideal(sc, k)
<1>1. /\ i.scenario = sc /\ i.round_machine.current = k
      /\ i.round_machine.commitments = [n \in Nodes |-> build_commitment(n, k)]
  BY DEF Ideal
<1> HIDE DEF i
<1>2. Round(i) = k /\ Round(r) = k /\ Claimants(i) = Claimants(r)
  BY <1>1 DEF Round, Claimants
<1>3. Best(i) = Best(r) /\ \A n, j : Speaks(i, n, j) <=> Speaks(r, n, j)
  BY <1>1, <1>2 DEF Best, Speaks
<1>4. TheProposal(i) = TheProposal(r) /\ TheReceipt(i) = TheReceipt(r)
  BY <1>2, <1>3 DEF TheProposal, TheReceipt
<1>5. EarlierRoundsFailed(i) <=> EarlierRoundsFailed(r)
  BY <1>1, <1>2 DEF EarlierRoundsFailed
<1>6. \A n : OwnMessage(i, n) = OwnMessage(r, n)
  BY <1>2 DEF OwnMessage
<1>7. Offered(i) = Offered(r)
  BY <1>2, <1>3 DEF Offered
<1>8. \A p : Held(sc, k, p) <=>
          /\ k < MaxRounds /\ EarlierRoundsFailed(r)
          /\ p > 1 => Speaks(r, Requester, k) /\ Claimants(r) # {}
          /\ p = 4 => RoundSucceeds(sc, k)
  BY <1>2, <1>3, <1>5 DEF Held, i
<1>9. /\ Due(sc, k, 1) = {OwnMessage(r, n) : n \in {m \in Nodes : Speaks(r, m, k)}}
      /\ Due(sc, k, 2) = {message(proposer_for_round(k), "proposal", TheProposal(r))}
      /\ Due(sc, k, 3) = {ProofMessage(i, n, k) : n \in {Requester, Best(r)}}
      /\ Due(sc, k, 4) = {message(Best(r), "receipt", TheReceipt(r))}
  <2>1. /\ Due(sc, k, 1) = {OwnMessage(i, n) : n \in {m \in Nodes : Speaks(i, m, k)}}
        /\ Due(sc, k, 2) = {message(proposer_for_round(k), "proposal", TheProposal(i))}
        /\ Due(sc, k, 3) = {ProofMessage(i, n, k) : n \in {Requester, Best(i)}}
        /\ Due(sc, k, 4) = {message(Best(i), "receipt", TheReceipt(i))}
    BY DEF Due, i
  <2>2. {OwnMessage(i, n) : n \in {m \in Nodes : Speaks(i, m, k)}}
            = {OwnMessage(r, n) : n \in {m \in Nodes : Speaks(r, m, k)}}
    BY <1>3, <1>6
  <2> QED BY <2>1, <2>2, <1>3, <1>4
<1>10. Fit(sc, k, 1) = Offered(r) /\ \A p : p # 1 => Fit(sc, k, p) = Due(sc, k, p)
  BY <1>7 DEF Fit, i
<1>11. \A n \in Nodes : Known(r) /\ Accepted(r, n) =>
           ProofMessage(i, n, k) = ProofMessage(r, n, k)
  <2> TAKE n \in Nodes
  <2> HAVE Known(r) /\ Accepted(r, n)
  <2>1. r.round_machine.commitments[n] = build_commitment(n, k)
    BY <1>2 DEF Known, OwnRecords
  <2>2. i.round_machine.commitments[n] = build_commitment(n, k)
    BY <1>1
  <2> QED BY <2>1, <2>2, <1>1 DEF ProofMessage
<1> QED BY <1>8, <1>9, <1>10, <1>11 DEF i

\* What is due is among what may be sent, and comes from nodes.
LEMMA DueFacts ==
    ASSUME NEW sc, NEW k \in RoundIds, NEW p \in 1..4, Held(sc, k, p)
    PROVE  /\ Due(sc, k, p) \subseteq Fit(sc, k, p)
           /\ \A msg \in Fit(sc, k, p) : msg.origin \in Nodes
<1> DEFINE i == Ideal(sc, k)
<1>1. /\ i.scenario = sc /\ i.round_machine.current = k
      /\ i.round_machine.commitments = [n \in Nodes |-> build_commitment(n, k)]
  BY DEF Ideal
<1>2. Round(i) = k /\ k \in Nat
  BY <1>1, MaxRoundsAssumption DEF Round, RoundIds, MaxRoundsAssumption
<1>3. p > 1 => Claimants(i) # {}
  BY DEF Held
<1>4. CASE p = 1
  <2>1. Fit(sc, k, p) = Offered(i)
    BY <1>4 DEF Fit
  <2>2. Due(sc, k, p) = {OwnMessage(i, n) : n \in {m \in Nodes : Speaks(i, m, k)}}
    BY <1>4 DEF Due
  <2> HIDE DEF i
  <2>3. ASSUME NEW n \in Nodes, Speaks(i, n, k) PROVE OwnMessage(i, n) \in Offered(i)
    <3>1. PICK rec : rec = build_commitment(n, k)
      OBVIOUS
    <3>2. rec \in SentCommitments
      BY <3>1, BuiltIsSent
    <3>3. rec.node_id = n /\ rec.round = k /\ rec.commitment_hex = HashOf(n, k)
      BY <3>1 DEF build_commitment
    <3>4. PICK msg : msg = OwnMessage(i, n)
      OBVIOUS
    <3>5. msg = [origin |-> n, type |-> "commitment", rec |-> rec]
      BY <3>4, <3>1, <1>2 DEF OwnMessage, message
    <3>6. msg \in CommitmentMessages
      BY <3>5, <3>2 DEF CommitmentMessages
    <3>7. msg.origin = n /\ msg.rec = rec
      BY <3>5
    <3> QED BY <3>3, <3>4, <3>6, <3>7, <2>3, <1>2 DEF Offered
  <2>4. \A msg \in Offered(i) : msg.origin \in Nodes
    BY DEF Offered, CommitmentMessages
  <2> QED BY <2>1, <2>2, <2>3, <2>4
<1>5. CASE p # 1
  <2>1. Fit(sc, k, p) = Due(sc, k, p)
    BY <1>5 DEF Fit
  <2>2. Best(i) \in Nodes /\ Requester \in Nodes /\ proposer_for_round(k) \in Nodes
    <3>1. Claimants(i) # {}
      BY <1>3, <1>5
    <3>2. Best(i) \in Nodes
      BY <3>1, BestFacts
    <3>3. proposer_for_round(k) \in Providers
      BY <1>2, NodeFacts
    <3> QED BY <3>2, <3>3, NodeFacts
  <2>3. p \in {2, 3, 4}
    BY <1>5
  <2>4. \A n, type, rec : message(n, type, rec).origin = n
    BY DEF message
  <2>5. \A n, r, j : ProofMessage(r, n, j).origin = n
    BY <2>4 DEF ProofMessage
  <2>6. CASE p = 2
    <3>1. Due(sc, k, p) = {message(proposer_for_round(k), "proposal", TheProposal(i))}
      BY <2>6 DEF Due
    <3> QED BY <3>1, <2>1, <2>2, <2>4
  <2>7. CASE p = 3
    <3>1. Due(sc, k, p) = {ProofMessage(i, n, k) : n \in {Requester, Best(i)}}
      BY <2>7 DEF Due
    <3> HIDE DEF i
    <3> QED BY <3>1, <2>1, <2>2, <2>5
  <2>8. CASE p = 4
    <3>1. Due(sc, k, p) = {message(Best(i), "receipt", TheReceipt(i))}
      BY <2>8 DEF Due
    <3> QED BY <3>1, <2>1, <2>2, <2>4
  <2> QED BY <2>3, <2>6, <2>7, <2>8
<1> QED BY <1>4, <1>5

-----------------------------------------------------------------------------
(* The steps of a process that keeps step.                                 *)

\* The phase a message would be read in.
Index(r) == PhaseIndex(r.phase)

\* The number of each phase of a round.
LEMMA PhaseIndices ==
    ASSUME NEW r
    PROVE  /\ r.phase = "loop" => Index(r) = 0
           /\ r.phase = "commit" => Index(r) = 1
           /\ r.phase = "proposal" => Index(r) = 2
           /\ r.phase = "proof" => Index(r) = 3
           /\ r.phase = "receipt" => Index(r) = 4
  BY DEF Index, PhaseIndex

\* A message that fits is taken in, and nothing is forgotten.
TakesIn(r, msg, r2) ==
    /\ Keeps(r, r2) /\ Steady(r2) /\ r2.phase = r.phase /\ Round(r2) = Round(r)
    /\ \A m : m.origin \in Nodes /\ Heard(r, m) => Heard(r2, m)
    /\ msg \in Due(r.scenario, Round(r), Index(r)) => Heard(r2, msg)

\* A commitment that fits is accepted, or refused and known.
LEMMA TakesInCommitment ==
    ASSUME NEW r, Steady(r), r.phase = "commit", Held(r.scenario, Round(r), 1),
           NEW msg \in Fit(r.scenario, Round(r), 1), msg \in Messages
    PROVE  TakesIn(r, msg, Drain(r, msg))
<1>1. RtInv(r) /\ Known(r) /\ r.round_machine.proposal = None /\ NoneProved(r)
  BY DEF Steady, SteadyIn
<1>2. PICK k : k = Round(r)
  OBVIOUS
<1>3. PICK sc : sc = r.scenario
  OBVIOUS
<1>4. msg \in Offered(r)
  BY <1>1, <1>2, IdealRound
<1>5. PICK r2 : r2 = drain_commitment(r, msg)
  OBVIOUS
<1>6. /\ Keeps(r, r2) /\ Known(r2) /\ r2.phase = "commit" /\ Round(r2) = Round(r)
      /\ r2.scenario = r.scenario /\ r2.round_machine.proposal = None
      /\ r2.log.proofs = r.log.proofs
      /\ \A n \in Nodes : Accepted(r2, n) <=> Accepted(r, n) \/ msg = OwnMessage(r, n)
  BY <1>1, <1>4, <1>5, DrainOffer
<1>7. NoneProved(r2)
  BY <1>1, <1>6 DEF NoneProved, Proved, HasProof
<1>8. Steady(r2)
  BY <1>6, <1>7 DEF Steady, SteadyIn, Keeps
<1>9. \A m : Heard(r, m) <=> Accepted(r, m.origin)
  BY DEF Heard
<1>10. \A m : Heard(r2, m) <=> Accepted(r2, m.origin)
  BY <1>6 DEF Heard
<1>11. msg \in Due(sc, k, 1) => Heard(r2, msg)
  <2> HAVE msg \in Due(sc, k, 1)
  <2>1. PICK n \in Nodes : msg = OwnMessage(r, n)
    BY <1>1, <1>2, <1>3, IdealRound
  <2>2. msg.origin = n
    BY <2>1 DEF OwnMessage, message
  <2> QED BY <2>1, <2>2, <1>6, <1>10
<1>12. Index(r) = 1
  BY PhaseIndices
<1>13. Drain(r, msg) = r2
  BY <1>5 DEF Drain
<1> QED BY <1>2, <1>3, <1>6, <1>8, <1>9, <1>10, <1>11, <1>12, <1>13 DEF TakesIn

\* The proposal of the round is accepted.
LEMMA TakesInProposal ==
    ASSUME NEW r, Steady(r), r.phase = "proposal", Held(r.scenario, Round(r), 2),
           NEW msg \in Fit(r.scenario, Round(r), 2), msg \in Messages
    PROVE  TakesIn(r, msg, Drain(r, msg))
<1>1. /\ RtInv(r) /\ Known(r) /\ NoneProved(r) /\ AllSpoke(r) /\ Speaks(r, Requester, Round(r))
      /\ r.round_machine.proposal # None => Agreed(r)
  BY DEF Steady, SteadyIn
<1>2. PICK k : k = Round(r)
  OBVIOUS
<1>3. Claimants(r) # {} /\ msg = message(proposer_for_round(k), "proposal", TheProposal(r))
  BY <1>1, <1>2, IdealRound
<1>4. Complete(r)
  BY <1>1, <1>3 DEF Complete
<1>5. PICK r2 : r2 = drain_proposal(r, msg)
  OBVIOUS
<1>6. Drain(r, msg) = r2 /\ Index(r) = 2
  BY <1>5, PhaseIndices DEF Drain
<1>7. /\ Keeps(r, r2) /\ Known(r2) /\ r2.phase = "proposal"
      /\ r2.round_machine.proposal = TheProposal(r)
      /\ r2.round_machine.current = r.round_machine.current
      /\ r2.round_machine.commitments = r.round_machine.commitments
      /\ r2.log.proofs = r.log.proofs
  <2>1. CASE r.round_machine.proposal = None
    BY <2>1, <1>1, <1>2, <1>3, <1>4, <1>5, DrainTheProposal
  <2>2. CASE r.round_machine.proposal # None
    <3>1. r.round_machine.proposal = TheProposal(r)
      BY <2>2, <1>1 DEF Agreed
    <3>2. msg.type = "proposal" /\ msg.rec = TheProposal(r) /\ msg.origin = msg.rec.proposer
      BY <1>2, <1>3 DEF message, TheProposal
    <3>3. msg.rec \in ProposalRecord
      BY <3>2, MessageFacts
    <3>4. r \in Runtimes /\ r.round_machine \in Machine
      BY <1>1, RuntimeFacts
    <3>5. PICK code : code = proposal_result(r.round_machine, msg.rec)
      OBVIOUS
    <3>6. code # "ok"
      BY <3>3, <3>4, <3>5, <2>2, ProposalChecks
    <3>7. r2 = reject(r, msg.rec.proposer, "proposal", code)
      BY <1>5, <3>2, <3>5, <3>6 DEF drain_proposal
    <3>8. /\ r2.round_machine = r.round_machine /\ r2.phase = r.phase
          /\ r2.scenario = r.scenario
          /\ r2.historical_commitments = r.historical_commitments
          /\ r2.log.proofs = r.log.proofs
      BY <3>4, <3>7, RejectLeaves
    <3>9. Keeps(r, r2)
      BY <1>1, <1>5, DrainProposalKeeps
    <3>10. Known(r2)
      BY <1>1, <3>8, SameRoundKnown
    <3> QED BY <3>1, <3>8, <3>9, <3>10
  <2> QED BY <2>1, <2>2
<1>8. r2.scenario = r.scenario
  BY <1>7 DEF Keeps
<1>9. Round(r2) = Round(r) /\ TheProposal(r2) = TheProposal(r) /\ Complete(r2)
  BY <1>4, <1>7, <1>8, SameRound
<1>10. r2.round_machine.proposal # None
  <2>1. TheProposal(r).round = Round(r)
    BY DEF TheProposal
  <2>2. msg.rec = TheProposal(r) /\ msg.type = "proposal"
    BY <1>3 DEF message
  <2>3. TheProposal(r) \in ProposalRecord
    BY <2>2, MessageFacts
  <2> QED BY <2>3, <1>7, NoneAssumption DEF NoneAssumption
<1>11. NoneProved(r2)
  BY <1>1, <1>7, <1>9 DEF NoneProved, Proved, HasProof
<1>12. Steady(r2)
  BY <1>7, <1>9, <1>11 DEF Steady, SteadyIn, Keeps, Agreed, Complete
<1>13. \A m : Heard(r2, m)
  BY <1>7, <1>10 DEF Heard
<1> QED BY <1>6, <1>7, <1>9, <1>12, <1>13 DEF TakesIn

\* A proof of one of the parties is logged, unless it was sabotaged.
LEMMA TakesInProof ==
    ASSUME NEW r, Steady(r), r.phase = "proof", NEW msg \in Fit(r.scenario, Round(r), 3)
    PROVE  TakesIn(r, msg, Drain(r, msg))
<1>1. /\ RtInv(r) /\ Known(r) /\ Agreed(r) /\ Complete(r)
      /\ \A n \in {Requester, Best(r)} : Proved(r, n) => ~Sabotaged(r, n)
  BY DEF Steady, SteadyIn, Agreed
<1>2. PICK k : k = Round(r)
  OBVIOUS
<1>3. PICK n \in {Requester, Best(r)} : msg = ProofMessage(Ideal(r.scenario, k), n, k)
  <2>1. msg \in {ProofMessage(Ideal(r.scenario, k), m, k) : m \in {Requester, Best(r)}}
    BY <1>1, <1>2, IdealRound
  <2> QED BY <2>1
<1>4. n \in Nodes /\ Accepted(r, n)
  <2>1. Speaks(r, Requester, Round(r)) /\ Claimants(r) # {} /\ AllSpoke(r)
    BY <1>1 DEF Complete
  <2>2. Best(r) \in Nodes /\ Speaks(r, Best(r), Round(r)) /\ Requester \in Nodes
    BY <2>1, BestFacts, NodeFacts
  <2> QED BY <2>1, <2>2 DEF AllSpoke
<1>5. msg = ProofMessage(r, n, Round(r))
  BY <1>1, <1>2, <1>3, <1>4, IdealRound
<1>6. PICK r2 : r2 = drain_proof(r, msg)
  OBVIOUS
<1>7. Drain(r, msg) = r2 /\ Index(r) = 3
  BY <1>6, PhaseIndices DEF Drain
<1>8. /\ Keeps(r, r2) /\ r2.phase = "proof" /\ r2.round_machine = r.round_machine
      /\ r2.scenario = r.scenario
      /\ r2.historical_commitments = r.historical_commitments
      /\ \A j \in Nodes : Proved(r2, j) <=> Proved(r, j) \/ (j = n /\ ~Sabotaged(r, n))
  BY <1>1, <1>4, <1>5, <1>6, DrainOwnProof
<1>9. Known(r2)
  BY <1>1, <1>8, SameRoundKnown
<1>10. /\ Round(r2) = Round(r) /\ TheProposal(r2) = TheProposal(r) /\ Complete(r2)
       /\ Best(r2) = Best(r) /\ \A j : Sabotaged(r2, j) <=> Sabotaged(r, j)
  BY <1>1, <1>8, SameRound
<1>11. {Requester, Best(r)} \subseteq Nodes
  BY <1>1, BestFacts, NodeFacts DEF Complete
<1>12. Steady(r2)
  <2>1. Agreed(r2)
    BY <1>1, <1>8, <1>10 DEF Agreed
  <2>2. \A j \in {Requester, Best(r2)} : Proved(r2, j) => ~Sabotaged(r2, j)
    BY <1>1, <1>8, <1>10, <1>11
  <2> QED BY <2>1, <2>2, <1>8, <1>9 DEF Steady, SteadyIn, Keeps
<1>13. \A m : /\ Heard(r, m) <=> Sabotaged(r, m.origin) \/ Proved(r, m.origin)
              /\ Heard(r2, m) <=> Sabotaged(r2, m.origin) \/ Proved(r2, m.origin)
  BY <1>8 DEF Heard
<1>14. msg.origin = n
  BY <1>5 DEF ProofMessage, message
<1>15. Heard(r2, msg)
  BY <1>4, <1>8, <1>10, <1>13, <1>14
<1>16. \A m : m.origin \in Nodes /\ Heard(r, m) => Heard(r2, m)
  BY <1>8, <1>10, <1>13
<1> QED BY <1>7, <1>8, <1>10, <1>12, <1>15, <1>16 DEF TakesIn

\* The receipt of the round is logged.
LEMMA TakesInReceipt ==
    ASSUME NEW r, Steady(r), r.phase = "receipt", NEW msg \in Fit(r.scenario, Round(r), 4)
    PROVE  TakesIn(r, msg, Drain(r, msg))
<1>1. RtInv(r) /\ Known(r) /\ Agreed(r) /\ Complete(r) /\ RoundSucceeds(r.scenario, Round(r))
  BY DEF Steady, SteadyIn, Agreed
<1>2. msg = message(Best(r), "receipt", TheReceipt(r))
  <2>1. msg \in {message(Best(r), "receipt", TheReceipt(r))}
    BY <1>1, IdealRound
  <2> QED BY <2>1
<1>3. PICK r2 : r2 = drain_receipt(r, msg)
  OBVIOUS
<1>4. Drain(r, msg) = r2 /\ Index(r) = 4
  BY <1>3, PhaseIndices DEF Drain
<1>5. /\ Keeps(r, r2) /\ Known(r2) /\ r2.phase = "receipt"
      /\ r2.round_machine = r.round_machine /\ ReceiptLogged(r2)
  BY <1>1, <1>2, <1>3, DrainTheReceipt
<1>6. r2.scenario = r.scenario
  BY <1>5 DEF Keeps
<1>7. Round(r2) = Round(r) /\ TheProposal(r2) = TheProposal(r) /\ Complete(r2)
  BY <1>1, <1>5, <1>6, SameRound
<1>8. Steady(r2)
  BY <1>1, <1>5, <1>6, <1>7 DEF Steady, SteadyIn, Keeps, Agreed
<1>9. \A m : Heard(r2, m)
  BY <1>5 DEF Heard
<1> QED BY <1>4, <1>5, <1>7, <1>8, <1>9 DEF TakesIn

\* In whatever phase: a message that fits is taken in.
LEMMA SteadyDrain ==
    ASSUME NEW r, Steady(r), Draining(r), Held(r.scenario, Round(r), Index(r)),
           NEW msg \in Fit(r.scenario, Round(r), Index(r)), msg \in Messages
    PROVE  TakesIn(r, msg, Drain(r, msg))
<1>1. CASE r.phase = "commit"
  BY <1>1, PhaseIndices, TakesInCommitment
<1>2. CASE r.phase = "proposal"
  BY <1>2, PhaseIndices, TakesInProposal
<1>3. CASE r.phase = "proof"
  BY <1>3, PhaseIndices, TakesInProof
<1>4. CASE r.phase = "receipt"
  BY <1>4, PhaseIndices, TakesInReceipt
<1> QED BY <1>1, <1>2, <1>3, <1>4 DEF Draining

\* What a process sends as it enters a phase: only what fits, and whatever is
\* due of it.
Emits(n, r, out) ==
    LET sc == r.scenario
        k  == Round(r)
        p  == Index(r)
    IN  /\ \A i \in DOMAIN out : /\ Draining(r) /\ Held(sc, k, p)
                                 /\ out[i].origin = n /\ out[i] \in Fit(sc, k, p)
        /\ Draining(r) /\ Held(sc, k, p) =>
               \A msg \in Due(sc, k, p) : msg.origin = n => \E i \in DOMAIN out : out[i] = msg

\* It goes on to the next phase, the next round or out of the loop, and leaves
\* out no phase that others are in.
GoesOn(r, r2) ==
    LET Barred(k, p) == ~Held(r.scenario, k, p)
    IN  \/ Draining(r2) /\ Round(r2) = Round(r) /\ Index(r2) = Index(r) + 1
        \/ /\ r2.phase = "loop" /\ Round(r2) = Round(r) + 1
           /\ \A p \in 1..4 : p > Index(r) => Barred(Round(r), p)
        \/ /\ r2.phase = "done"
           /\ \A k \in RoundIds, p \in 1..4 :
                  k > Round(r) \/ (k = Round(r) /\ p > Index(r)) => Barred(k, p)

KeepsStep(n, r, step) ==
    Keeps(r, step.rt) /\ Steady(step.rt) /\ GoesOn(r, step.rt) /\ Emits(n, step.rt, step.out)

\* Everything due in its phase has been taken in.
AllHeard(r) ==
    Held(r.scenario, Round(r), Index(r)) =>
        \A msg \in Due(r.scenario, Round(r), Index(r)) : Heard(r, msg)

\* The start of a round keeps step.
LEMMA SteadyBegin ==
    ASSUME NEW r, Steady(r), r.phase = "loop", ~LoopExhausted(r), NEW n \in Nodes, r.agents = {n}
    PROVE  KeepsStep(n, r, broadcast_commitments(r))
<1>1. RtInv(r) /\ Known(r) /\ r.round_machine.proposal = None /\ NoneProved(r)
  BY DEF Steady, SteadyIn
<1>2. PICK res : res = broadcast_commitments(r)
  OBVIOUS
<1>3. PICK k : k = Round(r)
  OBVIOUS
<1>4. PICK sc : sc = r.scenario
  OBVIOUS
<1>5. /\ Keeps(r, res.rt) /\ Known(res.rt)
      /\ res.rt.phase = "commit" /\ res.rt.round_machine = r.round_machine
      /\ res.rt.log.proofs = r.log.proofs
      /\ res.out \in Seq({msg \in Offered(r) : msg.origin \in r.agents})
      /\ \A m \in r.agents : Speaks(r, m, k) =>
             \E i \in DOMAIN res.out : res.out[i] = OwnMessage(r, m)
  BY <1>1, <1>2, <1>3, BeginRoundKnown
<1>6. res.rt.scenario = sc /\ Round(res.rt) = k
  BY <1>3, <1>4, <1>5 DEF Keeps, Round
<1>7. NoneProved(res.rt)
  BY <1>1, <1>3, <1>5, <1>6 DEF NoneProved, Proved, HasProof
<1>8. Steady(res.rt)
  BY <1>1, <1>5, <1>7 DEF Steady, SteadyIn, Keeps
<1>9. Index(r) = 0 /\ Index(res.rt) = 1 /\ Draining(res.rt)
  BY <1>5, PhaseIndices DEF Draining
<1>10. GoesOn(r, res.rt)
  BY <1>3, <1>6, <1>9 DEF GoesOn
<1>11. k < MaxRounds /\ EarlierRoundsFailed(r)
  BY <1>1, <1>3, RuntimeFacts, MaxRoundsAssumption
     DEF LoopExhausted, Known, Round, MaxRoundsAssumption
<1>12. /\ Held(sc, k, 1) /\ Fit(sc, k, 1) = Offered(r)
       /\ Due(sc, k, 1) = {OwnMessage(r, m) : m \in {j \in Nodes : Speaks(r, j, k)}}
  BY <1>1, <1>3, <1>4, <1>11, IdealRound
<1>13. \A i \in DOMAIN res.out : res.out[i] \in Offered(r) /\ res.out[i].origin = n
  BY <1>5
<1>14. \A msg \in Due(sc, k, 1) : msg.origin = n => \E i \in DOMAIN res.out : res.out[i] = msg
  <2> TAKE msg \in Due(sc, k, 1)
  <2> HAVE msg.origin = n
  <2>1. PICK m \in Nodes : Speaks(r, m, k) /\ msg = OwnMessage(r, m)
    BY <1>12
  <2>2. msg.origin = m
    BY <2>1 DEF OwnMessage, message
  <2> QED BY <2>1, <2>2, <1>5
<1>15. Emits(n, res.rt, res.out)
  BY <1>6, <1>9, <1>12, <1>13, <1>14 DEF Emits
<1> QED BY <1>2, <1>5, <1>8, <1>10, <1>15 DEF KeepsStep

\* A round that has failed is left for a fresh one.
LEMMA SteadyFallsBack ==
    ASSUME NEW r, Steady(r), Draining(r), NEW n, NEW step, step.out = <<>>,
           FallenBack(r, step.rt),
           \A p \in 1..4 : p > Index(r) => ~Held(r.scenario, Round(r), p)
    PROVE  KeepsStep(n, r, step)
<1>1. /\ Keeps(r, step.rt) /\ Known(step.rt) /\ step.rt.phase = "loop"
      /\ Round(step.rt) = Round(r) + 1 /\ step.rt.round_machine.proposal = None
      /\ NoneProved(step.rt)
  BY DEF FallenBack, NoneProved
<1>2. Steady(step.rt)
  BY <1>1 DEF Steady, SteadyIn, Keeps
<1>3. GoesOn(r, step.rt)
  BY <1>1 DEF GoesOn
<1>4. Emits(n, step.rt, step.out)
  <2>1. ~Draining(step.rt) /\ DOMAIN step.out = {}
    BY <1>1 DEF Draining
  <2> QED BY <2>1 DEF Emits
<1> QED BY <1>1, <1>2, <1>3, <1>4 DEF KeepsStep

\* Where everybody who speaks has been heard, the end of the commitments keeps
\* step.
LEMMA SteadyEndCommit ==
    ASSUME NEW r, Steady(r), r.phase = "commit", NEW n \in Nodes, r.agents = {n}, AllHeard(r)
    PROVE  KeepsStep(n, r, EndPhase(r))
<1>1. RtInv(r) /\ Known(r) /\ r.round_machine.proposal = None /\ NoneProved(r) /\ Draining(r)
  BY DEF Steady, SteadyIn, Draining
<1>2. PICK res : res = end_commit_phase(r)
  OBVIOUS
<1>3. EndPhase(r) = res /\ Index(r) = 1
  BY <1>2, PhaseIndices DEF EndPhase
<1>4. PICK k : k = Round(r)
  OBVIOUS
<1>5. PICK sc : sc = r.scenario
  OBVIOUS
<1>6. k < MaxRounds /\ EarlierRoundsFailed(r)
  BY <1>1, <1>4, RuntimeFacts DEF Known
<1>7. /\ Held(sc, k, 1)
      /\ Due(sc, k, 1) = {OwnMessage(r, m) : m \in {j \in Nodes : Speaks(r, j, k)}}
      /\ \A p : p > 1 /\ Held(sc, k, p) => Speaks(r, Requester, k) /\ Claimants(r) # {}
      /\ Speaks(r, Requester, k) /\ Claimants(r) # {} => Held(sc, k, 2)
      /\ Fit(sc, k, 2) = Due(sc, k, 2)
      /\ Due(sc, k, 2) = {message(proposer_for_round(k), "proposal", TheProposal(r))}
  <2>1. \A p : Held(r.scenario, k, p) <=>
                /\ k < MaxRounds /\ EarlierRoundsFailed(r)
                /\ p > 1 => Speaks(r, Requester, k) /\ Claimants(r) # {}
                /\ p = 4 => RoundSucceeds(r.scenario, k)
    BY <1>1, <1>4, IdealRound
  <2>2. Due(r.scenario, k, 1) = {OwnMessage(r, m) : m \in {j \in Nodes : Speaks(r, j, k)}}
    BY <1>1, <1>4, IdealRound
  <2>3. Due(r.scenario, k, 2) = {message(proposer_for_round(k), "proposal", TheProposal(r))}
    BY <1>1, <1>4, IdealRound
  <2>4. Fit(r.scenario, k, 2) = Due(r.scenario, k, 2)
    BY <1>1, <1>4, IdealRound
  <2> QED BY <2>1, <2>2, <2>3, <2>4, <1>5, <1>6
<1>8. AllSpoke(r)
  <2> SUFFICES ASSUME NEW m \in Nodes, Speaks(r, m, k) PROVE Accepted(r, m)
    BY <1>4 DEF AllSpoke
  <2>0. \A msg \in Due(sc, k, 1) : Heard(r, msg)
    <3>1. Held(sc, k, 1)
      BY <1>7
    <3> QED BY <3>1, <1>3, <1>4, <1>5 DEF AllHeard
  <2>1. OwnMessage(r, m) \in Due(sc, k, 1)
    BY <1>7
  <2>2. Heard(r, OwnMessage(r, m))
    BY <2>0, <2>1
  <2>3. OwnMessage(r, m).origin = m
    BY DEF OwnMessage, message
  <2> QED BY <2>2, <2>3 DEF Heard
<1>9. PICK holds : holds = (proposer_for_round(k) \in r.agents)
  OBVIOUS
<1>10. PICK fails : fails = (~Speaks(r, Requester, k) \/ (holds /\ Claimants(r) = {}))
  OBVIOUS
<1>11. /\ fails => res.out = <<>> /\ FallenBack(r, res.rt)
       /\ ~fails => /\ MovedOn(r, res.rt, "proposal")
                    /\ holds => Complete(r)
                    /\ res.out = IF holds
                                 THEN <<message(proposer_for_round(k), "proposal", TheProposal(r))>>
                                 ELSE <<>>
  BY <1>1, <1>2, <1>4, <1>8, <1>9, <1>10, EndCommitKnown
<1>12. CASE fails
  <2>1. \A p \in 1..4 : p > Index(r) => ~Held(sc, k, p)
    BY <1>3, <1>7, <1>10, <1>12
  <2> QED BY <2>1, <1>1, <1>3, <1>4, <1>5, <1>11, <1>12, SteadyFallsBack
<1>13. CASE ~fails
  <2>1. /\ Keeps(r, res.rt) /\ Known(res.rt) /\ res.rt.phase = "proposal"
        /\ res.rt.round_machine = r.round_machine /\ res.rt.log = r.log
        /\ res.rt.scenario = r.scenario
    BY <1>11, <1>13 DEF MovedOn
  <2>2. /\ Round(res.rt) = k
        /\ AllSpoke(res.rt) <=> AllSpoke(r)
    BY <2>1, <1>4, SameRound
  <2>3. Speaks(res.rt, Requester, k)
    BY <1>10, <1>13, <2>1 DEF Speaks
  <2>4. NoneProved(res.rt)
    BY <2>1, <2>2, <1>1, <1>4 DEF NoneProved, Proved
  <2>5. Steady(res.rt)
    BY <2>1, <2>2, <2>3, <2>4, <1>1, <1>8 DEF Steady, SteadyIn, Keeps
  <2>6. Draining(res.rt) /\ Index(res.rt) = 2
    BY <2>1, PhaseIndices DEF Draining
  <2>7. GoesOn(r, res.rt)
    BY <2>2, <2>6, <1>3, <1>4 DEF GoesOn
  <2>8. \A m : message(m, "proposal", TheProposal(r)).origin = m
    BY DEF message
  <2>9. Emits(n, res.rt, res.out)
    <3>1. CASE holds
      <4>1. proposer_for_round(k) = n
        BY <3>1, <1>9
      <4>2. PICK msg : msg = message(n, "proposal", TheProposal(r))
        OBVIOUS
      <4>3. res.out = <<msg>>
        BY <4>1, <4>2, <3>1, <1>11, <1>13
      <4>4. Due(sc, k, 2) = {msg} /\ msg.origin = n
        BY <4>1, <4>2, <1>7, <2>8
      <4>5. Held(sc, k, 2)
        BY <3>1, <1>7, <1>11, <1>13, <1>4 DEF Complete
      <4>6. DOMAIN res.out = {1} /\ res.out[1] = msg
        BY <4>3
      <4> QED BY <4>4, <4>5, <4>6, <2>1, <2>2, <2>6, <1>5, <1>7 DEF Emits
    <3>2. CASE ~holds
      <4>1. DOMAIN res.out = {}
        BY <3>2, <1>11, <1>13
      <4>2. \A msg \in Due(sc, k, 2) : msg.origin # n
        BY <3>2, <1>7, <1>9, <2>8
      <4> QED BY <4>1, <4>2, <2>1, <2>2, <2>6, <1>5 DEF Emits
    <3> QED BY <3>1, <3>2
  <2> QED BY <2>1, <2>5, <2>7, <2>9, <1>3 DEF KeepsStep
<1> QED BY <1>12, <1>13

\* Where the proposal has been heard, so does the end of its phase.
LEMMA SteadyEndProposal ==
    ASSUME NEW r, Steady(r), r.phase = "proposal", NEW n \in Nodes, r.agents = {n}, AllHeard(r)
    PROVE  KeepsStep(n, r, EndPhase(r))
<1>1. /\ RtInv(r) /\ Known(r) /\ Draining(r) /\ NoneProved(r) /\ AllSpoke(r)
      /\ Speaks(r, Requester, Round(r))
      /\ r.round_machine.proposal # None => Agreed(r)
  BY DEF Steady, SteadyIn, Draining
<1>2. PICK res : res = end_proposal_phase(r)
  OBVIOUS
<1>3. EndPhase(r) = res /\ Index(r) = 2
  BY <1>2, PhaseIndices DEF EndPhase
<1>4. PICK k : k = Round(r)
  OBVIOUS
<1>5. PICK sc : sc = r.scenario
  OBVIOUS
<1>6. k < MaxRounds /\ EarlierRoundsFailed(r)
  BY <1>1, <1>4, RuntimeFacts DEF Known
<1>7. /\ \A p : p > 1 /\ Held(sc, k, p) => Claimants(r) # {}
      /\ Claimants(r) # {} => Held(sc, k, 2) /\ Held(sc, k, 3)
      /\ Due(sc, k, 2) = {message(proposer_for_round(k), "proposal", TheProposal(r))}
      /\ Fit(sc, k, 3) = Due(sc, k, 3)
      /\ Due(sc, k, 3) = {ProofMessage(Ideal(sc, k), m, k) : m \in {Requester, Best(r)}}
  BY <1>1, <1>4, <1>5, <1>6, IdealRound
<1>8. CASE r.round_machine.proposal = None
  <2>1. Claimants(r) = {}
    <3> SUFFICES ASSUME Claimants(r) # {} PROVE FALSE
      OBVIOUS
    <3>1. PICK msg : msg = message(proposer_for_round(k), "proposal", TheProposal(r))
      OBVIOUS
    <3>2. Heard(r, msg)
      BY <3>1, <1>3, <1>4, <1>5, <1>7 DEF AllHeard
    <3> QED BY <3>2, <1>8 DEF Heard
  <2>2. res.out = <<>> /\ res.rt = Fallback(r)
    BY <1>1, <1>2, <1>8, EndProposalShape
  <2>3. ~RoundSucceeds(r.scenario, Round(r))
    BY <2>1, RoundSucceedsMeans
  <2>4. FallenBack(r, res.rt)
    BY <1>1, <2>2, <2>3, FallbackKnown
  <2>5. \A p \in 1..4 : p > Index(r) => ~Held(sc, k, p)
    BY <2>1, <1>3, <1>7
  <2> QED BY <2>2, <2>4, <2>5, <1>1, <1>3, <1>4, <1>5, SteadyFallsBack
<1>9. CASE r.round_machine.proposal # None
  <2>1. Agreed(r) /\ Complete(r) /\ r.round_machine.proposal = TheProposal(r)
    BY <1>1, <1>9 DEF Agreed
  <2>2. PICK parties : parties = {Requester, Best(r)} \cap r.agents
    OBVIOUS
  <2>3. /\ MovedOn(r, res.rt, "proof")
        /\ \A i \in DOMAIN res.out : \E m \in parties : res.out[i] = ProofMessage(r, m, k)
        /\ \A m \in parties : \E i \in DOMAIN res.out : res.out[i] = ProofMessage(r, m, k)
    BY <1>1, <1>2, <1>4, <2>1, <2>2, EndProposalKnown
  <2>4. /\ Keeps(r, res.rt) /\ Known(res.rt) /\ res.rt.phase = "proof"
        /\ res.rt.round_machine = r.round_machine /\ res.rt.log = r.log
        /\ res.rt.scenario = r.scenario
    BY <2>3 DEF MovedOn
  <2>5. /\ Round(res.rt) = k /\ Best(res.rt) = Best(r) /\ Complete(res.rt)
        /\ TheProposal(res.rt) = TheProposal(r)
    BY <2>1, <2>4, <1>4, SameRound
  <2>6. {Requester, Best(r)} \subseteq Nodes /\ Claimants(r) # {}
    BY <2>1, BestFacts, NodeFacts DEF Complete
  <2>7. \A m \in Nodes : ~Proved(res.rt, m)
    BY <2>4, <2>5, <1>1, <1>4 DEF NoneProved, Proved
  <2>8. Steady(res.rt)
    BY <2>1, <2>4, <2>5, <2>6, <2>7 DEF Steady, SteadyIn, Keeps, Agreed
  <2>9. Draining(res.rt) /\ Index(res.rt) = 3
    BY <2>4, PhaseIndices DEF Draining
  <2>10. GoesOn(r, res.rt)
    BY <2>5, <2>9, <1>3, <1>4 DEF GoesOn
  <2>11. \A m \in {Requester, Best(r)} : Accepted(r, m)
    BY <2>1, <2>6, BestFacts DEF Complete, AllSpoke
  <2>12. \A m \in {Requester, Best(r)} :
            /\ ProofMessage(Ideal(sc, k), m, k) = ProofMessage(r, m, k)
            /\ ProofMessage(r, m, k) \in Due(sc, k, 3)
    <3>1. \A m \in {Requester, Best(r)} : ProofMessage(Ideal(sc, k), m, k) = ProofMessage(r, m, k)
      BY <2>6, <2>11, <1>1, <1>4, <1>5, IdealRound
    <3> QED BY <3>1, <1>7
  <2>13. \A m : ProofMessage(r, m, k).origin = m
    BY DEF ProofMessage, message
  <2>14. \A i \in DOMAIN res.out : res.out[i].origin = n /\ res.out[i] \in Fit(sc, k, 3)
    <3> TAKE i \in DOMAIN res.out
    <3>1. PICK m \in parties : res.out[i] = ProofMessage(r, m, k)
      BY <2>3
    <3>2. m = n /\ m \in {Requester, Best(r)}
      BY <3>1, <2>2
    <3> QED BY <3>1, <3>2, <2>12, <2>13, <1>7
  <2>15. \A msg \in Due(sc, k, 3) : msg.origin = n => \E i \in DOMAIN res.out : res.out[i] = msg
    <3> TAKE msg \in Due(sc, k, 3)
    <3> HAVE msg.origin = n
    <3>1. PICK m \in {Requester, Best(r)} : msg = ProofMessage(Ideal(sc, k), m, k)
      BY <1>7
    <3>2. msg = ProofMessage(r, m, k)
      BY <3>1, <2>12
    <3>3. m \in parties
      BY <3>2, <2>2, <2>13
    <3> QED BY <3>2, <3>3, <2>3
  <2>16. Emits(n, res.rt, res.out)
    BY <2>4, <2>5, <2>6, <2>9, <2>14, <2>15, <1>5, <1>7 DEF Emits
  <2> QED BY <2>4, <2>8, <2>10, <2>16, <1>3 DEF KeepsStep
<1> QED BY <1>8, <1>9

\* Where the proofs have been heard, so does the end of theirs.
LEMMA SteadyEndProof ==
    ASSUME NEW r, Steady(r), r.phase = "proof", NEW n \in Nodes, r.agents = {n}, AllHeard(r)
    PROVE  KeepsStep(n, r, EndPhase(r))
<1>1. /\ RtInv(r) /\ Known(r) /\ Draining(r) /\ Agreed(r) /\ Complete(r)
      /\ r.round_machine.proposal = TheProposal(r)
      /\ \A m \in {Requester, Best(r)} : Proved(r, m) => ~Sabotaged(r, m)
  BY DEF Steady, SteadyIn, Draining, Agreed
<1>2. PICK res : res = end_proof_phase(r)
  OBVIOUS
<1>3. EndPhase(r) = res /\ Index(r) = 3
  BY <1>2, PhaseIndices DEF EndPhase
<1>4. PICK k : k = Round(r)
  OBVIOUS
<1>5. PICK sc : sc = r.scenario
  OBVIOUS
<1>6. /\ k < MaxRounds /\ EarlierRoundsFailed(r)
      /\ Speaks(r, Requester, k) /\ Claimants(r) # {} /\ AllSpoke(r)
  BY <1>1, <1>4, RuntimeFacts DEF Known, Complete
<1>7. /\ Held(sc, k, 3)
      /\ Held(sc, k, 4) <=> RoundSucceeds(sc, k)
      /\ Due(sc, k, 3) = {ProofMessage(Ideal(sc, k), m, k) : m \in {Requester, Best(r)}}
      /\ Fit(sc, k, 4) = Due(sc, k, 4)
      /\ Due(sc, k, 4) = {message(Best(r), "receipt", TheReceipt(r))}
  <2>1. \A p : Held(sc, k, p) <=>
            /\ k < MaxRounds /\ EarlierRoundsFailed(r)
            /\ p > 1 => Speaks(r, Requester, k) /\ Claimants(r) # {}
            /\ p = 4 => RoundSucceeds(sc, k)
    BY <1>1, <1>4, <1>5, IdealRound
  <2>2. Held(sc, k, 3) /\ (Held(sc, k, 4) <=> RoundSucceeds(sc, k))
    BY <2>1, <1>6
  <2>3. /\ Fit(sc, k, 4) = Due(sc, k, 4)
        /\ Due(sc, k, 3) = {ProofMessage(Ideal(sc, k), m, k) : m \in {Requester, Best(r)}}
        /\ Due(sc, k, 4) = {message(Best(r), "receipt", TheReceipt(r))}
    BY <1>1, <1>4, <1>5, IdealRound
  <2> QED BY <2>2, <2>3
<1>8. \A m \in {Requester, Best(r)} : Proved(r, m) <=> ~Sabotaged(r, m)
  <2> SUFFICES ASSUME NEW m \in {Requester, Best(r)}, ~Sabotaged(r, m) PROVE Proved(r, m)
    BY <1>1
  <2>1. PICK msg : msg = ProofMessage(Ideal(sc, k), m, k)
    OBVIOUS
  <2>2. Heard(r, msg)
    BY <2>1, <1>3, <1>4, <1>5, <1>7 DEF AllHeard
  <2>3. msg.origin = m
    BY <2>1 DEF ProofMessage, message
  <2> QED BY <2>2, <2>3 DEF Heard
<1>9. /\ ~RoundSucceeds(sc, k) => res.out = <<>> /\ FallenBack(r, res.rt)
      /\ RoundSucceeds(sc, k) =>
             /\ MovedOn(r, res.rt, "receipt")
             /\ res.out = IF Best(r) \in r.agents
                          THEN <<message(Best(r), "receipt", TheReceipt(r))>> ELSE <<>>
  BY <1>1, <1>2, <1>4, <1>5, <1>8, EndProofKnown
<1>10. CASE ~RoundSucceeds(sc, k)
  <2>1. \A p \in 1..4 : p > Index(r) => ~Held(sc, k, p)
    BY <1>3, <1>7, <1>10
  <2> QED BY <2>1, <1>1, <1>3, <1>4, <1>5, <1>9, <1>10, SteadyFallsBack
<1>11. CASE RoundSucceeds(sc, k)
  <2>1. /\ Keeps(r, res.rt) /\ Known(res.rt) /\ res.rt.phase = "receipt"
        /\ res.rt.round_machine = r.round_machine /\ res.rt.log = r.log
        /\ res.rt.scenario = r.scenario
    BY <1>9, <1>11 DEF MovedOn
  <2>2. Round(res.rt) = k /\ Complete(res.rt) /\ TheProposal(res.rt) = TheProposal(r)
    BY <2>1, <1>1, <1>4, SameRound
  <2>3. Steady(res.rt)
    BY <2>1, <2>2, <1>1, <1>5, <1>11 DEF Steady, SteadyIn, Keeps, Agreed
  <2>4. Draining(res.rt) /\ Index(res.rt) = 4
    BY <2>1, PhaseIndices DEF Draining
  <2>5. GoesOn(r, res.rt)
    BY <2>2, <2>4, <1>3, <1>4 DEF GoesOn
  <2>6. PICK msg : msg = message(Best(r), "receipt", TheReceipt(r))
    OBVIOUS
  <2>7. msg.origin = Best(r) /\ Due(sc, k, 4) = {msg}
    BY <2>6, <1>7 DEF message
  <2>8. Emits(n, res.rt, res.out)
    <3>1. CASE Best(r) = n
      <4>1. res.out = <<msg>>
        BY <3>1, <2>6, <1>9, <1>11
      <4>2. DOMAIN res.out = {1} /\ res.out[1] = msg
        BY <4>1
      <4> QED BY <4>2, <3>1, <2>1, <2>2, <2>4, <2>7, <1>5, <1>7, <1>11 DEF Emits
    <3>2. CASE Best(r) # n
      <4>1. DOMAIN res.out = {}
        BY <3>2, <1>9, <1>11
      <4> QED BY <4>1, <3>2, <2>1, <2>2, <2>4, <2>7, <1>5 DEF Emits
    <3> QED BY <3>1, <3>2
  <2> QED BY <2>1, <2>3, <2>5, <2>8, <1>3 DEF KeepsStep
<1> QED BY <1>10, <1>11

\* After a round that succeeds no other is entered.
LEMMA NoneHeldAfter ==
    ASSUME NEW sc, NEW k \in RoundIds, RoundSucceeds(sc, k), NEW j \in RoundIds, j > k, NEW p
    PROVE  ~Held(sc, j, p)
<1>1. Ideal(sc, j).scenario = sc /\ Round(Ideal(sc, j)) = j
  BY DEF Ideal, Round
<1>2. k < j
  BY MaxRoundsAssumption DEF RoundIds, MaxRoundsAssumption
<1>3. ~EarlierRoundsFailed(Ideal(sc, j))
  BY <1>1, <1>2 DEF EarlierRoundsFailed
<1> QED BY <1>3 DEF Held

\* A process that is done sends nothing.
LEMMA SteadyIsDone ==
    ASSUME NEW r, NEW n, NEW step, Keeps(r, step.rt), Known(step.rt), Ended(step.rt),
           step.rt.phase = "done", step.out = <<>>,
           \A k \in RoundIds, p \in 1..4 :
               k > Round(r) \/ (k = Round(r) /\ p > Index(r)) => ~Held(r.scenario, k, p)
    PROVE  KeepsStep(n, r, step)
<1>1. Steady(step.rt)
  BY DEF Steady, SteadyIn, Keeps
<1>2. GoesOn(r, step.rt)
  BY DEF GoesOn
<1>3. ~Draining(step.rt) /\ DOMAIN step.out = {}
  BY DEF Draining
<1>4. Emits(n, step.rt, step.out)
  BY <1>3 DEF Emits
<1> QED BY <1>1, <1>2, <1>4 DEF KeepsStep

\* So does the end of the receipts.
LEMMA SteadyEndReceipt ==
    ASSUME NEW r, Steady(r), r.phase = "receipt", NEW n \in Nodes, AllHeard(r)
    PROVE  KeepsStep(n, r, EndPhase(r))
<1>1. /\ RtInv(r) /\ Known(r) /\ Draining(r) /\ Complete(r)
      /\ r.round_machine.proposal = TheProposal(r) /\ RoundSucceeds(r.scenario, Round(r))
  BY DEF Steady, SteadyIn, Draining, Agreed
<1>2. PICK res : res = end_receipt_phase(r)
  OBVIOUS
<1>3. EndPhase(r) = res /\ Index(r) = 4
  BY <1>2, PhaseIndices DEF EndPhase
<1>4. PICK k : k = Round(r)
  OBVIOUS
<1>5. PICK sc : sc = r.scenario
  OBVIOUS
<1>6. /\ k < MaxRounds /\ EarlierRoundsFailed(r) /\ k \in RoundIds
      /\ Speaks(r, Requester, k) /\ Claimants(r) # {}
  BY <1>1, <1>4, RuntimeFacts DEF Known, Complete
<1>7. Held(sc, k, 4) /\ Due(sc, k, 4) = {message(Best(r), "receipt", TheReceipt(r))}
  BY <1>1, <1>4, <1>5, <1>6, IdealRound
<1>8. ReceiptLogged(r)
  <2>1. PICK msg : msg = message(Best(r), "receipt", TheReceipt(r))
    OBVIOUS
  <2>2. Heard(r, msg)
    BY <2>1, <1>3, <1>4, <1>5, <1>7 DEF AllHeard
  <2> QED BY <2>2 DEF Heard
<1>9. /\ Keeps(r, res.rt) /\ Known(res.rt) /\ Ended(res.rt) /\ res.out = <<>>
      /\ res.rt.phase = "done"
  BY <1>1, <1>2, <1>8, EndReceiptKnown
<1>10. \A j \in RoundIds, p \in 1..4 :
           j > k \/ (j = k /\ p > Index(r)) => ~Held(sc, j, p)
  BY <1>1, <1>3, <1>4, <1>5, <1>6, NoneHeldAfter
<1> QED BY <1>3, <1>4, <1>5, <1>9, <1>10, SteadyIsDone

\* In whatever phase: where everything due has been heard, the end of the
\* phase keeps step.
LEMMA SteadyEnd ==
    ASSUME NEW r, Steady(r), Draining(r), NEW n \in Nodes, r.agents = {n}, AllHeard(r)
    PROVE  KeepsStep(n, r, EndPhase(r))
<1>1. CASE r.phase = "commit"
  BY <1>1, SteadyEndCommit
<1>2. CASE r.phase = "proposal"
  BY <1>2, SteadyEndProposal
<1>3. CASE r.phase = "proof"
  BY <1>3, SteadyEndProof
<1>4. CASE r.phase = "receipt"
  BY <1>4, SteadyEndReceipt
<1> QED BY <1>1, <1>2, <1>3, <1>4 DEF Draining

\* So does the end of the loop.
LEMMA SteadyEndRun ==
    ASSUME NEW r, Steady(r), LoopExhausted(r), NEW n
    PROVE  KeepsStep(n, r, [rt |-> end_run(r), out |-> <<>>])
<1>1. RtInv(r) /\ Known(r)
  BY DEF Steady
<1>2. PICK r2 : r2 = end_run(r)
  OBVIOUS
<1>3. PICK step : step = [rt |-> r2, out |-> <<>>]
  OBVIOUS
<1>4. Keeps(r, r2) /\ Known(r2) /\ Ended(r2) /\ Round(r) = MaxRounds /\ r2.phase = "done"
  BY <1>1, <1>2, EndRunKnown
<1>5. \A k \in RoundIds, p \in 1..4 : k >= Round(r) => ~Held(r.scenario, k, p)
  BY <1>4, MaxRoundsAssumption DEF Held, RoundIds, MaxRoundsAssumption
<1>6. \A k \in RoundIds, p \in 1..4 :
           k > Round(r) \/ (k = Round(r) /\ p > Index(r)) => ~Held(r.scenario, k, p)
  BY <1>4, <1>5, MaxRoundsAssumption DEF RoundIds, MaxRoundsAssumption
<1>7. step.rt = r2 /\ step.out = <<>>
  BY <1>3
<1>8. KeepsStep(n, r, step)
  BY <1>4, <1>6, <1>7, SteadyIsDone
<1> QED BY <1>2, <1>3, <1>8

\* A new process keeps step.
LEMMA NewIsSteady ==
    ASSUME NEW agents \in SUBSET Nodes, NEW scenario \in SUBSET ScenarioEvents
    PROVE  LET r == new_runtime(agents, scenario)
           IN  Steady(r) /\ r.phase = "loop" /\ Round(r) = 0
<1>1. PICK r : r = new_runtime(agents, scenario)
  OBVIOUS
<1>2. RtInv(r) /\ r.agents = agents /\ r.scenario = scenario /\ r.phase = "loop"
  BY <1>1, NewRuntimeInv
<1>3. /\ r.round_machine = new(0) /\ r.log = new_log /\ r.historical_commitments = {}
  BY <1>1 DEF new_runtime
<1>4. /\ Round(r) = 0 /\ r.round_machine.commitments = NoCommitments
      /\ r.round_machine.proposal = None /\ r.round_machine.history_hex = {}
      /\ r.log.proofs = <<>>
  BY <1>3 DEF Round, new, new_log
<1>5. \A n \in Nodes : ~Accepted(r, n) /\ ~Proved(r, n)
  BY <1>4 DEF Accepted, Proved, HasProof, NoCommitments
<1>6. \A k \in RoundIds : ~(k < 0)
  BY DEF RoundIds
<1>7. Known(r)
  BY <1>3, <1>4, <1>5, <1>6
     DEF Known, EarlierRoundsFailed, HistoryIsKnown, ReplaysAreOld, OwnRecords
<1>8. Steady(r)
  BY <1>2, <1>4, <1>5, <1>7 DEF Steady, SteadyIn, NoneProved
<1> QED BY <1>1, <1>2, <1>4, <1>8

-----------------------------------------------------------------------------
(* Keeping step.  What follows speaks of any stages st of the processes,   *)
(* any order o, any places ps in it and any heard hd, of the stages R that *)
(* the scenario reaches and of the messages D that it makes due in them.   *)

\* Nobody's message is ahead of its sender, in the order stages never fall,
\* a process has read nothing beyond its stage and everything before, no
\* process is two held stages ahead of another, whoever reached a stage has
\* sent what is due in it, and what is due in its stage a process has heard,
\* will read, or nobody has sent.
InStep(R, D, st, o, ps, hd) ==
    /\ \A i \in DOMAIN o : o[i].stage \in R /\ o[i].stage <= st[o[i].msg.origin]
    /\ \A i, j \in DOMAIN o : i <= j => o[i].stage <= o[j].stage
    /\ \A n \in Nodes : \A i \in DOMAIN o :
           IF i <= ps[n] THEN o[i].stage <= st[n] ELSE o[i].stage >= st[n]
    /\ \A a, b \in Nodes, d \in R : d < st[a] => d <= st[b]
    /\ \A e \in D : e.stage <= st[e.msg.origin] => \E i \in DOMAIN o : o[i] = e
    /\ \A e \in D, n \in Nodes : e.stage = st[n] =>
           \/ e \in hd[n]
           \/ st[e.msg.origin] < st[n]
           \/ \E i \in DOMAIN o : i > ps[n] /\ o[i] = e

Shapes(R, D, E, st, o, ps) ==
    /\ R \subseteq Nat /\ D \subseteq E
    /\ \A e \in E : e.stage \in R /\ e.msg.origin \in Nodes
    /\ st \in [Nodes -> Nat] /\ o \in Seq(E) /\ ps \in [Nodes -> 0..Len(o)]

\* A process that reads a message of its stage, or an earlier one, keeps step.
LEMMA ReadInStep ==
    ASSUME NEW R, NEW D, NEW E, NEW st, NEW o, NEW ps, NEW hd, NEW hd2,
           Shapes(R, D, E, st, o, ps), InStep(R, D, st, o, ps, hd),
           NEW n \in Nodes, NEW i \in DOMAIN o, i > ps[n], o[i].stage <= st[n],
           \A k \in Nodes : hd[k] \subseteq hd2[k],
           o[ps[n] + 1] \in D => o[ps[n] + 1] \in hd2[n]
    PROVE  /\ ps[n] + 1 \in DOMAIN o /\ o[ps[n] + 1].stage = st[n]
           /\ InStep(R, D, st, o, [ps EXCEPT ![n] = ps[n] + 1], hd2)
<1> DEFINE nx  == ps[n] + 1
           ps2 == [ps EXCEPT ![n] = nx]
<1>1. /\ R \subseteq Nat /\ st \in [Nodes -> Nat] /\ o \in Seq(E) /\ Len(o) \in Nat
      /\ DOMAIN o = 1..Len(o)
      /\ ps \in [Nodes -> 0..Len(o)] /\ ps[n] \in 0..Len(o) /\ st[n] \in Nat
  BY DEF Shapes
<1>2. /\ nx \in DOMAIN o /\ nx <= i /\ nx \in Nat /\ nx > ps[n]
  BY <1>1
<1>3. o[nx].stage <= o[i].stage
  BY <1>2 DEF InStep
<1>4. o[nx].stage >= st[n] /\ o[nx].stage \in Nat /\ o[i].stage \in Nat
  <2>1. ~(nx <= ps[n])
    BY <1>1
  <2>2. o[nx].stage >= st[n]
    BY <1>2, <2>1 DEF InStep
  <2>3. \A j \in DOMAIN o : o[j].stage \in Nat
    BY <1>1 DEF InStep
  <2> QED BY <2>2, <2>3, <1>2
<1>5. o[nx].stage = st[n]
  BY <1>1, <1>3, <1>4
<1>6. \A k \in Nodes : k # n => ps2[k] = ps[k]
  BY <1>1
<1>7. ps2[n] = nx
  BY <1>1
<1> HIDE DEF ps2, nx
<1>8. \A k \in Nodes : \A j \in DOMAIN o :
          IF j <= ps2[k] THEN o[j].stage <= st[k] ELSE o[j].stage >= st[k]
  <2> TAKE k \in Nodes
  <2> TAKE j \in DOMAIN o
  <2>1. IF j <= ps[k] THEN o[j].stage <= st[k] ELSE o[j].stage >= st[k]
    BY DEF InStep
  <2>2. CASE k # n
    BY <2>1, <2>2, <1>6
  <2>3. CASE k = n /\ j # nx
    <3>1. j \in Nat /\ ps[n] \in Nat
      BY <1>1
    <3>2. j <= nx <=> j <= ps[n]
      BY <2>3, <3>1 DEF nx
    <3> QED BY <2>1, <2>3, <3>2, <1>7
  <2>4. CASE k = n /\ j = nx
    BY <2>4, <1>5, <1>7, <1>2, <1>1
  <2> QED BY <2>2, <2>3, <2>4
<1>9. \A e \in D, k \in Nodes : e.stage = st[k] =>
         \/ e \in hd2[k]
         \/ st[e.msg.origin] < st[k]
         \/ \E j \in DOMAIN o : j > ps2[k] /\ o[j] = e
  <2> TAKE e \in D, k \in Nodes
  <2> HAVE e.stage = st[k]
  <2>1. \/ e \in hd[k] \/ st[e.msg.origin] < st[k]
        \/ \E j \in DOMAIN o : j > ps[k] /\ o[j] = e
    BY DEF InStep
  <2>2. CASE e \in hd[k]
    BY <2>2
  <2>3. CASE \E j \in DOMAIN o : j > ps[k] /\ o[j] = e
    <3> PICK j \in DOMAIN o : j > ps[k] /\ o[j] = e
      BY <2>3
    <3>1. CASE k # n
      BY <3>1, <1>6
    <3>2. CASE k = n /\ j = nx
      BY <3>2 DEF nx
    <3>3. CASE k = n /\ j # nx
      BY <3>3, <1>1, <1>7 DEF nx
    <3> QED BY <3>1, <3>2, <3>3
  <2> QED BY <2>1, <2>2, <2>3
<1>10. InStep(R, D, st, o, ps2, hd2)
  BY <1>8, <1>9 DEF InStep
<1> QED BY <1>2, <1>5, <1>10 DEF nx, ps2

\* A process goes on to a later stage, leaving no held stage out; in a held
\* stage everybody is there and it has read everything; it sends what is due
\* of it.
Advances(R, D, st, o, ps, n, t, out) ==
    /\ st[n] < t /\ \A d \in R : ~(st[n] < d /\ d < t)
    /\ st[n] \in R => /\ \A k \in Nodes : st[k] >= st[n]
                      /\ ~\E i \in DOMAIN o : i > ps[n] /\ o[i].stage <= st[n]
    /\ \A i \in DOMAIN out : out[i].stage = t /\ out[i].msg.origin = n
    /\ \A e \in D : e.stage = t /\ e.msg.origin = n => \E i \in DOMAIN out : out[i] = e

\* That keeps the processes in step.
LEMMA AdvanceInStep ==
    ASSUME NEW R, NEW D, NEW E, NEW st, NEW o, NEW ps, NEW hd, NEW hd2,
           Shapes(R, D, E, st, o, ps), InStep(R, D, st, o, ps, hd),
           NEW n \in Nodes, NEW t \in Nat, NEW out \in Seq(E),
           Advances(R, D, st, o, ps, n, t, out), \A k \in Nodes : k # n => hd2[k] = hd[k]
    PROVE  /\ InStep(R, D, [st EXCEPT ![n] = t], o \o out, ps, hd2)
           /\ o \o out \in Seq(E) /\ ps \in [Nodes -> 0..Len(o \o out)]
<1> USE DEF Advances
<1> DEFINE st2 == [st EXCEPT ![n] = t]
           o2  == o \o out
<1>1. /\ R \subseteq Nat /\ st \in [Nodes -> Nat] /\ o \in Seq(E) /\ Len(o) \in Nat
      /\ DOMAIN o = 1..Len(o) /\ D \subseteq E
      /\ \A e \in E : e.stage \in R /\ e.stage \in Nat /\ e.msg.origin \in Nodes
      /\ ps \in [Nodes -> 0..Len(o)] /\ st[n] \in Nat
      /\ \A k \in Nodes : st[k] \in Nat /\ ps[k] \in Nat /\ ps[k] <= Len(o)
  <2>1. /\ R \subseteq Nat /\ st \in [Nodes -> Nat] /\ o \in Seq(E) /\ Len(o) \in Nat
        /\ DOMAIN o = 1..Len(o) /\ D \subseteq E /\ ps \in [Nodes -> 0..Len(o)]
    BY DEF Shapes
  <2>2. \A e \in E : e.stage \in R /\ e.msg.origin \in Nodes
    BY DEF Shapes
  <2>3. \A k \in Nodes : st[k] \in Nat /\ ps[k] \in 0..Len(o)
    BY <2>1
  <2>4. \A k \in 0..Len(o) : k \in Nat /\ k <= Len(o)
    BY <2>1
  <2>5. \A e \in E : e.stage \in Nat
    BY <2>1, <2>2
  <2> QED BY <2>1, <2>2, <2>3, <2>4, <2>5
<1>2. /\ o2 \in Seq(E) /\ Len(o2) = Len(o) + Len(out) /\ Len(out) \in Nat
      /\ DOMAIN o2 = 1..(Len(o) + Len(out)) /\ DOMAIN out = 1..Len(out)
      /\ \A i \in DOMAIN o : i \in DOMAIN o2 /\ o2[i] = o[i] /\ i \in Nat
      /\ \A i \in DOMAIN out : Len(o) + i \in DOMAIN o2 /\ o2[Len(o) + i] = out[i]
      /\ \A i \in DOMAIN o2 : i \in DOMAIN o \/ \E j \in DOMAIN out : i = Len(o) + j
  <2>1. \A i \in 1..(Len(o) + Len(out)) : i \notin 1..Len(o) =>
              i - Len(o) \in 1..Len(out) /\ i = Len(o) + (i - Len(o))
    BY <1>1
  <2>2. o2 \in Seq(E) /\ Len(o2) = Len(o) + Len(out) /\ Len(out) \in Nat
      /\ DOMAIN o2 = 1..(Len(o) + Len(out)) /\ DOMAIN out = 1..Len(out)
    BY <1>1
  <2>3. \A i \in DOMAIN o : i \in DOMAIN o2 /\ o2[i] = o[i] /\ i \in Nat
    BY <1>1, <2>2
  <2>4. \A i \in DOMAIN out : Len(o) + i \in DOMAIN o2 /\ o2[Len(o) + i] = out[i]
    BY <1>1, <2>2
  <2> QED BY <2>1, <2>2, <2>3, <2>4, <1>1
<1>3. \A i \in DOMAIN o2 :
          \/ i \in DOMAIN o /\ o2[i] = o[i]
          \/ i > Len(o) /\ o2[i].stage = t /\ o2[i].msg.origin = n /\ t \in R
  <2> TAKE i \in DOMAIN o2
  <2>1. CASE i \in DOMAIN o
    BY <2>1, <1>2
  <2>2. ASSUME NEW j \in DOMAIN out, i = Len(o) + j
        PROVE  i > Len(o) /\ o2[i].stage = t /\ o2[i].msg.origin = n /\ t \in R
    <3>1. o2[i] = out[j] /\ out[j] \in E /\ j \in Nat /\ j >= 1
      BY <2>2, <1>2
    <3>2. i > Len(o)
      BY <2>2, <3>1, <1>1
    <3> HIDE DEF o2
    <3> QED BY <3>1, <3>2, <1>1
  <2> QED BY <2>1, <2>2, <1>2
<1>4. st2[n] = t /\ \A k \in Nodes : k # n => st2[k] = st[k]
  BY <1>1
<1>5. \A k \in Nodes : st2[k] \in Nat /\ st[k] <= st2[k]
  BY <1>1, <1>4
<1>o. \A i \in DOMAIN o : o[i].stage \in R /\ o[i].stage \in Nat /\ o[i].msg.origin \in Nodes
  BY <1>1
<1> HIDE DEF st2, o2

\* Where the new stage is held, nobody is beyond it.
<1>6. t \in R => \A k \in Nodes : st[k] <= t
  <2> SUFFICES ASSUME t \in R, NEW k \in Nodes, ~(st[k] <= t) PROVE FALSE
    OBVIOUS
  <2>1. t < st[k]
    BY <1>1
  <2>2. t <= st[n]
    BY <2>1 DEF InStep
  <2> QED BY <2>2, <1>1
<1>7. \A i \in DOMAIN o : t \in R => o[i].stage <= t
  <2> TAKE i \in DOMAIN o
  <2> HAVE t \in R
  <2>1. o[i].stage <= st[o[i].msg.origin]
    BY DEF InStep
  <2> QED BY <2>1, <1>6, <1>o, <1>1
<1>8. \A i \in DOMAIN o2 : o2[i].stage \in R /\ o2[i].stage <= st2[o2[i].msg.origin]
  <2> TAKE i \in DOMAIN o2
  <2>1. CASE i \in DOMAIN o /\ o2[i] = o[i]
    <3>1. o[i].stage \in R /\ o[i].stage <= st[o[i].msg.origin]
      BY <2>1 DEF InStep
    <3> QED BY <3>1, <2>1, <1>o, <1>5, <1>1
  <2> QED BY <2>1, <1>3, <1>4
<1>9. \A i, j \in DOMAIN o2 : i <= j => o2[i].stage <= o2[j].stage
  <2> TAKE i, j \in DOMAIN o2
  <2> HAVE i <= j
  <2>1. CASE /\ i \in DOMAIN o /\ o2[i] = o[i]
             /\ j \in DOMAIN o /\ o2[j] = o[j]
    BY <2>1 DEF InStep
  <2>2. CASE j > Len(o) /\ o2[j].stage = t /\ t \in R
    BY <2>2, <1>3, <1>7
  <2>3. CASE i > Len(o) /\ j \in DOMAIN o
    BY <2>3, <1>1, <1>2
  <2> QED BY <2>1, <2>2, <2>3, <1>3
<1>10. \A k \in Nodes : \A i \in DOMAIN o2 :
          IF i <= ps[k] THEN o2[i].stage <= st2[k] ELSE o2[i].stage >= st2[k]
  <2> TAKE k \in Nodes
  <2> TAKE i \in DOMAIN o2
  <2>1. CASE i \in DOMAIN o /\ o2[i] = o[i]
    <3>1. IF i <= ps[k] THEN o[i].stage <= st[k] ELSE o[i].stage >= st[k]
      BY <2>1 DEF InStep
    <3>2. CASE i <= ps[k]
      BY <3>1, <3>2, <2>1, <1>o, <1>5, <1>1
    <3>3. CASE ~(i <= ps[k]) /\ k # n
      BY <3>1, <3>3, <2>1, <1>4
    <3>4. CASE ~(i <= ps[k]) /\ k = n
      <4>1. i > ps[n] /\ o[i].stage >= st[n] /\ o[i].stage \in R /\ o[i].stage \in Nat
        BY <3>1, <3>4, <2>1, <1>o, <1>1
      <4>2. o[i].stage # st[n]
        <5> SUFFICES ASSUME o[i].stage = st[n] PROVE FALSE
          OBVIOUS
        <5>1. st[n] \in R /\ o[i].stage <= st[n]
          BY <4>1
        <5> QED BY <5>1, <4>1, <2>1
      <4>3. o[i].stage > st[n]
        BY <4>1, <4>2, <1>1
      <4>4. o[i].stage >= t
        BY <4>1, <4>3, <1>1
      <4> QED BY <4>4, <3>4, <2>1, <1>4
    <3> QED BY <3>2, <3>3, <3>4
  <2>2. CASE i > Len(o) /\ o2[i].stage = t /\ o2[i].msg.origin = n /\ t \in R
    <3>1. ~(i <= ps[k])
      BY <2>2, <1>1, <1>2
    <3>2. st2[k] <= t
      BY <2>2, <1>4, <1>6
    <3> QED BY <3>1, <3>2, <2>2, <1>5
  <2> QED BY <2>1, <2>2, <1>3
<1>11. \A a, b \in Nodes, d \in R : d < st2[a] => d <= st2[b]
  <2> TAKE a, b \in Nodes, d \in R
  <2> HAVE d < st2[a]
  <2>0. d \in Nat /\ st[a] \in Nat /\ st[b] \in Nat /\ st2[b] \in Nat /\ st[b] <= st2[b]
    BY <1>1, <1>5
  <2>1. CASE d < st[a]
    <3>1. d <= st[b]
      BY <2>1 DEF InStep
    <3> QED BY <3>1, <2>0
  <2>2. CASE ~(d < st[a])
    <3>1. a = n /\ d < t
      BY <2>2, <1>4
    <3>2. d <= st[n]
      BY <3>1, <2>0, <1>1
    <3>3. d = st[n]
      BY <3>1, <3>2, <2>2, <2>0
    <3>4. d <= st[b]
      BY <3>3, <2>0
    <3> QED BY <3>4, <2>0
  <2> QED BY <2>1, <2>2
<1>12. \A e \in D : e.stage <= st2[e.msg.origin] => \E i \in DOMAIN o2 : o2[i] = e
  <2> TAKE e \in D
  <2> HAVE e.stage <= st2[e.msg.origin]
  <2>1. e.stage \in R /\ e.stage \in Nat /\ e.msg.origin \in Nodes
    BY <1>1
  <2>2. CASE e.stage <= st[e.msg.origin]
    <3>1. PICK i \in DOMAIN o : o[i] = e
      BY <2>2 DEF InStep
    <3> QED BY <3>1, <1>2
  <2>3. CASE ~(e.stage <= st[e.msg.origin])
    <3>1. e.msg.origin = n /\ e.stage <= t /\ st[n] < e.stage
      BY <2>3, <2>1, <1>4, <1>1
    <3>2. e.stage = t
      BY <3>1, <2>1, <1>1
    <3>3. PICK i \in DOMAIN out : out[i] = e
      BY <3>1, <3>2
    <3> QED BY <3>3, <1>2
  <2> QED BY <2>2, <2>3
<1>13. \A e \in D, k \in Nodes : e.stage = st2[k] =>
         \/ e \in hd2[k]
         \/ st2[e.msg.origin] < st2[k]
         \/ \E i \in DOMAIN o2 : i > ps[k] /\ o2[i] = e
  <2> TAKE e \in D, k \in Nodes
  <2> HAVE e.stage = st2[k]
  <2>1. e.stage \in R /\ e.stage \in Nat /\ e.msg.origin \in Nodes
    BY <1>1
  <2>2. CASE k = n
    <3> SUFFICES ASSUME ~(st2[e.msg.origin] < st2[k])
                 PROVE  \E i \in DOMAIN o2 : i > ps[k] /\ o2[i] = e
      OBVIOUS
    <3>1. e.stage <= st2[e.msg.origin]
      BY <2>1, <1>5
    <3>2. PICK i \in DOMAIN o2 : o2[i] = e
      BY <3>1, <1>12
    <3>3. e.stage = t
      BY <2>2, <1>4
    <3>4. i > ps[k]
      <4>1. CASE i \in DOMAIN o /\ o2[i] = o[i]
        <5>1. ~(i <= ps[n])
          <6> SUFFICES ASSUME i <= ps[n] PROVE FALSE
            OBVIOUS
          <6>1. o[i].stage <= st[n]
            BY <4>1 DEF InStep
          <6> QED BY <6>1, <4>1, <3>2, <3>3, <1>1
        <5> QED BY <5>1, <2>2, <4>1, <1>1
      <4>2. CASE i > Len(o)
        BY <4>2, <1>1, <1>2
      <4> QED BY <4>1, <4>2, <1>3
    <3> QED BY <3>2, <3>4
  <2>3. CASE k # n
    <3>0. st2[k] = st[k] /\ hd2[k] = hd[k] /\ e.stage = st[k]
      BY <2>3, <1>4
    <3>1. \/ e \in hd[k] \/ st[e.msg.origin] < st[k]
          \/ \E i \in DOMAIN o : i > ps[k] /\ o[i] = e
      BY <3>0 DEF InStep
    <3>2. CASE e \in hd[k]
      BY <3>2, <3>0
    <3>3. CASE \E i \in DOMAIN o : i > ps[k] /\ o[i] = e
      BY <3>3, <1>2
    <3>4. CASE st[e.msg.origin] < st[k]
      <4>1. CASE e.msg.origin # n
        BY <4>1, <3>4, <3>0, <2>1, <1>4
      <4>2. CASE e.msg.origin = n /\ t < st[k]
        BY <4>2, <3>0, <1>4
      <4>3. CASE e.msg.origin = n /\ ~(t < st[k])
        <5>1. e.stage = t
          BY <4>3, <3>4, <3>0, <2>1, <1>1
        <5>2. PICK i \in DOMAIN out : out[i] = e
          BY <4>3, <5>1
        <5>3. Len(o) + i \in DOMAIN o2 /\ o2[Len(o) + i] = e /\ Len(o) + i > ps[k]
          BY <5>2, <1>1, <1>2
        <5> QED BY <5>3
      <4> QED BY <4>1, <4>2, <4>3
    <3> QED BY <3>1, <3>2, <3>3, <3>4
  <2> QED BY <2>2, <2>3
<1>14. InStep(R, D, st2, o2, ps, hd2)
  BY <1>8, <1>9, <1>10, <1>11, <1>12, <1>13 DEF InStep
<1>15. ps \in [Nodes -> 0..Len(o2)]
  <2>1. 0..Len(o) \subseteq 0..Len(o2)
    BY <1>1, <1>2
  <2> QED BY <2>1, <1>1
<1> QED BY <1>14, <1>15, <1>2 DEF st2, o2

-----------------------------------------------------------------------------
(* The stages that processes in step enter, and the stage of a process.    *)

Places(s) ==
    {q \in (0..(s.sessions - 1)) \X RoundIds \X (1..4) : Held(s.scenario, q[2], q[3])}
StageAt(q) == At(q[1], q[2], q[3])
Entry(stage, msg) == [stage |-> stage, msg |-> msg]

HeldStages(s) == {StageAt(q) : q \in Places(s)}
DueEntries(s) ==
    UNION {{Entry(StageAt(q), msg) : msg \in Due(s.scenario, q[2], q[3])} : q \in Places(s)}
FitEntries(s) ==
    UNION {{Entry(StageAt(q), msg) : msg \in Fit(s.scenario, q[2], q[3])} : q \in Places(s)}

\* A stage is a number.
LEMMA AtIsNat ==
    ASSUME NEW x \in Nat, NEW k \in RoundIds, NEW p \in 0..4 PROVE At(x, k, p) \in Nat
  BY StageOrder

\* It determines session, round and phase.
LEMMA AtIsInjective ==
    ASSUME NEW x \in Nat, NEW x2 \in Nat, NEW k \in RoundIds, NEW k2 \in RoundIds,
           NEW p \in 0..4, NEW p2 \in 0..4, At(x, k, p) = At(x2, k2, p2)
    PROVE  x = x2 /\ k = k2 /\ p = p2
<1>1. At(x, k, p) \in Nat
  BY AtIsNat
<1>2. At(x, k, p) < At(x2, k2, p2) <=> Before(x, k, p, x2, k2, p2)
  BY StageOrder
<1>3. At(x2, k2, p2) < At(x, k, p) <=> Before(x2, k2, p2, x, k, p)
  BY StageOrder
<1>4. ~Before(x, k, p, x2, k2, p2) /\ ~Before(x2, k2, p2, x, k, p)
  BY <1>1, <1>2, <1>3
<1>5. k \in Nat /\ k2 \in Nat
  BY MaxRoundsAssumption DEF RoundIds, MaxRoundsAssumption
<1> QED BY <1>4, <1>5 DEF Before

\* The parts of a place.
LEMMA PlaceParts ==
    ASSUME NEW s, s.sessions \in Nat, NEW q \in Places(s)
    PROVE  /\ q[1] \in 0..(s.sessions - 1) /\ q[1] \in Nat
           /\ q[2] \in RoundIds /\ q[3] \in 1..4 /\ q[3] \in 0..4
           /\ Held(s.scenario, q[2], q[3])
           /\ StageAt(q) \in Nat /\ StageAt(q) = At(q[1], q[2], q[3])
<1>1. /\ q[1] \in 0..(s.sessions - 1) /\ q[2] \in RoundIds /\ q[3] \in 1..4
      /\ Held(s.scenario, q[2], q[3])
  BY DEF Places
<1>2. q[1] \in Nat /\ q[3] \in 0..4
  BY <1>1
<1>3. At(q[1], q[2], q[3]) \in Nat
  BY <1>1, <1>2, AtIsNat
<1> QED BY <1>1, <1>2, <1>3 DEF StageAt

\* Entries that are due fit, and those that fit are of a held stage and come
\* from a node.
LEMMA EntryFacts ==
    ASSUME NEW s, s.sessions \in Nat
    PROVE  /\ HeldStages(s) \subseteq Nat /\ DueEntries(s) \subseteq FitEntries(s)
           /\ \A e \in FitEntries(s) : e.stage \in HeldStages(s) /\ e.msg.origin \in Nodes
<1>1. HeldStages(s) \subseteq Nat
  BY PlaceParts DEF HeldStages
<1>2. ASSUME NEW e \in DueEntries(s) PROVE e \in FitEntries(s)
  <2>1. PICK q \in Places(s) : \E msg \in Due(s.scenario, q[2], q[3]) : e = Entry(StageAt(q), msg)
    BY <1>2 DEF DueEntries
  <2>2. PICK msg \in Due(s.scenario, q[2], q[3]) : e = Entry(StageAt(q), msg)
    BY <2>1
  <2>3. msg \in Fit(s.scenario, q[2], q[3])
    BY PlaceParts, DueFacts
  <2> QED BY <2>2, <2>3 DEF FitEntries
<1>3. ASSUME NEW e \in FitEntries(s) PROVE e.stage \in HeldStages(s) /\ e.msg.origin \in Nodes
  <2>1. PICK q \in Places(s) : \E msg \in Fit(s.scenario, q[2], q[3]) : e = Entry(StageAt(q), msg)
    BY <1>3 DEF FitEntries
  <2>2. PICK msg \in Fit(s.scenario, q[2], q[3]) : e = Entry(StageAt(q), msg)
    BY <2>1
  <2>3. msg.origin \in Nodes
    BY PlaceParts, DueFacts
  <2>4. e.stage = StageAt(q) /\ e.msg = msg
    BY <2>2 DEF Entry
  <2> QED BY <2>3, <2>4 DEF HeldStages
<1> QED BY <1>1, <1>2, <1>3

\* What is held, due and fit in the stage of a place.
LEMMA StageEntries ==
    ASSUME NEW s, s.sessions \in Nat, NEW x \in Nat, NEW k \in RoundIds, NEW p \in 0..4,
           NEW t, t = At(x, k, p)
    PROVE  /\ t \in HeldStages(s) => p \in 1..4 /\ Held(s.scenario, k, p)
           /\ \A e \in DueEntries(s) : e.stage = t => e.msg \in Due(s.scenario, k, p)
           /\ \A e \in FitEntries(s) : e.stage = t => e.msg \in Fit(s.scenario, k, p)
           /\ x \in 0..(s.sessions - 1) /\ p \in 1..4 /\ Held(s.scenario, k, p) =>
                  /\ t \in HeldStages(s)
                  /\ \A msg \in Due(s.scenario, k, p) : Entry(t, msg) \in DueEntries(s)
                  /\ \A msg \in Fit(s.scenario, k, p) : Entry(t, msg) \in FitEntries(s)
<1>1. ASSUME NEW q \in Places(s), StageAt(q) = t
      PROVE  q[2] = k /\ q[3] = p /\ p \in 1..4 /\ Held(s.scenario, k, p)
  <2>1. /\ q[1] \in Nat /\ q[2] \in RoundIds /\ q[3] \in 0..4
        /\ At(q[1], q[2], q[3]) = At(x, k, p)
    BY <1>1, PlaceParts
  <2>2. q[2] = k /\ q[3] = p
    BY <2>1, AtIsInjective
  <2> QED BY <2>2, PlaceParts
<1>2. t \in HeldStages(s) => p \in 1..4 /\ Held(s.scenario, k, p)
  BY <1>1 DEF HeldStages
<1>3. ASSUME NEW e \in DueEntries(s), e.stage = t PROVE e.msg \in Due(s.scenario, k, p)
  <2>1. PICK q \in Places(s) : \E msg \in Due(s.scenario, q[2], q[3]) : e = Entry(StageAt(q), msg)
    BY <1>3 DEF DueEntries
  <2>2. PICK msg \in Due(s.scenario, q[2], q[3]) : e = Entry(StageAt(q), msg)
    BY <2>1
  <2>3. e.stage = StageAt(q) /\ e.msg = msg
    BY <2>2 DEF Entry
  <2> QED BY <2>2, <2>3, <1>1, <1>3
<1>4. ASSUME NEW e \in FitEntries(s), e.stage = t PROVE e.msg \in Fit(s.scenario, k, p)
  <2>1. PICK q \in Places(s) : \E msg \in Fit(s.scenario, q[2], q[3]) : e = Entry(StageAt(q), msg)
    BY <1>4 DEF FitEntries
  <2>2. PICK msg \in Fit(s.scenario, q[2], q[3]) : e = Entry(StageAt(q), msg)
    BY <2>1
  <2>3. e.stage = StageAt(q) /\ e.msg = msg
    BY <2>2 DEF Entry
  <2> QED BY <2>2, <2>3, <1>1, <1>4
<1>5. ASSUME x \in 0..(s.sessions - 1), p \in 1..4, Held(s.scenario, k, p)
      PROVE  /\ t \in HeldStages(s)
             /\ \A msg \in Due(s.scenario, k, p) : Entry(t, msg) \in DueEntries(s)
             /\ \A msg \in Fit(s.scenario, k, p) : Entry(t, msg) \in FitEntries(s)
  <2>1. PICK q : q = <<x, k, p>>
    OBVIOUS
  <2>2. q[1] = x /\ q[2] = k /\ q[3] = p
    BY <2>1
  <2>3. q \in (0..(s.sessions - 1)) \X RoundIds \X (1..4)
    BY <1>5, <2>1
  <2>4. q \in Places(s)
    BY <1>5, <2>2, <2>3 DEF Places
  <2>5. StageAt(q) = t
    BY <2>2 DEF StageAt
  <2> QED BY <2>2, <2>4, <2>5 DEF HeldStages, DueEntries, FitEntries
<1> QED BY <1>2, <1>3, <1>4, <1>5

\* The stage of a runtime r in session x of ss.
StageIn(r, x, ss) ==
    IF Stopped(r) /\ (r.phase = "done" => x + 1 = ss) THEN 5 * (MaxRounds + 1) * ss
    ELSE StageOf(r, x)

\* It is the place of the round and the phase, and at the end the last of the
\* session, or beyond all sessions.
LEMMA SteadyStage ==
    ASSUME NEW r, Steady(r), NEW x \in Nat, NEW ss \in Nat
    PROVE  /\ Round(r) \in RoundIds
           /\ r.phase # "done" =>
                  /\ Index(r) \in 0..4 /\ (Index(r) # 0 <=> Draining(r))
                  /\ StageIn(r, x, ss) = At(x, Round(r), Index(r))
                  /\ StageOf(r, x) = At(x, Round(r), Index(r))
           /\ r.phase = "done" => StageIn(r, x, ss) = IF x + 1 = ss THEN At(ss, 0, 0)
                                                      ELSE At(x, MaxRounds, 4)
           /\ StageIn(r, x, ss) \in Nat
<1>1. Round(r) \in RoundIds /\ Round(r) \in Nat /\ MaxRounds \in Nat
  BY RuntimeFacts, MaxRoundsAssumption DEF Steady, MaxRoundsAssumption
<1>2. r.phase \in {"loop", "commit", "proposal", "proof", "receipt", "done"}
  BY DEF Steady, SteadyIn
<1>3. ASSUME r.phase # "done"
      PROVE  /\ Index(r) \in 0..4 /\ (Index(r) # 0 <=> Draining(r))
             /\ StageIn(r, x, ss) = At(x, Round(r), Index(r))
             /\ StageOf(r, x) = At(x, Round(r), Index(r))
  <2>1. Index(r) \in 0..4 /\ (Index(r) # 0 <=> Draining(r))
    BY <1>2, <1>3, PhaseIndices DEF Draining
  <2>2. ~Stopped(r)
    BY <1>2, <1>3 DEF Stopped
  <2>3. StageOf(r, x) = At(x, Round(r), Index(r))
    BY <2>1, <2>2, <1>1 DEF StageOf, At, Round, Index
  <2> QED BY <2>1, <2>2, <2>3 DEF StageIn
<1>4. ASSUME r.phase = "done"
      PROVE  StageIn(r, x, ss) = IF x + 1 = ss THEN At(ss, 0, 0) ELSE At(x, MaxRounds, 4)
  <2>1. Stopped(r)
    BY <1>4 DEF Stopped
  <2>2. At(ss, 0, 0) = 5 * (MaxRounds + 1) * ss
    <3>1. 5 * (MaxRounds + 1) * ss \in Nat
      BY <1>1
    <3> QED BY <3>1 DEF At
  <2>3. StageOf(r, x) = At(x, MaxRounds, 4)
    <3>1. 5 * (MaxRounds + 1) * x \in Nat
      BY <1>1
    <3> QED BY <3>1, <2>1, <1>1 DEF StageOf, At
  <2> QED BY <2>1, <2>2, <2>3, <1>4 DEF StageIn
<1>5. StageIn(r, x, ss) \in Nat
  <2>1. 0 \in RoundIds /\ MaxRounds \in RoundIds /\ 0 \in 0..4 /\ 4 \in 0..4
    BY <1>1 DEF RoundIds
  <2>2. At(ss, 0, 0) \in Nat /\ At(x, MaxRounds, 4) \in Nat
    BY <2>1, AtIsNat
  <2>3. Index(r) \in 0..4 => At(x, Round(r), Index(r)) \in Nat
    BY <1>1, AtIsNat
  <2> QED BY <2>2, <2>3, <1>3, <1>4
<1> QED BY <1>1, <1>3, <1>4, <1>5

\* A process in a held stage is in a drain loop, where that is held.
LEMMA SteadyHeld ==
    ASSUME NEW s, s.sessions \in Nat, NEW x \in 0..(s.sessions - 1),
           NEW r, Steady(r), r.scenario = s.scenario
    PROVE  LET t == StageIn(r, x, s.sessions)
           IN  /\ t \in HeldStages(s) => Draining(r)
               /\ Draining(r) =>
                      /\ t = StageOf(r, x)
                      /\ t \in HeldStages(s) <=> Held(s.scenario, Round(r), Index(r))
                      /\ \A e \in DueEntries(s) :
                             e.stage = t => e.msg \in Due(s.scenario, Round(r), Index(r))
                      /\ \A e \in FitEntries(s) :
                             e.stage = t => e.msg \in Fit(s.scenario, Round(r), Index(r))
                      /\ Held(s.scenario, Round(r), Index(r)) =>
                             /\ \A msg \in Due(s.scenario, Round(r), Index(r)) :
                                    Entry(t, msg) \in DueEntries(s)
                             /\ \A msg \in Fit(s.scenario, Round(r), Index(r)) :
                                    Entry(t, msg) \in FitEntries(s)
<1>1. PICK t : t = StageIn(r, x, s.sessions)
  OBVIOUS
<1>2. PICK k : k = Round(r)
  OBVIOUS
<1>3. PICK p : p = Index(r)
  OBVIOUS
<1>4. x \in Nat /\ k \in RoundIds
  BY <1>2, SteadyStage
<1>5. CASE r.phase # "done"
  <2>1. /\ p \in 0..4 /\ (p # 0 <=> Draining(r)) /\ t = At(x, k, p) /\ StageOf(r, x) = t
    BY <1>1, <1>2, <1>3, <1>4, <1>5, SteadyStage
  <2>2. /\ t \in HeldStages(s) => p \in 1..4 /\ Held(s.scenario, k, p)
        /\ \A e \in DueEntries(s) : e.stage = t => e.msg \in Due(s.scenario, k, p)
        /\ \A e \in FitEntries(s) : e.stage = t => e.msg \in Fit(s.scenario, k, p)
        /\ p \in 1..4 /\ Held(s.scenario, k, p) =>
               /\ t \in HeldStages(s)
               /\ \A msg \in Due(s.scenario, k, p) : Entry(t, msg) \in DueEntries(s)
               /\ \A msg \in Fit(s.scenario, k, p) : Entry(t, msg) \in FitEntries(s)
    BY <1>4, <2>1, StageEntries
  <2>3. Draining(r) => p \in 1..4
    BY <2>1
  <2>4. p \in 1..4 => Draining(r)
    BY <2>1
  <2> QED BY <2>1, <2>2, <2>3, <2>4, <1>1, <1>2, <1>3
<1>6. CASE r.phase = "done"
  <2>1. ~Draining(r)
    BY <1>6 DEF Draining
  <2>2. MaxRounds \in RoundIds /\ 0 \in RoundIds /\ MaxRounds \in Nat
    BY MaxRoundsAssumption DEF RoundIds, MaxRoundsAssumption
  <2>3. t = At(s.sessions, 0, 0) \/ t = At(x, MaxRounds, 4)
    BY <1>1, <1>4, <1>6, SteadyStage
  <2>4. t = At(s.sessions, 0, 0) => t \notin HeldStages(s)
    BY <2>2, StageEntries
  <2>5. t = At(x, MaxRounds, 4) => t \notin HeldStages(s)
    <3>1. ~Held(s.scenario, MaxRounds, 4)
      BY <2>2 DEF Held
    <3> QED BY <3>1, <2>2, <1>4, StageEntries
  <2> QED BY <2>1, <2>3, <2>4, <2>5, <1>1
<1> QED BY <1>5, <1>6

\* From stage a on to stage b, with no held stage in between.
Onto(s, a, b) == a \in Nat /\ b \in Nat /\ a < b /\ \A d \in HeldStages(s) : ~(a < d /\ d < b)

\* So it is between two places that no held place is between.
LEMMA OntoPlace ==
    ASSUME NEW s, s.sessions \in Nat,
           NEW x \in Nat, NEW k \in RoundIds, NEW p \in 0..4,
           NEW x2 \in Nat, NEW k2 \in RoundIds, NEW p2 \in 0..4, Before(x, k, p, x2, k2, p2),
           \A j \in Nat, l \in RoundIds, m \in 1..4 :
               Before(x, k, p, j, l, m) /\ Before(j, l, m, x2, k2, p2) => ~Held(s.scenario, l, m)
    PROVE  Onto(s, At(x, k, p), At(x2, k2, p2))
<1>1. PICK a : a = At(x, k, p)
  OBVIOUS
<1>2. PICK b : b = At(x2, k2, p2)
  OBVIOUS
<1>3. a \in Nat /\ b \in Nat /\ a < b
  BY <1>1, <1>2, StageOrder
<1>4. ASSUME NEW d \in HeldStages(s), a < d, d < b PROVE FALSE
  <2>1. PICK q \in Places(s) : d = StageAt(q)
    BY <1>4 DEF HeldStages
  <2>2. PICK j : j = q[1]
    OBVIOUS
  <2>3. PICK l : l = q[2]
    OBVIOUS
  <2>4. PICK m : m = q[3]
    OBVIOUS
  <2>5. /\ j \in Nat /\ l \in RoundIds /\ m \in 1..4 /\ m \in 0..4
        /\ Held(s.scenario, l, m) /\ d = At(j, l, m)
    BY <2>1, <2>2, <2>3, <2>4, PlaceParts
  <2>6. Before(x, k, p, j, l, m)
    BY <2>5, <1>1, <1>4, StageOrder
  <2>7. Before(j, l, m, x2, k2, p2)
    BY <2>5, <1>2, <1>4, StageOrder
  <2> QED BY <2>5, <2>6, <2>7
<1> QED BY <1>1, <1>2, <1>3, <1>4 DEF Onto

\* Between two places of a round are the phases between them, and between two
\* rounds or sessions the rest of the first.
LEMMA BetweenPlaces ==
    ASSUME NEW x \in Nat, NEW k \in Nat, NEW p \in Nat,
           NEW j \in Nat, NEW l \in Nat, NEW m \in Nat, m > 0, Before(x, k, p, j, l, m)
    PROVE  /\ ~Before(j, l, m, x, k, p + 1)
           /\ Before(j, l, m, x, k + 1, 0) => l = k /\ m > p
           /\ Before(j, l, m, x + 1, 0, 0) => l > k \/ (l = k /\ m > p)
           /\ \A q \in Nat, c \in Nat : Before(j, l, m, x, q, c) => l > k \/ (l = k /\ m > p)
<1>1. x < j \/ (x = j /\ (k < l \/ (k = l /\ p < m)))
  BY DEF Before
<1>2. CASE x < j
  <2>1. ~(j < x) /\ j # x /\ ~(j < x + 1)
    BY <1>2
  <2>2. j = x + 1 => ~(l < 0) /\ ~(l = 0 /\ m < 0)
    OBVIOUS
  <2> QED BY <2>1, <2>2 DEF Before
<1>3. CASE x = j /\ (k < l \/ (k = l /\ p < m))
  <2>1. ~(j < x)
    BY <1>3
  <2>2. l > k \/ (l = k /\ m > p)
    BY <1>3
  <2>3. ~(l < k \/ (l = k /\ m < p + 1))
    BY <2>2
  <2>4. l < k + 1 \/ (l = k + 1 /\ m < 0) => l = k /\ m > p
    BY <2>2
  <2> QED BY <2>1, <2>2, <2>3, <2>4 DEF Before
<1> QED BY <1>1, <1>2, <1>3

\* A process that goes on leaves out no held stage.
LEMMA GoesOnto ==
    ASSUME NEW s, s.sessions \in Nat, NEW x \in 0..(s.sessions - 1),
           NEW r, Steady(r), r.phase # "done", r.scenario = s.scenario,
           NEW r2, Steady(r2), GoesOn(r, r2)
    PROVE  Onto(s, StageIn(r, x, s.sessions), StageIn(r2, x, s.sessions))
<1>1. PICK ss : ss = s.sessions
  OBVIOUS
<1>2. PICK k : k = Round(r)
  OBVIOUS
<1>3. PICK p : p = Index(r)
  OBVIOUS
<1>4. PICK k2 : k2 = Round(r2)
  OBVIOUS
<1>5. PICK p2 : p2 = Index(r2)
  OBVIOUS
<1>6. ss \in Nat /\ x \in Nat /\ x < ss /\ MaxRounds \in Nat
  BY <1>1, MaxRoundsAssumption DEF MaxRoundsAssumption
<1>7. /\ k \in RoundIds /\ k2 \in RoundIds /\ k \in Nat /\ k2 \in Nat /\ k <= MaxRounds
      /\ p \in 0..4 /\ p \in Nat /\ StageIn(r, x, ss) = At(x, k, p)
  <2>1. k \in RoundIds /\ k2 \in RoundIds
    BY <1>2, <1>4, <1>6, SteadyStage
  <2>2. p \in 0..4 /\ StageIn(r, x, ss) = At(x, k, p)
    BY <1>2, <1>3, <1>6, SteadyStage
  <2> QED BY <2>1, <2>2, <1>6 DEF RoundIds
<1>8. /\ \A l \in RoundIds : l \in Nat /\ l <= MaxRounds
      /\ \A m \in 1..4 : m \in Nat /\ m > 0
  BY <1>6 DEF RoundIds
<1>9. CASE Draining(r2) /\ k2 = k /\ p2 = p + 1
  <2>1. r2.phase # "done"
    BY <1>9 DEF Draining
  <2>2. p2 \in 0..4 /\ StageIn(r2, x, ss) = At(x, k, p2)
    <3>1. p2 \in 0..4 /\ StageIn(r2, x, ss) = At(x, k2, p2)
      BY <2>1, <1>4, <1>5, <1>6, SteadyStage
    <3> QED BY <3>1, <1>9
  <2>3. Before(x, k, p, x, k, p2)
    BY <1>7, <1>9, <2>2 DEF Before
  <2>4. \A j \in Nat, l \in RoundIds, m \in 1..4 :
            ~(Before(x, k, p, j, l, m) /\ Before(j, l, m, x, k, p2))
    <3> SUFFICES ASSUME NEW j \in Nat, NEW l \in RoundIds, NEW m \in 1..4,
                        Before(x, k, p, j, l, m)
                 PROVE  ~Before(j, l, m, x, k, p2)
      OBVIOUS
    <3>1. l \in Nat /\ m \in Nat /\ m > 0
      BY <1>8
    <3>2. ~Before(j, l, m, x, k, p + 1)
      BY <3>1, <1>6, <1>7, BetweenPlaces
    <3> QED BY <3>2, <1>9
  <2>5. Onto(s, At(x, k, p), At(x, k, p2))
    BY <2>2, <2>3, <2>4, <1>6, <1>7, OntoPlace
  <2> QED BY <2>2, <2>5, <1>1, <1>7
<1>10. CASE /\ r2.phase = "loop" /\ k2 = k + 1
            /\ \A m \in 1..4 : m > p => ~Held(s.scenario, k, m)
  <2>0. r2.phase # "done" /\ Index(r2) = 0
    BY <1>10, PhaseIndices
  <2>1. StageIn(r2, x, ss) = At(x, k2, 0)
    BY <2>0, <1>4, <1>6, SteadyStage
  <2>2. Before(x, k, p, x, k2, 0)
    BY <1>6, <1>7, <1>10 DEF Before
  <2>3. \A j \in Nat, l \in RoundIds, m \in 1..4 :
            Before(x, k, p, j, l, m) /\ Before(j, l, m, x, k2, 0) => l = k /\ m > p
    <3> SUFFICES ASSUME NEW j \in Nat, NEW l \in RoundIds, NEW m \in 1..4,
                        Before(x, k, p, j, l, m)
                 PROVE  Before(j, l, m, x, k2, 0) => l = k /\ m > p
      OBVIOUS
    <3>1. l \in Nat /\ m \in Nat /\ m > 0
      BY <1>8
    <3>2. Before(j, l, m, x, k + 1, 0) => l = k /\ m > p
      BY <3>1, <1>6, <1>7, BetweenPlaces
    <3> QED BY <3>2, <1>10
  <2>4. \A j \in Nat, l \in RoundIds, m \in 1..4 :
            Before(x, k, p, j, l, m) /\ Before(j, l, m, x, k2, 0) => ~Held(s.scenario, l, m)
    BY <2>3, <1>10
  <2>5. 0 \in 0..4
    OBVIOUS
  <2>6. Onto(s, At(x, k, p), At(x, k2, 0))
    BY <2>2, <2>4, <2>5, <1>6, <1>7, OntoPlace
  <2> QED BY <2>1, <2>6, <1>1, <1>7
<1>11. CASE /\ r2.phase = "done"
            /\ \A l \in RoundIds, m \in 1..4 :
                   l > k \/ (l = k /\ m > p) => ~Held(s.scenario, l, m)
  <2>1. MaxRounds \in RoundIds /\ 0 \in RoundIds /\ 0 \in 0..4 /\ 4 \in 0..4
    BY <1>6 DEF RoundIds
  <2>2. CASE x + 1 = ss
    <3>1. StageIn(r2, x, ss) = At(ss, 0, 0)
      BY <2>2, <1>6, <1>11, SteadyStage
    <3>2. Before(x, k, p, ss, 0, 0)
      BY <2>2, <1>6 DEF Before
    <3>3. \A j \in Nat, l \in RoundIds, m \in 1..4 :
              Before(x, k, p, j, l, m) /\ Before(j, l, m, ss, 0, 0) => l > k \/ (l = k /\ m > p)
      <4> SUFFICES ASSUME NEW j \in Nat, NEW l \in RoundIds, NEW m \in 1..4,
                          Before(x, k, p, j, l, m)
                   PROVE  Before(j, l, m, ss, 0, 0) => l > k \/ (l = k /\ m > p)
        OBVIOUS
      <4>1. l \in Nat /\ m \in Nat /\ m > 0
        BY <1>8
      <4>2. Before(j, l, m, x + 1, 0, 0) => l > k \/ (l = k /\ m > p)
        BY <4>1, <1>6, <1>7, BetweenPlaces
      <4> QED BY <4>2, <2>2
    <3>4. \A j \in Nat, l \in RoundIds, m \in 1..4 :
              Before(x, k, p, j, l, m) /\ Before(j, l, m, ss, 0, 0) => ~Held(s.scenario, l, m)
      BY <3>3, <1>11
    <3>5. Onto(s, At(x, k, p), At(ss, 0, 0))
      BY <3>2, <3>4, <2>1, <1>1, <1>6, <1>7, OntoPlace
    <3> QED BY <3>1, <3>5, <1>1, <1>7
  <2>3. CASE x + 1 # ss
    <3>1. StageIn(r2, x, ss) = At(x, MaxRounds, 4)
      BY <2>3, <1>6, <1>11, SteadyStage
    <3>2. \A j \in Nat, l \in RoundIds, m \in 1..4 :
              Before(x, k, p, j, l, m) /\ Before(j, l, m, x, MaxRounds, 4)
              => l > k \/ (l = k /\ m > p)
      <4> SUFFICES ASSUME NEW j \in Nat, NEW l \in RoundIds, NEW m \in 1..4,
                          Before(x, k, p, j, l, m), Before(j, l, m, x, MaxRounds, 4)
                   PROVE  l > k \/ (l = k /\ m > p)
        OBVIOUS
      <4>1. l \in Nat /\ m \in Nat /\ m > 0 /\ 4 \in Nat
        BY <1>8
      <4>2. \A q \in Nat, c \in Nat : Before(j, l, m, x, q, c) => l > k \/ (l = k /\ m > p)
        BY <4>1, <1>6, <1>7, BetweenPlaces
      <4> QED BY <4>1, <4>2, <1>6
    <3>3. \A j \in Nat, l \in RoundIds, m \in 1..4 :
              Before(x, k, p, j, l, m) /\ Before(j, l, m, x, MaxRounds, 4)
              => ~Held(s.scenario, l, m)
      BY <3>2, <1>11
    <3>4. Before(x, k, p, x, MaxRounds, 4)
      <4>1. k < MaxRounds \/ (k = MaxRounds /\ p < 4)
        <5>1. CASE k = MaxRounds
          <6>1. ~Draining(r)
            BY <5>1, <1>2, <1>6, RuntimeFacts DEF Steady
          <6>2. p = 0
            BY <6>1, <1>3, <1>6, SteadyStage
          <6> QED BY <6>2, <5>1
        <5> QED BY <5>1, <1>6, <1>7
      <4> QED BY <4>1 DEF Before
    <3>5. Onto(s, At(x, k, p), At(x, MaxRounds, 4))
      BY <3>3, <3>4, <2>1, <1>1, <1>6, <1>7, OntoPlace
    <3> QED BY <3>1, <3>5, <1>1, <1>7
  <2> QED BY <2>2, <2>3
<1> QED BY <1>2, <1>3, <1>4, <1>5, <1>9, <1>10, <1>11 DEF GoesOn

\* Nor does one that starts its next session.
LEMMA NextOnto ==
    ASSUME NEW s, s.sessions \in Nat, NEW x \in 0..(s.sessions - 1),
           NEW y, y = x + 1, y # s.sessions,
           NEW r, Steady(r), r.phase = "done",
           NEW r2, Steady(r2), r2.phase = "loop", Round(r2) = 0
    PROVE  Onto(s, StageIn(r, x, s.sessions), StageIn(r2, y, s.sessions))
<1>1. y = x + 1
  OBVIOUS
<1>2. x \in Nat /\ y \in Nat /\ MaxRounds \in Nat
  BY <1>1, MaxRoundsAssumption DEF MaxRoundsAssumption
<1>3. MaxRounds \in RoundIds /\ 0 \in RoundIds /\ 0 \in 0..4 /\ 4 \in 0..4
  BY <1>2 DEF RoundIds
<1>4. StageIn(r, x, s.sessions) = At(x, MaxRounds, 4)
  <2>1. StageIn(r, x, s.sessions) = IF x + 1 = s.sessions THEN At(s.sessions, 0, 0)
                                    ELSE At(x, MaxRounds, 4)
    BY <1>2, SteadyStage
  <2> QED BY <1>1, <2>1
<1>5. StageIn(r2, y, s.sessions) = At(y, 0, 0)
  <2>1. r2.phase # "done" /\ Index(r2) = 0
    BY PhaseIndices
  <2>2. StageIn(r2, y, s.sessions) = At(y, Round(r2), Index(r2))
    BY <2>1, <1>2, SteadyStage
  <2> QED BY <2>1, <2>2
<1>6. Before(x, MaxRounds, 4, y, 0, 0)
  BY <1>1, <1>2 DEF Before
<1>7. \A l \in RoundIds : l \in Nat /\ l <= MaxRounds
  BY <1>2 DEF RoundIds
<1>8. \A j \in Nat, l \in RoundIds, m \in 1..4 :
          ~(Before(x, MaxRounds, 4, j, l, m) /\ Before(j, l, m, y, 0, 0))
  BY <1>1, <1>2, <1>7 DEF Before
<1>9. Onto(s, At(x, MaxRounds, 4), At(y, 0, 0))
  BY <1>2, <1>3, <1>6, <1>8, OntoPlace
<1> QED BY <1>4, <1>5, <1>9

-----------------------------------------------------------------------------
(* The cluster keeps step.                                                 *)

\* No message was late, no worker has died and no process was killed.
Calm == faults = 0 /\ closed = {} /\ restarted = {}

\* The stage of every process, and what is due that it has heard.
Stages == [n \in Nodes |-> Stage(n)]
Hearing == [n \in Nodes |-> {e \in DueEntries(setup) : Heard(procs[n], e.msg)}]

KeptStep ==
    /\ \A n \in Nodes : Steady(procs[n])
    /\ order \in Seq(FitEntries(setup))
    /\ InStep(HeldStages(setup), DueEntries(setup), Stages, order, pos, Hearing)

\* What the invariants say of one process, and of all.
LEMMA KeptFacts ==
    ASSUME ClusterInv, KeptStep
    PROVE  /\ setup.sessions \in Nat
           /\ Shapes(HeldStages(setup), DueEntries(setup), FitEntries(setup), Stages, order, pos)
           /\ \A n \in Nodes :
                  /\ Steady(procs[n]) /\ procs[n].scenario = setup.scenario
                  /\ procs[n].agents = {n} /\ session[n] \in 0..(setup.sessions - 1)
                  /\ Stage(n) = StageIn(procs[n], session[n], setup.sessions)
                  /\ Stage(n) = Stages[n] /\ Stage(n) \in Nat
<1>1. setup.sessions \in Nat
  BY SetupFacts DEF ClusterInv
<1>2. ASSUME NEW n \in Nodes
      PROVE  /\ Steady(procs[n]) /\ procs[n].scenario = setup.scenario
             /\ procs[n].agents = {n} /\ session[n] \in 0..(setup.sessions - 1)
             /\ Stage(n) = StageIn(procs[n], session[n], setup.sessions)
             /\ Stage(n) = Stages[n] /\ Stage(n) \in Nat
  <2>1. /\ Steady(procs[n]) /\ procs[n].scenario = setup.scenario
        /\ procs[n].agents = {n} /\ session[n] \in 0..(setup.sessions - 1)
    BY DEF ClusterInv, ProcInv, KeptStep
  <2>2. Stage(n) = StageIn(procs[n], session[n], setup.sessions)
    BY DEF Stage, Over, Done, StageIn
  <2>3. session[n] \in Nat
    BY <2>1, <1>1
  <2>4. StageIn(procs[n], session[n], setup.sessions) \in Nat
    BY <2>1, <2>3, <1>1, SteadyStage
  <2>5. Stage(n) = Stages[n]
    BY DEF Stages
  <2> QED BY <2>1, <2>2, <2>4, <2>5
<1>3. Stages \in [Nodes -> Nat]
  <2>1. \A n \in Nodes : Stage(n) \in Nat
    BY <1>2
  <2> QED BY <2>1 DEF Stages
<1>4. Shapes(HeldStages(setup), DueEntries(setup), FitEntries(setup), Stages, order, pos)
  BY <1>1, <1>3, EntryFacts DEF Shapes, ClusterInv, KeptStep
<1> QED BY <1>1, <1>2, <1>4

\* The next message of a process one of whose stage is waiting is of its stage.
LEMMA NextInStep ==
    ASSUME NEW R, NEW D, NEW E, NEW st, NEW o, NEW ps, NEW hd,
           Shapes(R, D, E, st, o, ps), InStep(R, D, st, o, ps, hd),
           NEW n \in Nodes, NEW i \in DOMAIN o, i > ps[n], o[i].stage <= st[n]
    PROVE  o[ps[n] + 1].stage = st[n]
<1> DEFINE nx == ps[n] + 1
<1>1. /\ R \subseteq Nat /\ st \in [Nodes -> Nat] /\ o \in Seq(E) /\ Len(o) \in Nat
      /\ DOMAIN o = 1..Len(o)
      /\ ps \in [Nodes -> 0..Len(o)] /\ ps[n] \in 0..Len(o) /\ st[n] \in Nat
  BY DEF Shapes
<1>2. /\ nx \in DOMAIN o /\ nx <= i /\ nx \in Nat /\ nx > ps[n]
  BY <1>1
<1>3. o[nx].stage <= o[i].stage
  BY <1>2 DEF InStep
<1>4. o[nx].stage >= st[n] /\ o[nx].stage \in Nat /\ o[i].stage \in Nat
  <2>1. ~(nx <= ps[n])
    BY <1>1
  <2>2. o[nx].stage >= st[n]
    BY <1>2, <2>1 DEF InStep
  <2>3. \A j \in DOMAIN o : o[j].stage \in Nat
    BY <1>1 DEF InStep
  <2> QED BY <2>2, <2>3, <1>2
<1> QED BY <1>1, <1>3, <1>4

\* A message of its stage that a process reads keeps step.
LEMMA ReadKept ==
    ASSUME ClusterInv, KeptStep, NEW n \in Nodes, Draining(procs[n]), Awaits(n), setup' = setup,
           order' = order, session' = session,
           procs' = [procs EXCEPT ![n] = Drain(procs[n], order[pos[n] + 1].msg)],
           pos' = [pos EXCEPT ![n] = pos[n] + 1]
    PROVE  KeptStep'
<1> DEFINE R == HeldStages(setup)
           D == DueEntries(setup)
           E == FitEntries(setup)
<1>1. /\ setup.sessions \in Nat /\ Shapes(R, D, E, Stages, order, pos)
      /\ InStep(R, D, Stages, order, pos, Hearing)
      /\ order \in Seq(E) /\ order \in Seq(Stamps)
  BY KeptFacts DEF KeptStep, ClusterInv
<1>2. PICK r : r = procs[n]
  OBVIOUS
<1>3. /\ Steady(r) /\ r.scenario = setup.scenario /\ session[n] \in 0..(setup.sessions - 1)
      /\ Stage(n) = StageIn(r, session[n], setup.sessions) /\ Stages[n] = Stage(n)
      /\ Draining(r)
  BY <1>2, KeptFacts
<1>4. PICK e : e = order[pos[n] + 1]
  OBVIOUS
<1>5. PICK r2 : r2 = Drain(r, e.msg)
  OBVIOUS
<1>6. procs' = [procs EXCEPT ![n] = r2] /\ procs \in [Nodes -> Runtimes]
  BY <1>2, <1>4, <1>5 DEF ClusterInv
<1>7. PICK i \in DOMAIN order : i > pos[n] /\ order[i].stage <= Stages[n]
  <2>1. PICK i \in Unread(n) : order[i].stage <= Stage(n)
    BY DEF Awaits
  <2>2. Len(order) \in Nat /\ DOMAIN order = 1..Len(order) /\ pos[n] \in 0..Len(order)
    BY <1>1 DEF ClusterInv
  <2>3. i \in DOMAIN order /\ i > pos[n]
    BY <2>2 DEF Unread
  <2> QED BY <2>1, <2>3, <1>3
<1>8. PICK hd2 : hd2 = [Hearing EXCEPT ![n] = {d \in D : Heard(r2, d.msg)}]
  OBVIOUS
<1>9. pos[n] + 1 \in DOMAIN order /\ e \in E /\ e \in Stamps /\ e.stage = Stage(n)
  <2>1. Len(order) \in Nat /\ DOMAIN order = 1..Len(order) /\ pos[n] \in 0..Len(order)
    BY <1>1 DEF ClusterInv
  <2>2. pos[n] + 1 \in DOMAIN order
    BY <2>1, <1>7
  <2>3. e \in E /\ e \in Stamps
    BY <2>2, <1>1, <1>4
  <2>4. order[pos[n] + 1].stage = Stages[n]
    <3> HIDE DEF R, D, E
    <3> QED BY <1>1, <1>7, NextInStep
  <2> QED BY <2>2, <2>3, <2>4, <1>3, <1>4
<1>10. /\ e.msg \in Fit(setup.scenario, Round(r), Index(r)) /\ e.msg \in Messages
       /\ Held(setup.scenario, Round(r), Index(r))
       /\ e \in D => e.msg \in Due(setup.scenario, Round(r), Index(r))
  <2>1. e.stage \in R
    BY <1>1, <1>9, EntryFacts
  <2>2. e.msg \in Messages
    BY <1>9 DEF Stamps
  <2> QED BY <2>1, <2>2, <1>1, <1>3, <1>9, SteadyHeld
<1>11. TakesIn(r, e.msg, r2)
  BY <1>3, <1>5, <1>10, SteadyDrain
<1>12. /\ Steady(r2) /\ r2.phase = r.phase /\ Round(r2) = Round(r)
       /\ \A m : m.origin \in Nodes /\ Heard(r, m) => Heard(r2, m)
       /\ e \in D => Heard(r2, e.msg)
  BY <1>3, <1>10, <1>11 DEF TakesIn
<1>13. DOMAIN Hearing = Nodes /\ \A k \in Nodes : Hearing[k] = {d \in D : Heard(procs[k], d.msg)}
  BY DEF Hearing
<1>14. \A d \in D : d.msg.origin \in Nodes
  BY <1>1, EntryFacts
<1>15. /\ hd2[n] = {d \in D : Heard(r2, d.msg)}
       /\ \A k \in Nodes : k # n => hd2[k] = Hearing[k]
  BY <1>8, <1>13
<1>16. (\A k \in Nodes : Hearing[k] \subseteq hd2[k]) /\ (e \in D => e \in hd2[n])
  <2>1. Hearing[n] \subseteq hd2[n]
    BY <1>2, <1>12, <1>13, <1>14, <1>15
  <2> QED BY <2>1, <1>12, <1>15
<1>17. InStep(R, D, Stages, order, [pos EXCEPT ![n] = pos[n] + 1], hd2)
  <2> HIDE DEF R, D, E
  <2> QED BY <1>1, <1>4, <1>7, <1>16, ReadInStep
<1>18. procs'[n] = r2 /\ \A k \in Nodes : k # n => procs'[k] = procs[k]
  BY <1>6
<1>19. Hearing' = hd2
  <2>1. Hearing' = [k \in Nodes |-> {d \in D : Heard(procs'[k], d.msg)}]
    BY DEF Hearing
  <2>2. DOMAIN hd2 = Nodes /\ hd2 = [k \in Nodes |-> hd2[k]]
    BY <1>8, <1>13
  <2>3. \A k \in Nodes : hd2[k] = {d \in D : Heard(procs'[k], d.msg)}
    BY <1>13, <1>15, <1>18
  <2> HIDE DEF D
  <2> QED BY <2>1, <2>2, <2>3
<1>20. Stages' = Stages
  <2>1. \A k \in Nodes : Stage(k)' = StageIn(procs'[k], session[k], setup.sessions)
    BY DEF Stage, Over, Done, StageIn
  <2>2. \A k \in Nodes : Stage(k) = StageIn(procs[k], session[k], setup.sessions)
    BY KeptFacts
  <2>3. StageIn(r2, session[n], setup.sessions) = StageIn(r, session[n], setup.sessions)
    <3>1. Stopped(r2) <=> Stopped(r)
      BY <1>12 DEF Stopped
    <3> QED BY <3>1, <1>12 DEF StageIn, StageOf, Round
  <2>4. \A k \in Nodes : Stage(k)' = Stage(k)
    BY <2>1, <2>2, <2>3, <1>2, <1>18
  <2> QED BY <2>4 DEF Stages
<1>21. \A k \in Nodes : Steady(procs[k])'
  BY <1>12, <1>18 DEF KeptStep
<1> QED BY <1>1, <1>17, <1>19, <1>20, <1>21 DEF KeptStep

\* Process n goes on to runtime r2 in session x2 and sends out, from a stage
\* that nobody is behind and of which nothing is unread, if it is held.
Moves(n, r2, x2, out) ==
    /\ setup' = setup /\ pos' = pos
    /\ procs' = [procs EXCEPT ![n] = r2] /\ session' = [session EXCEPT ![n] = x2]
    /\ order' = order \o [i \in DOMAIN out |-> Entry(StageOf(r2, x2), out[i])]
    /\ out \in Seq(Messages) /\ x2 \in 0..(setup.sessions - 1)
    /\ Steady(r2) /\ r2.scenario = setup.scenario /\ Emits(n, r2, out)
    /\ Onto(setup, Stage(n), StageIn(r2, x2, setup.sessions))
    /\ Stage(n) \in HeldStages(setup) => ~Awaits(n) /\ \A k \in Nodes : Stage(k) >= Stage(n)

\* What it sends is of its new stage and fits, and holds what is due of it.
SentIn(s, n, t, more) ==
    /\ more \in Seq(FitEntries(s))
    /\ \A i \in DOMAIN more : more[i].stage = t /\ more[i].msg.origin = n
    /\ \A e \in DueEntries(s) : e.stage = t /\ e.msg.origin = n =>
           \E i \in DOMAIN more : more[i] = e

\* What a process that keeps step sends is of its new stage and fits, and holds
\* what is due of it.
LEMMA SendsInStage ==
    ASSUME NEW s, s.sessions \in Nat, NEW n, NEW r2, NEW x2 \in 0..(s.sessions - 1), NEW out,
           out \in Seq(Messages), Steady(r2), r2.scenario = s.scenario, Emits(n, r2, out),
           NEW t, t = StageIn(r2, x2, s.sessions),
           NEW more, more = [i \in DOMAIN out |-> Entry(StageOf(r2, x2), out[i])]
    PROVE  SentIn(s, n, t, more)
<1> DEFINE sc == r2.scenario
           k  == Round(r2)
           p  == Index(r2)
<1>1. /\ t \in HeldStages(s) => Draining(r2)
      /\ Draining(r2) =>
             /\ t = StageOf(r2, x2)
             /\ t \in HeldStages(s) <=> Held(sc, k, p)
             /\ \A e \in DueEntries(s) : e.stage = t => e.msg \in Due(sc, k, p)
             /\ Held(sc, k, p) => \A msg \in Fit(sc, k, p) : Entry(t, msg) \in FitEntries(s)
  <2> DEFINE t2 == StageIn(r2, x2, s.sessions)
  <2>1. /\ t2 \in HeldStages(s) => Draining(r2)
        /\ Draining(r2) =>
               /\ t2 = StageOf(r2, x2)
               /\ t2 \in HeldStages(s) <=> Held(s.scenario, k, p)
               /\ \A e \in DueEntries(s) : e.stage = t2 => e.msg \in Due(s.scenario, k, p)
               /\ Held(s.scenario, k, p) =>
                      \A msg \in Fit(s.scenario, k, p) : Entry(t2, msg) \in FitEntries(s)
    BY SteadyHeld
  <2>2. t2 = t /\ s.scenario = sc
    OBVIOUS
  <2> HIDE DEF t2, sc, k, p
  <2> QED BY <2>1, <2>2
<1>2. /\ \A i \in DOMAIN out : Draining(r2) /\ Held(sc, k, p) /\ out[i].origin = n
                               /\ out[i] \in Fit(sc, k, p)
      /\ Draining(r2) /\ Held(sc, k, p) =>
             \A msg \in Due(sc, k, p) : msg.origin = n => \E i \in DOMAIN out : out[i] = msg
  BY DEF Emits
<1> HIDE DEF sc, k, p
<1>3. ASSUME NEW i \in DOMAIN out
      PROVE  more[i] = Entry(t, out[i]) /\ more[i] \in FitEntries(s)
  BY <1>1, <1>2
<1>4. more \in Seq(FitEntries(s))
  <2>1. PICK l \in Nat : DOMAIN out = 1..l
    OBVIOUS
  <2>2. more \in [1..l -> FitEntries(s)]
    BY <2>1, <1>3
  <2> QED BY <2>2
<1>5. DOMAIN more = DOMAIN out
  OBVIOUS
<1>6. \A i \in DOMAIN more : more[i].stage = t /\ more[i].msg.origin = n
  BY <1>2, <1>3, <1>5 DEF Entry
<1>7. ASSUME NEW e \in DueEntries(s), e.stage = t, e.msg.origin = n
      PROVE  \E i \in DOMAIN more : more[i] = e
  <2>1. t \in HeldStages(s)
    BY <1>7, EntryFacts
  <2>2. e = Entry(t, e.msg)
    BY <1>7 DEF DueEntries, Entry
  <2>3. \E i \in DOMAIN out : out[i] = e.msg
    BY <2>1, <1>1, <1>2, <1>7
  <2> QED BY <2>2, <2>3, <1>3, <1>5
<1> QED BY <1>4, <1>6, <1>7 DEF SentIn

\* Such a move keeps the cluster in step.
LEMMA MoveKept ==
    ASSUME ClusterInv, KeptStep, NEW n \in Nodes, NEW r2, NEW x2, NEW out, Moves(n, r2, x2, out)
    PROVE  KeptStep'
<1> DEFINE R == HeldStages(setup)
           D == DueEntries(setup)
           E == FitEntries(setup)
<1>1. /\ setup.sessions \in Nat /\ Shapes(R, D, E, Stages, order, pos)
      /\ InStep(R, D, Stages, order, pos, Hearing)
      /\ order \in Seq(E) /\ \A k \in Nodes : Stages[k] = Stage(k)
      /\ procs \in [Nodes -> Runtimes] /\ session \in [Nodes -> 0..(setup.sessions - 1)]
  BY KeptFacts DEF KeptStep, ClusterInv
<1>2. PICK t : t = StageIn(r2, x2, setup.sessions)
  OBVIOUS
<1>3. t \in Nat /\ Stages[n] < t /\ \A d \in R : ~(Stages[n] < d /\ d < t)
  BY <1>1, <1>2 DEF Moves, Onto
<1>4. PICK more : more = [i \in DOMAIN out |-> Entry(StageOf(r2, x2), out[i])]
  OBVIOUS
<1>5. order' = order \o more
  BY <1>4 DEF Moves
<1>6. /\ more \in Seq(E)
      /\ \A i \in DOMAIN more : more[i].stage = t /\ more[i].msg.origin = n
      /\ \A e \in D : e.stage = t /\ e.msg.origin = n => \E i \in DOMAIN more : more[i] = e
  <2>1. /\ out \in Seq(Messages) /\ x2 \in 0..(setup.sessions - 1)
        /\ Steady(r2) /\ r2.scenario = setup.scenario /\ Emits(n, r2, out)
    BY DEF Moves
  <2>2. SentIn(setup, n, t, more)
    <3> HIDE DEF R, D, E
    <3>1. setup.sessions \in Nat
      BY <1>1
    <3> QED BY <2>1, <3>1, <1>2, <1>4, SendsInStage
  <2> QED BY <2>2 DEF SentIn
<1>7. Stages[n] \in R => /\ \A k \in Nodes : Stages[k] >= Stages[n]
                         /\ ~\E i \in DOMAIN order : i > pos[n] /\ order[i].stage <= Stages[n]
  <2>1. ASSUME Stage(n) \in R, NEW i \in DOMAIN order, i > pos[n], order[i].stage <= Stage(n)
        PROVE  FALSE
    <3>1. Len(order) \in Nat /\ DOMAIN order = 1..Len(order) /\ pos[n] \in 0..Len(order)
      BY <1>1 DEF Shapes
    <3>2. i \in Unread(n)
      BY <2>1, <3>1 DEF Unread
    <3> QED BY <2>1, <3>2 DEF Moves, Awaits
  <2> QED BY <2>1, <1>1 DEF Moves
<1>8. PICK hd2 : hd2 = [k \in Nodes |-> {d \in D : Heard(procs'[k], d.msg)}]
  OBVIOUS
<1>9. procs' = [procs EXCEPT ![n] = r2] /\ session' = [session EXCEPT ![n] = x2]
      /\ setup' = setup /\ pos' = pos
  BY DEF Moves
<1>10. Hearing' = hd2 /\ \A k \in Nodes : k # n => hd2[k] = Hearing[k]
  <2>1. Hearing' = hd2
    BY <1>8, <1>9 DEF Hearing
  <2>2. \A k \in Nodes : k # n => procs'[k] = procs[k]
    BY <1>9, <1>1
  <2>3. \A k \in Nodes : /\ hd2[k] = {d \in D : Heard(procs'[k], d.msg)}
                         /\ Hearing[k] = {d \in D : Heard(procs[k], d.msg)}
    BY <1>8 DEF Hearing
  <2> HIDE DEF D
  <2> QED BY <2>1, <2>2, <2>3
<1>11. /\ InStep(R, D, [Stages EXCEPT ![n] = t], order \o more, pos, hd2)
       /\ order \o more \in Seq(E)
  <2>1. \A k \in Nodes : k # n => hd2[k] = Hearing[k]
    BY <1>10
  <2>2. Shapes(R, D, E, Stages, order, pos) /\ InStep(R, D, Stages, order, pos, Hearing)
    BY <1>1
  <2>3. t \in Nat /\ Stages[n] < t
    BY <1>3
  <2>4. \A d \in R : ~(Stages[n] < d /\ d < t)
    BY <1>3
  <2>5. more \in Seq(E)
    BY <1>6
  <2>6. \A i \in DOMAIN more : more[i].stage = t /\ more[i].msg.origin = n
    BY <1>6
  <2>7. \A e \in D : e.stage = t /\ e.msg.origin = n => \E i \in DOMAIN more : more[i] = e
    BY <1>6
  <2> HIDE DEF R, D, E
  <2>8. /\ InStep(R, D, [Stages EXCEPT ![n] = t], order \o more, pos, hd2)
        /\ order \o more \in Seq(E) /\ pos \in [Nodes -> 0..Len(order \o more)]
    <3>1. Advances(R, D, Stages, order, pos, n, t, more)
      BY <2>3, <2>4, <2>6, <2>7, <1>7 DEF Advances
    <3> QED BY <2>1, <2>2, <2>3, <2>5, <3>1, AdvanceInStep
  <2> QED BY <2>8
<1>12. Stages' = [Stages EXCEPT ![n] = t]
  <2>1. \A k \in Nodes : Stage(k)' = StageIn(procs'[k], session'[k], setup.sessions)
    BY <1>9 DEF Stage, Over, Done, StageIn
  <2>2. \A k \in Nodes : Stage(k) = StageIn(procs[k], session[k], setup.sessions)
    BY KeptFacts
  <2>3. procs'[n] = r2 /\ session'[n] = x2
        /\ \A k \in Nodes : k # n => procs'[k] = procs[k] /\ session'[k] = session[k]
    BY <1>9, <1>1
  <2>4. Stage(n)' = t /\ \A k \in Nodes : k # n => Stage(k)' = Stage(k)
    BY <2>1, <2>2, <2>3, <1>2
  <2>5. Stages' = [k \in Nodes |-> Stage(k)'] /\ Stages = [k \in Nodes |-> Stage(k)]
    BY DEF Stages
  <2>6. [Stages EXCEPT ![n] = t] = [k \in Nodes |-> IF k = n THEN t ELSE Stages[k]]
    BY <2>5
  <2>7. \A k \in Nodes : Stage(k)' = IF k = n THEN t ELSE Stages[k]
    BY <2>4, <1>1
  <2> QED BY <2>5, <2>6, <2>7
<1>13. \A k \in Nodes : Steady(procs[k])'
  <2>1. Steady(r2) /\ \A k \in Nodes : Steady(procs[k])
    BY DEF Moves, KeptStep
  <2>2. procs'[n] = r2 /\ \A k \in Nodes : k # n => procs'[k] = procs[k]
    BY <1>9, <1>1
  <2> QED BY <2>1, <2>2
<1> QED BY <1>5, <1>9, <1>10, <1>11, <1>12, <1>13 DEF KeptStep

\* A process in a held stage is in a drain loop.
LEMMA HeldIsDraining ==
    ASSUME ClusterInv, KeptStep, NEW n \in Nodes, Stage(n) \in HeldStages(setup)
    PROVE  Draining(procs[n])
<1>1. /\ Steady(procs[n]) /\ procs[n].scenario = setup.scenario /\ setup.sessions \in Nat
      /\ session[n] \in 0..(setup.sessions - 1)
      /\ Stage(n) = StageIn(procs[n], session[n], setup.sessions)
  BY KeptFacts
<1>2. StageIn(procs[n], session[n], setup.sessions) \in HeldStages(setup) => Draining(procs[n])
  BY <1>1, SteadyHeld
<1> QED BY <1>1, <1>2

\* A step of the run itself, which stays in its session.
LEMMA RunStepKept ==
    ASSUME ClusterInv, KeptStep, NEW n \in Nodes, NEW step, KeepsStep(n, procs[n], step),
           procs[n].phase # "done", step.out \in Seq(Messages),
           setup' = setup, pos' = pos, session' = session,
           procs' = [procs EXCEPT ![n] = step.rt],
           order' = order \o Stamped(n, step.rt, step.out),
           Stage(n) \in HeldStages(setup) => ~Awaits(n) /\ \A k \in Nodes : Stage(k) >= Stage(n)
    PROVE  KeptStep'
<1>1. /\ Steady(procs[n]) /\ procs[n].scenario = setup.scenario /\ setup.sessions \in Nat
      /\ session[n] \in 0..(setup.sessions - 1)
      /\ Stage(n) = StageIn(procs[n], session[n], setup.sessions)
      /\ session \in [Nodes -> 0..(setup.sessions - 1)]
  BY KeptFacts DEF ClusterInv
<1>2. /\ Steady(step.rt) /\ step.rt.scenario = setup.scenario
      /\ Emits(n, step.rt, step.out) /\ GoesOn(procs[n], step.rt)
  BY <1>1 DEF KeepsStep, Keeps
<1>3. Onto(setup, StageIn(procs[n], session[n], setup.sessions),
                  StageIn(step.rt, session[n], setup.sessions))
  BY <1>1, <1>2, GoesOnto
<1>4. session' = [session EXCEPT ![n] = session[n]]
  BY <1>1
<1>5. order' = order \o [i \in DOMAIN step.out |->
                            Entry(StageOf(step.rt, session[n]), step.out[i])]
  BY DEF Stamped, Entry
<1>6. Moves(n, step.rt, session[n], step.out)
  BY <1>1, <1>2, <1>3, <1>4, <1>5 DEF Moves
<1> QED BY <1>6, MoveKept

\* Where everything of its stage has been read and nobody is behind, a process
\* has heard everything that is due.
LEMMA TimelyHears ==
    ASSUME ClusterInv, KeptStep, NEW n \in Nodes, Draining(procs[n]), TimelyEnd(n),
           restarted = {}
    PROVE  AllHeard(procs[n])
<1>1. PICK r : r = procs[n]
  OBVIOUS
<1>2. PICK t : t = Stage(n)
  OBVIOUS
<1>3. /\ Steady(r) /\ r.scenario = setup.scenario /\ setup.sessions \in Nat
      /\ session[n] \in 0..(setup.sessions - 1) /\ Draining(r)
      /\ t = StageIn(r, session[n], setup.sessions)
      /\ Stages[n] = t /\ t \in Nat /\ \A k \in Nodes : Stages[k] = Stage(k) /\ Stage(k) \in Nat
      /\ Shapes(HeldStages(setup), DueEntries(setup), FitEntries(setup), Stages, order, pos)
      /\ InStep(HeldStages(setup), DueEntries(setup), Stages, order, pos, Hearing)
  BY <1>1, <1>2, KeptFacts DEF KeptStep
<1>4. SUFFICES ASSUME Held(r.scenario, Round(r), Index(r)),
                      NEW msg \in Due(r.scenario, Round(r), Index(r))
               PROVE  Heard(r, msg)
  BY <1>1 DEF AllHeard
<1>5. Entry(t, msg) \in DueEntries(setup)
  <2>1. \A m \in Due(setup.scenario, Round(r), Index(r)) :
            Entry(StageIn(r, session[n], setup.sessions), m) \in DueEntries(setup)
    BY <1>3, <1>4, SteadyHeld
  <2> QED BY <2>1, <1>3, <1>4
<1>6. PICK e \in DueEntries(setup) : e.stage = t /\ e.msg = msg
  BY <1>5 DEF Entry
<1>7. e.msg.origin \in Nodes
  BY <1>3, <1>6, EntryFacts
<1>8. \/ e \in Hearing[n] \/ Stages[e.msg.origin] < Stages[n]
      \/ \E i \in DOMAIN order : i > pos[n] /\ order[i] = e
  BY <1>3, <1>6 DEF InStep
<1>9. ~(Stages[e.msg.origin] < Stages[n])
  BY <1>2, <1>3, <1>7 DEF TimelyEnd
<1>10. ASSUME NEW i \in DOMAIN order, i > pos[n], order[i] = e PROVE FALSE
  <2>1. Len(order) \in Nat /\ DOMAIN order = 1..Len(order) /\ pos[n] \in 0..Len(order)
    BY <1>3 DEF Shapes
  <2>2. i \in Unread(n) /\ order[i].stage <= Stage(n)
    BY <1>2, <1>3, <1>6, <1>10, <2>1 DEF Unread
  <2> QED BY <2>2 DEF TimelyEnd, Awaits
<1>11. e \in Hearing[n]
  BY <1>8, <1>9, <1>10
<1>12. Heard(r, e.msg)
  BY <1>1, <1>11 DEF Hearing
<1> QED BY <1>6, <1>12

\* A process that starts its next session keeps step.
LEMMA NextSessionKept ==
    ASSUME ClusterInv, KeptStep, NEW n \in Nodes, NextSession(n)
    PROVE  KeptStep'
<1>1. /\ Steady(procs[n]) /\ setup.sessions \in Nat
      /\ session[n] \in 0..(setup.sessions - 1)
      /\ Stage(n) = StageIn(procs[n], session[n], setup.sessions)
      /\ order \in Seq(Stamps) /\ setup.scenario \in SUBSET ScenarioEvents
  BY KeptFacts, SetupFacts DEF ClusterInv
<1>2. PICK y : y = session[n] + 1
  OBVIOUS
<1>3. PICK r2 : r2 = new_runtime({n}, setup.scenario)
  OBVIOUS
<1>4. /\ procs[n].phase = "done" /\ y < setup.sessions /\ setup' = setup /\ pos' = pos
      /\ order' = order /\ procs' = [procs EXCEPT ![n] = r2]
      /\ session' = [session EXCEPT ![n] = y]
  BY <1>2, <1>3 DEF NextSession, Done
<1>5. y \in 0..(setup.sessions - 1) /\ y # setup.sessions
  BY <1>1, <1>2, <1>4
<1>6. Steady(r2) /\ r2.phase = "loop" /\ Round(r2) = 0 /\ r2.scenario = setup.scenario
  <2>1. Steady(r2) /\ r2.phase = "loop" /\ Round(r2) = 0
    BY <1>1, <1>3, NewIsSteady
  <2> QED BY <2>1, <1>3 DEF new_runtime
<1>7. Onto(setup, Stage(n), StageIn(r2, y, setup.sessions))
  BY <1>1, <1>2, <1>4, <1>5, <1>6, NextOnto
<1>8. PICK out : out = <<>>
  OBVIOUS
<1>9. out \in Seq(Messages) /\ Emits(n, r2, out)
  BY <1>6, <1>8 DEF Emits, Draining
<1>10. order' = order \o [i \in DOMAIN out |-> Entry(StageOf(r2, y), out[i])]
  <2>1. [i \in DOMAIN out |-> Entry(StageOf(r2, y), out[i])] = <<>>
    BY <1>8
  <2> QED BY <2>1, <1>1, <1>4, ConcatEmptySeq
<1>11. Stage(n) \notin HeldStages(setup)
  BY <1>4, HeldIsDraining DEF Draining
<1>12. Moves(n, r2, y, out)
  BY <1>4, <1>5, <1>6, <1>7, <1>9, <1>10, <1>11 DEF Moves
<1> QED BY <1>12, MoveKept

\* No process that is not killed becomes so by a step of its own.
Unkilled == \A n \in Nodes : procs[n].phase # "killed"
NoneKilled == restarted = {} => Unkilled

\* A cluster that is calm was calm before.
LEMMA CalmBefore ==
    ASSUME ClusterInv, NoneKilled, [Next]_vars, Calm' PROVE Calm
<1>1. faults \in Nat /\ faults' = 0 /\ closed' = {} /\ restarted' = {}
  BY SetupFacts DEF ClusterInv, Calm
<1>2. ASSUME NEW inStep, Charge(inStep) PROVE faults = 0
  BY <1>1, <1>2 DEF Charge
<1>3. ASSUME NEW n, NEW step, Broadcasting(n, step) PROVE closed = {}
  BY <1>1, <1>3 DEF Broadcasting, Ordered, LostInWorker, WorkerDies, OnClosed, workers
<1>4. ASSUME NEW n \in Nodes, BeginRound(n) PROVE Calm
  BY <1>1, <1>3, <1>4 DEF BeginRound, life, Calm
<1>5. ASSUME NEW n \in Nodes, Receive(n) PROVE Calm
  BY <1>1, <1>2, <1>5 DEF Receive, workers, life, Calm
<1>6. ASSUME NEW n \in Nodes, PhaseEnds(n) PROVE Calm
  BY <1>1, <1>2, <1>3, <1>6 DEF PhaseEnds, life, Calm
<1>7. ASSUME NEW n \in Nodes, RunEnds(n) \/ NextSession(n) PROVE Calm
  BY <1>1, <1>7 DEF RunEnds, NextSession, workers, life, Calm
<1>8. ASSUME NEW n \in Nodes, WorkerExits(n) \/ Killed(n) PROVE FALSE
  BY <1>1, <1>8 DEF WorkerExits, WorkerDies, Killed
<1>9. ASSUME NEW n \in Nodes, Rejoin(n) PROVE FALSE
  BY <1>1, <1>9 DEF Rejoin, NoneKilled, Unkilled
<1>10. CASE UNCHANGED vars
  BY <1>1, <1>10 DEF vars, workers, Calm
<1> QED BY <1>4, <1>5, <1>6, <1>7, <1>8, <1>9, <1>10 DEF Next, Step, Terminated

\* A message is broadcast where no worker has died: it is ordered.
LEMMA CalmBroadcast ==
    ASSUME Calm, Calm', NEW n, NEW step, Broadcasting(n, step)
    PROVE  /\ procs' = [procs EXCEPT ![n] = step.rt]
           /\ order' = order \o Stamped(n, step.rt, step.out)
  BY DEF Calm, Broadcasting, Ordered, LostInWorker, WorkerDies, OnClosed

\* Where it is calm before and after, a step keeps step.
LEMMA CalmStepKept ==
    ASSUME ClusterInv, NoneKilled, KeptStep, Calm, Calm', [Next]_vars PROVE KeptStep'
<1>0. /\ faults = 0 /\ faults' = 0 /\ closed = {} /\ closed' = {}
      /\ restarted = {} /\ restarted' = {}
      /\ procs \in [Nodes -> Runtimes] /\ order \in Seq(Stamps)
      /\ \A n \in Nodes : RtInv(procs[n]) /\ procs[n].phase # "killed"
  BY DEF Calm, NoneKilled, Unkilled, ClusterInv, ProcInv
<1>1. ASSUME NEW n \in Nodes, BeginRound(n) PROVE KeptStep'
  <2>1. PICK step : step = broadcast_commitments(procs[n])
    OBVIOUS
  <2>2. /\ procs[n].phase = "loop" /\ ~LoopExhausted(procs[n])
        /\ Broadcasting(n, step) /\ UNCHANGED <<setup, session, pos>>
    BY <1>1, <2>1 DEF BeginRound, life
  <2>3. KeepsStep(n, procs[n], step) /\ step.out \in Seq(Messages)
    <3>1. Steady(procs[n]) /\ procs[n].agents = {n} /\ RtInv(procs[n])
      BY <1>0, KeptFacts
    <3>2. KeepsStep(n, procs[n], broadcast_commitments(procs[n]))
      BY <2>2, <3>1, SteadyBegin
    <3>3. Sound(procs[n], broadcast_commitments(procs[n]))
      BY <2>2, <3>1, BroadcastCommitmentsSound
    <3> QED BY <2>1, <3>2, <3>3 DEF Sound
  <2>4. Stage(n) \notin HeldStages(setup)
    BY <2>2, HeldIsDraining DEF Draining
  <2>5. /\ procs' = [procs EXCEPT ![n] = step.rt]
        /\ order' = order \o Stamped(n, step.rt, step.out)
    BY <2>2, CalmBroadcast
  <2> QED BY <2>2, <2>3, <2>4, <2>5, RunStepKept
<1>2. ASSUME NEW n \in Nodes, Receive(n) PROVE KeptStep'
  <2>1. /\ Draining(procs[n]) /\ Charge(n \in restarted \cup closed \/ Awaits(n))
        /\ procs' = [procs EXCEPT ![n] = Drain(procs[n], order[pos[n] + 1].msg)]
        /\ pos' = [pos EXCEPT ![n] = pos[n] + 1]
        /\ UNCHANGED <<order, setup, session>>
    BY <1>0, <1>2 DEF Receive, life, ClusterInv
  <2>2. Awaits(n)
    BY <1>0, <2>1 DEF Charge
  <2> QED BY <2>1, <2>2, ReadKept
<1>3. ASSUME NEW n \in Nodes, PhaseEnds(n) PROVE KeptStep'
  <2>1. PICK step : step = EndPhase(procs[n])
    OBVIOUS
  <2>2. /\ Draining(procs[n]) /\ Charge(n \in closed \/ TimelyEnd(n))
        /\ Broadcasting(n, step) /\ UNCHANGED <<setup, session, pos>>
    BY <1>3, <2>1 DEF PhaseEnds, life
  <2>3. TimelyEnd(n)
    BY <1>0, <2>2 DEF Charge
  <2>4. KeepsStep(n, procs[n], step) /\ step.out \in Seq(Messages)
    <3>1. Steady(procs[n]) /\ procs[n].agents = {n} /\ RtInv(procs[n])
      BY <1>0, KeptFacts
    <3>2. AllHeard(procs[n])
      BY <1>0, <2>2, <2>3, TimelyHears
    <3>3. KeepsStep(n, procs[n], EndPhase(procs[n]))
      BY <2>2, <3>1, <3>2, SteadyEnd
    <3>4. Sound(procs[n], EndPhase(procs[n]))
      BY <2>2, <3>1, EndPhaseSound
    <3> QED BY <2>1, <3>3, <3>4 DEF Sound
  <2>5. ~Awaits(n) /\ \A k \in Nodes : Stage(k) >= Stage(n)
    BY <1>0, <2>3 DEF TimelyEnd
  <2>6. /\ procs' = [procs EXCEPT ![n] = step.rt]
        /\ order' = order \o Stamped(n, step.rt, step.out)
    BY <2>2, CalmBroadcast
  <2>7. procs[n].phase # "done"
    BY <2>2 DEF Draining
  <2> QED BY <2>2, <2>4, <2>5, <2>6, <2>7, RunStepKept
<1>4. ASSUME NEW n \in Nodes, RunEnds(n) PROVE KeptStep'
  <2>1. PICK step : step = [rt |-> end_run(procs[n]), out |-> <<>>]
    OBVIOUS
  <2>2. /\ LoopExhausted(procs[n]) /\ procs' = [procs EXCEPT ![n] = end_run(procs[n])]
        /\ UNCHANGED <<setup, session, order, pos>>
    BY <1>0, <1>4 DEF RunEnds, life
  <2>3. KeepsStep(n, procs[n], step)
    <3>1. KeepsStep(n, procs[n], [rt |-> end_run(procs[n]), out |-> <<>>])
      BY <2>2, KeptFacts, SteadyEndRun
    <3> QED BY <2>1, <3>1
  <2>4. step.rt = end_run(procs[n]) /\ step.out = <<>>
    BY <2>1
  <2>5. order' = order \o Stamped(n, step.rt, step.out)
    <3>1. Stamped(n, step.rt, step.out) = <<>>
      BY <2>4 DEF Stamped
    <3> QED BY <1>0, <2>2, <3>1, ConcatEmptySeq
  <2>6. procs[n].phase = "loop"
    BY <2>2 DEF LoopExhausted
  <2>7. Stage(n) \notin HeldStages(setup)
    BY <2>6, HeldIsDraining DEF Draining
  <2>8. procs' = [procs EXCEPT ![n] = step.rt] /\ step.out \in Seq(Messages)
    BY <2>2, <2>4
  <2> QED BY <2>2, <2>3, <2>5, <2>6, <2>7, <2>8, RunStepKept
<1>5. ASSUME NEW n \in Nodes, NextSession(n) PROVE KeptStep'
  BY <1>5, NextSessionKept
<1>6. ASSUME NEW n \in Nodes, WorkerExits(n) \/ Killed(n) \/ Rejoin(n) PROVE FALSE
  BY <1>0, <1>6 DEF WorkerExits, WorkerDies, Killed, Rejoin
<1>7. CASE UNCHANGED vars
  <2>1. UNCHANGED <<setup, procs, order, pos, session>>
    BY <1>7 DEF vars
  <2>2. Stages' = Stages
    BY <2>1 DEF Stages, Stage, Over, Done
  <2>3. Hearing' = Hearing
    BY <2>1 DEF Hearing
  <2> QED BY <2>1, <2>2, <2>3 DEF KeptStep
<1> QED BY <1>1, <1>2, <1>3, <1>4, <1>5, <1>6, <1>7 DEF Next, Step, Terminated

\* A process that broadcasts is not killed by it.
LEMMA BroadcastingKillsNone ==
    ASSUME ClusterInv, NEW n \in Nodes, NEW step, Broadcasting(n, step),
           step.rt.phase # "killed", \A k \in Nodes : procs[k].phase # "killed"
    PROVE  \A k \in Nodes : procs'[k].phase # "killed"
<1>1. procs \in [Nodes -> Runtimes] /\ procs[n] \in Runtimes
  BY DEF ClusterInv
<1>2. PICK r2 : r2 = [procs[n] EXCEPT !.phase = "failed"]
  OBVIOUS
<1>3. r2.phase = "failed"
  BY <1>1, <1>2 DEF Runtimes
<1>4. procs' = [procs EXCEPT ![n] = step.rt] \/ procs' = [procs EXCEPT ![n] = r2]
  BY <1>2 DEF Broadcasting, Ordered, LostInWorker, WorkerDies, OnClosed, workers
<1> QED BY <1>1, <1>3, <1>4

\* So no process is killed as long as none has been.
LEMMA StepNoneKilled == ClusterInv /\ NoneKilled /\ [Next]_vars => NoneKilled'
<1> SUFFICES ASSUME ClusterInv, NoneKilled, [Next]_vars, restarted' = {}
             PROVE  Unkilled'
  BY DEF NoneKilled
<1>0. restarted = {} => Unkilled
  BY DEF NoneKilled
<1>00. /\ procs \in [Nodes -> Runtimes] /\ order \in Seq(Stamps)
       /\ pos \in [Nodes -> 0..Len(order)] /\ \A n \in Nodes : RtInv(procs[n])
  BY DEF ClusterInv, ProcInv
<1>1. ASSUME NEW n \in Nodes, BeginRound(n) PROVE Unkilled'
  <2>1. Onward(procs[n], broadcast_commitments(procs[n]).rt)
    BY <1>00, <1>1, BeginRoundRegular DEF BeginRound, Regular
  <2>2. Broadcasting(n, broadcast_commitments(procs[n])) /\ Unkilled
    BY <1>0, <1>1 DEF BeginRound, life
  <2> QED BY <2>1, <2>2, BroadcastingKillsNone DEF Onward, Unkilled
<1>2. ASSUME NEW n \in Nodes, Receive(n) PROVE Unkilled'
  <2>1. /\ Draining(procs[n]) /\ Unread(n) # {} /\ Unkilled
        /\ procs' = [procs EXCEPT ![n] = Drain(procs[n], order[pos[n] + 1].msg)]
    BY <1>0, <1>00, <1>2 DEF Receive, Readable, life
  <2>2. order[pos[n] + 1].msg \in Messages
    <3>1. pos[n] + 1 \in 1..Len(order)
      BY <1>00, <2>1 DEF Unread
    <3>2. order[pos[n] + 1] \in Stamps
      BY <1>00, <3>1
    <3> QED BY <3>2 DEF Stamps
  <2>3. Drain(procs[n], order[pos[n] + 1].msg).phase = procs[n].phase
    BY <1>00, <2>1, <2>2, DrainKeeps
  <2> QED BY <1>00, <2>1, <2>3 DEF Unkilled
<1>3. ASSUME NEW n \in Nodes, PhaseEnds(n) PROVE Unkilled'
  <2>1. Onward(procs[n], EndPhase(procs[n]).rt)
    BY <1>00, <1>3, EndPhaseRegular DEF PhaseEnds, Regular
  <2>2. Broadcasting(n, EndPhase(procs[n])) /\ Unkilled
    BY <1>0, <1>3 DEF PhaseEnds, life
  <2> QED BY <2>1, <2>2, BroadcastingKillsNone DEF Onward, Unkilled
<1>4. ASSUME NEW n \in Nodes, RunEnds(n) PROVE Unkilled'
  <2>1. procs' = [procs EXCEPT ![n] = end_run(procs[n])] /\ Unkilled
    BY <1>0, <1>00, <1>4 DEF RunEnds, life
  <2>2. end_run(procs[n]).phase # "killed"
    BY <1>00, EndRunGoesOn DEF Onward
  <2> QED BY <1>00, <2>1, <2>2 DEF Unkilled
<1>5. ASSUME NEW n \in Nodes, NextSession(n) \/ Rejoin(n) PROVE Unkilled'
  <2>1. procs' = [procs EXCEPT ![n] = new_runtime({n}, setup.scenario)] /\ Unkilled
    BY <1>0, <1>5 DEF NextSession, Rejoin
  <2>2. new_runtime({n}, setup.scenario).phase = "loop"
    BY DEF new_runtime
  <2> QED BY <1>00, <2>1, <2>2 DEF Unkilled
<1>6. ASSUME NEW n \in Nodes, Killed(n) PROVE FALSE
  BY <1>6 DEF Killed
<1>7. ASSUME NEW n \in Nodes, WorkerExits(n) PROVE Unkilled'
  BY <1>0, <1>7 DEF WorkerExits, life, Unkilled
<1>8. CASE UNCHANGED vars
  BY <1>0, <1>8 DEF vars, Unkilled
<1> QED BY <1>1, <1>2, <1>3, <1>4, <1>5, <1>6, <1>7, <1>8 DEF Next, Step, Terminated

\* The inductive invariant behind InStepOutcome, next to ClusterInv.
InStepInv == NoneKilled /\ (Calm => KeptStep)

\* Every step keeps it: a calm state comes from a calm one, in step.
LEMMA StepInStepInv == ClusterInv /\ InStepInv /\ [Next]_vars => InStepInv'
<1> SUFFICES ASSUME ClusterInv, InStepInv, [Next]_vars PROVE InStepInv'
  OBVIOUS
<1>1. NoneKilled /\ NoneKilled'
  BY StepNoneKilled DEF InStepInv
<1>2. ASSUME Calm' PROVE KeptStep'
  <2>1. Calm
    BY <1>1, <1>2, CalmBefore
  <2> QED BY <1>1, <1>2, <2>1, CalmStepKept DEF InStepInv
<1> QED BY <1>1, <1>2 DEF InStepInv

\* At first every process is at stage 0, and nothing is in the order.
LEMMA InitInStepInv == Init => InStepInv
<1> SUFFICES ASSUME Init PROVE InStepInv
  OBVIOUS
<1>1. /\ setup \in Setups /\ order = <<>> /\ pos = [n \in Nodes |-> 0]
      /\ session = [n \in Nodes |-> 0] /\ ClusterInv
      /\ procs = [n \in Nodes |-> new_runtime({n}, setup.scenario)]
  BY InitClusterInv DEF Init
<1>2. setup.scenario \in SUBSET ScenarioEvents /\ setup.sessions \in Nat /\ MaxRounds \in Nat
  BY <1>1, SetupFacts, MaxRoundsAssumption DEF MaxRoundsAssumption
<1>3. ASSUME NEW n \in Nodes
      PROVE  Steady(procs[n]) /\ procs[n].phase = "loop" /\ Round(procs[n]) = 0
  BY <1>1, <1>2, NewIsSteady
<1>4. NoneKilled
  BY <1>3 DEF NoneKilled, Unkilled
<1>5. ASSUME NEW n \in Nodes PROVE Stage(n) = 0
  <2>1. PICK r : r = procs[n]
    OBVIOUS
  <2>2. Steady(r) /\ r.phase = "loop" /\ Round(r) = 0
    BY <1>3, <2>1
  <2>3. Stage(n) = StageOf(r, 0)
    BY <1>1, <2>1, <2>2 DEF Stage, Over, Stopped, Done
  <2>4. Index(r) = 0
    BY <2>2, PhaseIndices
  <2>5. StageOf(r, 0) = At(0, 0, 0)
    <3>1. 0 \in Nat /\ r.phase # "done"
      BY <2>2
    <3>2. /\ StageIn(r, 0, setup.sessions) = At(0, Round(r), Index(r))
          /\ StageOf(r, 0) = At(0, Round(r), Index(r))
      BY <3>1, <1>2, <2>2, SteadyStage
    <3> QED BY <3>2, <2>2, <2>4
  <2>6. At(0, 0, 0) = 0
    <3>1. PICK w : w = 5 * (MaxRounds + 1)
      OBVIOUS
    <3>2. w \in Nat
      BY <3>1, <1>2
    <3>3. At(0, 0, 0) = w * 0 + 5 * 0 + 0
      BY <3>1 DEF At
    <3> QED BY <3>2, <3>3
  <2> QED BY <2>3, <2>5, <2>6
<1>6. Stages = [n \in Nodes |-> 0]
  BY <1>5 DEF Stages
<1>7. order \in Seq(FitEntries(setup)) /\ DOMAIN order = {}
  BY <1>1
<1>8. \A d \in HeldStages(setup) : d \in Nat /\ d > 0
  <2>1. ASSUME NEW q \in Places(setup) PROVE StageAt(q) > 0
    <3>1. /\ q[1] \in Nat /\ q[2] \in RoundIds /\ q[3] \in 1..4 /\ q[3] \in 0..4
          /\ StageAt(q) = At(q[1], q[2], q[3]) /\ StageAt(q) \in Nat
      BY <1>2, <2>1, PlaceParts
    <3>2. 0 \in Nat /\ 0 \in RoundIds /\ 0 \in 0..4
      BY <1>2 DEF RoundIds
    <3>3. q[2] \in Nat
      BY <3>1 DEF RoundIds
    <3>4. Before(0, 0, 0, q[1], q[2], q[3])
      BY <3>1, <3>3 DEF Before
    <3>5. PICK a, b, c : a = q[1] /\ b = q[2] /\ c = q[3]
      OBVIOUS
    <3>6. PICK x, k, p : x = 0 /\ k = 0 /\ p = 0
      OBVIOUS
    <3>7. a \in Nat /\ b \in RoundIds /\ c \in 0..4 /\ x \in Nat /\ k \in RoundIds /\ p \in 0..4
      BY <3>1, <3>2, <3>5, <3>6
    <3>8. At(x, k, p) < At(a, b, c) <=> Before(x, k, p, a, b, c)
      BY <3>7, StageOrder
    <3>9. At(x, k, p) < At(a, b, c) /\ At(x, k, p) \in Nat
      BY <3>4, <3>5, <3>6, <3>7, <3>8, AtIsNat
    <3> QED BY <3>1, <3>5, <3>9
  <2>2. HeldStages(setup) \subseteq Nat
    BY <1>2, EntryFacts
  <2> QED BY <2>1, <2>2 DEF HeldStages
<1>9. \A e \in DueEntries(setup) : e.stage \in HeldStages(setup) /\ e.msg.origin \in Nodes
  BY <1>2, EntryFacts
<1>10. PICK hd : hd = Hearing
  OBVIOUS
<1>11. InStep(HeldStages(setup), DueEntries(setup), Stages, order, pos, hd)
  <2>1. \A n \in Nodes : Stages[n] = 0
    BY <1>6
  <2>2. \A e \in DueEntries(setup) : e.stage > 0 /\ e.stage \in Nat /\ e.msg.origin \in Nodes
    BY <1>8, <1>9
  <2> QED BY <2>1, <2>2, <1>7, <1>8 DEF InStep
<1>12. KeptStep
  BY <1>3, <1>7, <1>10, <1>11 DEF KeptStep
<1> QED BY <1>4, <1>12 DEF InStepInv

\* It holds of every behaviour.
LEMMA InStepIsInvariant == Spec => [](ClusterInv /\ InStepInv)
<1>1. Init => ClusterInv /\ InStepInv
  BY InitClusterInv, InitInStepInv
<1>2. ClusterInv /\ InStepInv /\ [Next]_vars => (ClusterInv /\ InStepInv)'
  BY StepClusterInv, StepInStepInv
<1> QED BY <1>1, <1>2, PTL DEF Spec

\* Where no message was late, no worker has died and no process was killed,
\* the processes of run_node do what the in-process run does ("No protocol
\* logic depends on transport specifics", runtime.rs): whoever is done reports
\* the outcome the scenario calls for, in a log that verify_log accepts, for
\* every topology, scenario and number of sessions, in whatever order the
\* processes take their steps.
THEOREM ProcessesInStepDoAsTheScenario ==
    ASSUME KeysMatch PROVE Spec => []InStepOutcome
<1>1. ClusterInv /\ InStepInv => InStepOutcome
  <2> SUFFICES ASSUME ClusterInv, InStepInv, Calm, NEW n \in Nodes, Done(n)
               PROVE  /\ OutcomeOf(LogOf(n)) = ExpectedOutcome(setup.scenario)
                      /\ verify_log(LogOf(n)) = {}
    BY DEF InStepOutcome, Calm
  <2>1. PICK r : r = procs[n]
    OBVIOUS
  <2>2. RtInv(r) /\ Known(r) /\ SteadyIn(r) /\ r.phase = "done" /\ r.scenario = setup.scenario
    BY <2>1, KeptFacts DEF InStepInv, Steady, Done
  <2>3. Ended(r)
    BY <2>2 DEF SteadyIn
  <2>4. OutcomeOf(r.log) = ExpectedOutcome(r.scenario)
    BY <2>2, <2>3, EndedAsExpected
  <2>5. verify_log(r.log) = {}
    BY <2>2, <2>3, EndedVerifies
  <2> QED BY <2>1, <2>2, <2>4, <2>5 DEF LogOf
<1> QED BY <1>1, InStepIsInvariant, PTL

-----------------------------------------------------------------------------
(* The abstract protocol, as each process implements it.                   *)

\* A step of process r to r2: it stays in its round, ends a phase or the run.
MovesOrStops(r, r2) ==
    \/ r2 = r
    \/ Round(r2) = Round(r) /\ r.phase # "done" /\ r2.phase # "done"
    \/ Draining(r) /\ r2 = EndPhase(r).rt
    \/ LoopExhausted(r) /\ r2 = end_run(r)

\* What a step amounts to where a round may fail for any reason.
Capable == {p \in Providers : Required \in Claims[p]}
GivesUp(r, r2) ==
    /\ Result(r) = None /\ Result(r2) = None /\ Round(r) < MaxRounds
    /\ Round(r2) = Round(r) + 1
Settles(r, r2) ==
    /\ Result(r) = None /\ Round(r) < MaxRounds /\ Round(r2) = Round(r)
    /\ \E p \in Capable : Result(r2) = [finalized |-> TRUE, round |-> Round(r), provider |-> p]
Coordinates(r, r2) == Stays(r, r2) \/ GivesUp(r, r2) \/ Settles(r, r2) \/ Aborts(r, r2)

\* Whatever was lost or late, a step is one of the abstract protocol or none.
LEMMA MovesCoordinate ==
    ASSUME NEW r, RtInv(r), NEW r2, MovesOrStops(r, r2) PROVE Coordinates(r, r2)
<1>1. Round(r) \in Nat /\ Round(r) <= MaxRounds /\ MaxRounds \in Nat /\ r \in Runtimes
  BY RuntimeFacts, MaxRoundsAssumption DEF MaxRoundsAssumption
<1>2. CASE r2 = r \/ (Round(r2) = Round(r) /\ r.phase # "done" /\ r2.phase # "done")
  BY <1>2 DEF Coordinates, Stays, Result
<1>3. CASE Draining(r) /\ r2 = EndPhase(r).rt
  <2>1. Round(r) < MaxRounds /\ r.phase # "done"
    BY <1>3, RuntimeFacts DEF Draining
  <2>2. \/ r2.phase = "loop" /\ Round(r2) = Round(r) + 1
        \/ r2.phase \in {"proposal", "proof", "receipt"} /\ Round(r2) = Round(r)
        \/ r.phase = "receipt" /\ r2.phase = "done"
    BY <1>3, EndPhaseMoves
  <2>3. CASE r2.phase = "loop" /\ Round(r2) = Round(r) + 1
    BY <2>1, <2>3 DEF Coordinates, GivesUp, Result
  <2>4. CASE r2.phase \in {"proposal", "proof", "receipt"} /\ Round(r2) = Round(r)
    BY <2>1, <2>4 DEF Coordinates, Stays, Result
  <2>5. CASE r.phase = "receipt" /\ r2.phase = "done"
    <3>1. PICK p : p = r.round_machine.proposal
      OBVIOUS
    <3>2. p # None /\ p.round = Round(r) /\ Grounded(r.log, p)
      BY <2>5, <3>1 DEF RtInv, PhaseCoherent, ProposalsCoherent, Round
    <3>3. LoggedProposal(r.log, Round(r)) = p
      BY <3>1, LookupProposal, RuntimeFacts DEF Round
    <3>4. /\ r2.log.finalized /\ r2.log.final_round = Round(r)
          /\ r2.log.proposals = r.log.proposals /\ r2.round_machine = r.round_machine
      BY <1>1, <1>3, <2>5 DEF EndPhase, end_receipt_phase, set_final_round, Runtimes, Logs, Round
    <3>5. LoggedProposal(r2.log, Round(r)) = p
      BY <3>3, <3>4 DEF LoggedProposal
    <3>6. OutcomeOf(r2.log)
              = [finalized |-> TRUE, round |-> Round(r), provider |-> p.candidate_provider]
      BY <3>4, <3>5 DEF OutcomeOf
    <3>7. p.candidate_provider \in Capable
      BY <3>2 DEF Grounded, Capable
    <3>8. Round(r2) = Round(r) /\ Result(r) = None
          /\ Result(r2)
                 = [finalized |-> TRUE, round |-> Round(r), provider |-> p.candidate_provider]
      BY <2>1, <2>5, <3>4, <3>6 DEF Result, Round
    <3> QED BY <2>1, <3>7, <3>8 DEF Coordinates, Settles
  <2> QED BY <2>2, <2>3, <2>4, <2>5
<1>4. CASE LoopExhausted(r) /\ r2 = end_run(r)
  <2>1. r.phase = "loop" /\ Round(r) = MaxRounds
    BY <1>1, <1>4 DEF LoopExhausted, Round
  <2>2. /\ r2.phase = "done" /\ r2.round_machine = r.round_machine /\ ~r2.log.finalized
        /\ r2.log.final_round = IF Round(r) = 0 THEN 0 ELSE Round(r) - 1
    BY <1>1, <1>4 DEF end_run, set_final_round, set_abort_reason, Runtimes, Logs, Round
  <2>3. OutcomeOf(r2.log) = [finalized |-> FALSE,
                             round |-> IF MaxRounds = 0 THEN 0 ELSE MaxRounds - 1,
                             provider |-> None]
    <3>1. r2.log.finalized = FALSE
      <4>1. r2.log.finalized \in BOOLEAN
        BY <1>1, <1>4 DEF end_run, set_final_round, set_abort_reason, Runtimes, Logs
      <4> QED BY <2>2, <4>1
    <3> QED BY <2>1, <2>2, <3>1 DEF OutcomeOf
  <2>4. Result(r) = None /\ Result(r2) = OutcomeOf(r2.log) /\ Round(r2) = Round(r)
    BY <2>1, <2>2 DEF Result, Round
  <2> QED BY <2>1, <2>3, <2>4 DEF Coordinates, Aborts
<1> QED BY <1>2, <1>3, <1>4 DEF MovesOrStops

\* In step, it is what the scenario has for the round.
LEMMA SteadyRefines ==
    ASSUME NEW r, Steady(r), NEW r2, Steady(r2), r2.scenario = r.scenario, MovesOrStops(r, r2)
    PROVE  Refines(r, r2)
<1>1. RtInv(r) /\ Known(r) /\ Known(r2) /\ r \in Runtimes
  BY RuntimeFacts DEF Steady
<1>2. CASE r2 = r
  BY <1>2 DEF Refines, Stays
<1>3. CASE Round(r2) = Round(r) /\ r.phase # "done" /\ r2.phase # "done"
  BY <1>3, SameStageRefines
<1>4. CASE Draining(r) /\ r2 = EndPhase(r).rt
  <2>1. ASSUME r2.phase = "done"
        PROVE  /\ Ended(r2) /\ r2.log.finalized /\ r2.round_machine = r.round_machine
               /\ Complete(r) /\ RoundSucceeds(r.scenario, Round(r))
    <3>1. r.phase = "receipt"
      BY <1>1, <1>4, <2>1, EndPhaseMoves
    <3>2. Complete(r) /\ RoundSucceeds(r.scenario, Round(r))
      BY <3>1 DEF Steady, SteadyIn, Agreed
    <3>3. r2.log.finalized /\ r2.round_machine = r.round_machine
      BY <1>1, <1>4, <3>1 DEF EndPhase, end_receipt_phase, set_final_round, Runtimes, Logs
    <3>4. Ended(r2)
      BY <2>1 DEF Steady, SteadyIn
    <3> QED BY <3>2, <3>3, <3>4
  <2> QED BY <1>1, <1>4, <2>1, EndPhaseRefines
<1>5. CASE LoopExhausted(r) /\ r2 = end_run(r)
  BY <1>1, <1>5, EndRunRefines
<1> QED BY <1>2, <1>3, <1>4, <1>5 DEF MovesOrStops

\* A broadcasting step leaves a process as it was, takes it where the step
\* goes, or stops it.
LEMMA BroadcastingMoves ==
    ASSUME procs \in [Nodes -> Runtimes], NEW n \in Nodes, NEW step, Broadcasting(n, step),
           NEW k \in Nodes, procs[n].phase # "done"
    PROVE  \/ procs'[k] = procs[k]
           \/ k = n /\ procs'[k] = step.rt
           \/ Round(procs'[k]) = Round(procs[k]) /\ procs[k].phase # "done"
              /\ procs'[k].phase # "done"
<1>1. PICK failed : failed = [procs[n] EXCEPT !.phase = "failed"]
  OBVIOUS
<1>2. failed.phase = "failed" /\ failed.round_machine = procs[n].round_machine
  BY <1>1 DEF Runtimes
<1>3. procs' = [procs EXCEPT ![n] = step.rt] \/ procs' = [procs EXCEPT ![n] = failed]
  BY <1>1 DEF Broadcasting, Ordered, LostInWorker, WorkerDies, OnClosed, workers
<1> QED BY <1>2, <1>3 DEF Round

\* A step of the cluster is a move of every process, where each has one life.
LEMMA EveryProcessMoves ==
    ASSUME OneLife, ClusterInv, EvidenceInv, [Next]_vars, NEW k \in Nodes
    PROVE  MovesOrStops(procs[k], procs'[k]) /\ setup' = setup
<1>0. /\ setup.sessions = 1 /\ setup.kills = 0 /\ restarted = {}
      /\ procs \in [Nodes -> Runtimes] /\ order \in Seq(Stamps)
      /\ pos \in [Nodes -> 0..Len(order)] /\ session \in [Nodes -> 0..(setup.sessions - 1)]
      /\ \A n \in Nodes : RtInv(procs[n]) /\ procs[n].phase # "killed"
  BY DEF ClusterInv, ProcInv, EvidenceInv, OneLife
<1>1. ASSUME NEW n \in Nodes, BeginRound(n)
      PROVE  MovesOrStops(procs[k], procs'[k]) /\ setup' = setup
  <2>1. PICK step : step = broadcast_commitments(procs[n])
    OBVIOUS
  <2>2. /\ procs[n].phase = "loop" /\ ~LoopExhausted(procs[n]) /\ setup' = setup
        /\ Broadcasting(n, step)
    BY <1>1, <2>1 DEF BeginRound, life
  <2>3. step.rt.phase = "commit" /\ step.rt.round_machine = procs[n].round_machine
    BY <1>0, <2>1, <2>2, BroadcastCommitmentsSound
  <2> QED BY <1>0, <2>2, <2>3, BroadcastingMoves DEF MovesOrStops, Round
<1>2. ASSUME NEW n \in Nodes, Receive(n)
      PROVE  MovesOrStops(procs[k], procs'[k]) /\ setup' = setup
  <2>1. PICK msg : msg = order[pos[n] + 1].msg
    OBVIOUS
  <2>2. /\ Draining(procs[n]) /\ procs' = [procs EXCEPT ![n] = Drain(procs[n], msg)]
        /\ setup' = setup /\ Unread(n) # {}
    BY <1>0, <1>2, <2>1 DEF Receive, Readable, life
  <2>3. msg \in Messages
    <3>1. pos[n] + 1 \in 1..Len(order)
      BY <1>0, <2>2 DEF Unread
    <3>2. order[pos[n] + 1] \in Stamps
      BY <1>0, <3>1
    <3> QED BY <2>1, <3>2 DEF Stamps
  <2>4. Drain(procs[n], msg).phase = procs[n].phase /\ Round(Drain(procs[n], msg)) = Round(procs[n])
    BY <1>0, <2>2, <2>3, DrainKeeps, DrainKeepsRound
  <2> QED BY <1>0, <2>2, <2>4 DEF MovesOrStops, Draining
<1>3. ASSUME NEW n \in Nodes, PhaseEnds(n)
      PROVE  MovesOrStops(procs[k], procs'[k]) /\ setup' = setup
  <2>1. PICK step : step = EndPhase(procs[n])
    OBVIOUS
  <2>2. Draining(procs[n]) /\ setup' = setup /\ Broadcasting(n, step)
    BY <1>3, <2>1 DEF PhaseEnds, life
  <2>3. procs[n].phase # "done"
    BY <2>2 DEF Draining
  <2> QED BY <1>0, <2>1, <2>2, <2>3, BroadcastingMoves DEF MovesOrStops
<1>4. ASSUME NEW n \in Nodes, RunEnds(n)
      PROVE  MovesOrStops(procs[k], procs'[k]) /\ setup' = setup
  <2>1. /\ LoopExhausted(procs[n]) /\ procs' = [procs EXCEPT ![n] = end_run(procs[n])]
        /\ setup' = setup
    BY <1>0, <1>4 DEF RunEnds, life
  <2> QED BY <1>0, <2>1 DEF MovesOrStops
<1>5. ASSUME NEW n \in Nodes, NextSession(n) \/ Killed(n) \/ Rejoin(n) PROVE FALSE
  <2>1. session[n] = 0 /\ Cardinality(restarted) = 0
    BY <1>0, FS_EmptySet
  <2> QED BY <1>0, <1>5, <2>1 DEF NextSession, Killed, Rejoin
<1>6. ASSUME NEW n \in Nodes, WorkerExits(n)
      PROVE  MovesOrStops(procs[k], procs'[k]) /\ setup' = setup
  BY <1>6 DEF WorkerExits, life, MovesOrStops
<1>7. CASE UNCHANGED vars
  BY <1>7 DEF vars, MovesOrStops
<1> QED BY <1>1, <1>2, <1>3, <1>4, <1>5, <1>6, <1>7 DEF Next, Step, Terminated

\* Where no fault may happen none does.
LEMMA FaultlessInit == Init /\ Faultless => Calm
  BY DEF Init, Calm

\* And none does later.
LEMMA FaultlessStep ==
    ASSUME ClusterInv, [Next]_vars, Calm, Faultless, setup' = setup PROVE Calm'
<1>1. /\ setup.timing \in Nat /\ setup.exits \in Nat /\ setup.kills \in Nat
      /\ setup \in Setups
  BY ClusterAssumption DEF ClusterAssumption, ClusterInv
<1>2. setup.timing = 0 /\ setup.exits = 0 /\ setup.kills = 0
  <2>1. PICK x, y, z : x = setup.timing /\ y = setup.exits /\ z = setup.kills
    OBVIOUS
  <2>2. x + y + z = 0
    BY <2>1 DEF Faultless
  <2>3. x \in Nat /\ y \in Nat /\ z \in Nat
    BY <1>1, <2>1
  <2> QED BY <2>1, <2>2, <2>3
<1>3. closed = {} /\ restarted = {} /\ faults = 0
      /\ Cardinality(closed) = 0 /\ Cardinality(restarted) = 0
  BY FS_EmptySet DEF Calm
<1>4. ASSUME NEW inStep, Charge(inStep) PROVE faults' = 0
  BY <1>2, <1>3, <1>4 DEF Charge
<1>5. ASSUME NEW n, NEW step, Broadcasting(n, step) PROVE closed' = {}
  BY <1>2, <1>3, <1>5 DEF Broadcasting, Ordered, LostInWorker, WorkerDies, OnClosed, workers
<1>6. ASSUME NEW n \in Nodes, BeginRound(n) PROVE Calm'
  BY <1>3, <1>5, <1>6 DEF BeginRound, life, Calm
<1>7. ASSUME NEW n \in Nodes, Receive(n) PROVE Calm'
  BY <1>3, <1>4, <1>7 DEF Receive, workers, life, Calm
<1>8. ASSUME NEW n \in Nodes, PhaseEnds(n) PROVE Calm'
  BY <1>3, <1>4, <1>5, <1>8 DEF PhaseEnds, life, Calm
<1>9. ASSUME NEW n \in Nodes, RunEnds(n) \/ NextSession(n) PROVE Calm'
  BY <1>3, <1>9 DEF RunEnds, NextSession, workers, life, Calm
<1>10. ASSUME NEW n \in Nodes, WorkerExits(n) \/ Killed(n) PROVE FALSE
  BY <1>2, <1>3, <1>10 DEF WorkerExits, WorkerDies, Killed
<1>11. ASSUME NEW n \in Nodes, Rejoin(n) PROVE Calm'
  BY <1>3, <1>11 DEF Rejoin, Calm
<1>12. CASE UNCHANGED vars
  BY <1>3, <1>12 DEF vars, workers, Calm
<1> QED BY <1>6, <1>7, <1>8, <1>9, <1>10, <1>11, <1>12 DEF Next, Step, Terminated

\* The invariants behind ProcessesCoordinate: where no fault may happen it
\* stays calm, and the processes keep step.
CoordinationInv == ClusterInv /\ EvidenceInv /\ InStepInv /\ (Faultless => Calm)

\* They hold of every behaviour in which every process has one life.
LEMMA CoordinationIsInvariant == ASSUME OneLife PROVE Spec => []CoordinationInv
<1>1. Init => CoordinationInv
  BY InitClusterInv, InitEvidenceInv, InitInStepInv, FaultlessInit DEF CoordinationInv
<1>2. CoordinationInv /\ [Next]_vars => CoordinationInv'
  <2> SUFFICES ASSUME CoordinationInv, [Next]_vars PROVE CoordinationInv'
    OBVIOUS
  <2>1. ClusterInv' /\ EvidenceInv' /\ InStepInv'
    BY StepClusterInv, StepEvidenceInv, StepInStepInv DEF CoordinationInv
  <2>2. setup' = setup
    BY EveryProcessMoves, NodeFacts DEF CoordinationInv
  <2>3. Faultless' => Calm'
    BY <2>2, FaultlessStep DEF CoordinationInv, Faultless
  <2> QED BY <2>1, <2>3 DEF CoordinationInv
<1> QED BY <1>1, <1>2, PTL DEF Spec

\* Under any timing, with dead workers, and in any order of steps, every
\* process of run_node implements the abstract protocol: it goes through the
\* rounds one by one, ends with a provider that claims the capability or after
\* the last round, and never takes an outcome back.  Where no fault may happen
\* a round finalizes with the one provider the scenario allows, or had none.
THEOREM ProcessesImplementCoordination ==
    ASSUME OneLife PROVE Spec => ProcessesCoordinate
<1>1. Init => \A n \in Nodes : Process(n, FALSE)!Init
  <2> SUFFICES ASSUME Init, NEW n \in Nodes PROVE Process(n, FALSE)!Init
    OBVIOUS
  <2>1. procs[n].phase = "loop" /\ procs[n].round_machine.current = 0
    BY DEF Init, new_runtime, new
  <2>2. \A r : Chances(setup.scenario, r) \subseteq Providers
    <3>1. ASSUME NEW r PROVE Chances(setup.scenario, r) \subseteq Providers
      <4>1. PICK S : S = SpeakingFeasible(setup.scenario, r)
        OBVIOUS
      <4>2. S \subseteq Providers /\ Providers \subseteq Nat
        BY <4>1, NodeFacts DEF SpeakingFeasible
      <4>3. S # {} => Min(S) \in S
        BY <4>2, MinIsLeast
      <4> QED BY <4>1, <4>2, <4>3 DEF Chances, RoundSucceeds
    <3> QED BY <3>1
  <2> QED BY <2>1, <2>2 DEF Process!Init, Done
<1>2. ASSUME CoordinationInv, CoordinationInv', [Next]_vars
      PROVE  \A n \in Nodes :
                 \/ UNCHANGED Process(n, FALSE)!vars
                 \/ IF Faultless THEN Process(n, TRUE)!Next ELSE Process(n, FALSE)!Next
  <2> SUFFICES ASSUME NEW n \in Nodes
               PROVE  \/ UNCHANGED Process(n, FALSE)!vars
                      \/ IF Faultless THEN Process(n, TRUE)!Next ELSE Process(n, FALSE)!Next
    OBVIOUS
  <2>1. PICK r, r2 : r = procs[n] /\ r2 = procs'[n]
    OBVIOUS
  <2>2. MovesOrStops(r, r2) /\ setup' = setup
    BY <1>2, <2>1, EveryProcessMoves DEF CoordinationInv
  <2>3. /\ RtInv(r) /\ r.scenario = setup.scenario /\ r2.scenario = setup.scenario
        /\ Round(r) \in 0..MaxRounds
    <3>1. RtInv(r) /\ r.scenario = setup.scenario /\ r2.scenario = setup'.scenario
      BY <1>2, <2>1 DEF CoordinationInv, ClusterInv, ProcInv
    <3>2. Round(r) \in Nat /\ Round(r) <= MaxRounds /\ MaxRounds \in Nat
      BY <3>1, RuntimeFacts, MaxRoundsAssumption DEF MaxRoundsAssumption
    <3> QED BY <2>2, <3>1, <3>2
  <2>4. /\ (IF Done(n) THEN OutcomeOf(LogOf(n)) ELSE None) = Result(r)
        /\ (IF Done(n) THEN OutcomeOf(LogOf(n)) ELSE None)' = Result(r2)
    BY <2>1 DEF Done, LogOf, Result
  <2>5. CASE Faultless
    <3>1. Refines(r, r2)
      <4>1. Faultless' /\ Calm /\ Calm'
        BY <1>2, <2>2, <2>5 DEF CoordinationInv, Faultless
      <4>2. Steady(r) /\ Steady(r2)
        BY <1>2, <2>1, <4>1 DEF CoordinationInv, InStepInv, KeptStep
      <4> QED BY <2>2, <2>3, <4>2, SteadyRefines
    <3>2. CASE Stays(r, r2)
      BY <2>1, <2>2, <2>4, <2>5, <3>2 DEF Process!vars, Stays, Round, Faultless
    <3>3. CASE FallsBack(r, r2)
      BY <2>1, <2>2, <2>3, <2>4, <2>5, <3>3
         DEF Process!Next, Process!Fallback, FallsBack, Round, Faultless, Agenda
    <3>4. CASE Finalizes(r, r2)
      BY <2>1, <2>2, <2>3, <2>4, <2>5, <3>4
         DEF Process!Next, Process!Finalize, Finalizes, Round, Faultless, Agenda
    <3>5. CASE Aborts(r, r2)
      BY <2>1, <2>2, <2>3, <2>4, <2>5, <3>5
         DEF Process!Next, Process!Abort, Aborts, Round, Faultless, Agenda
    <3> QED BY <3>1, <3>2, <3>3, <3>4, <3>5 DEF Refines
  <2>6. CASE ~Faultless
    <3>1. Coordinates(r, r2)
      BY <2>2, <2>3, MovesCoordinate
    <3>2. CASE Stays(r, r2)
      BY <2>1, <2>2, <2>4, <2>6, <3>2 DEF Process!vars, Stays, Round, Faultless
    <3>3. CASE GivesUp(r, r2)
      BY <2>1, <2>2, <2>3, <2>4, <2>6, <3>3
         DEF Process!Next, Process!Fallback, GivesUp, Round, Faultless
    <3>4. CASE Settles(r, r2)
      BY <2>1, <2>2, <2>3, <2>4, <2>6, <3>4
         DEF Process!Next, Process!Finalize, Settles, Round, Faultless, Capable
    <3>5. CASE Aborts(r, r2)
      BY <2>1, <2>2, <2>3, <2>4, <2>6, <3>5
         DEF Process!Next, Process!Abort, Aborts, Round, Faultless
    <3> QED BY <3>1, <3>2, <3>3, <3>4, <3>5 DEF Coordinates
  <2> QED BY <2>5, <2>6
<1>3. CoordinationInv /\ CoordinationInv' /\ [Next]_vars =>
          [\A n \in Nodes :
              \/ UNCHANGED Process(n, FALSE)!vars
              \/ IF Faultless THEN Process(n, TRUE)!Next ELSE Process(n, FALSE)!Next]_vars
  BY <1>2
<1> QED BY <1>1, <1>3, CoordinationIsInvariant, PTL DEF Spec, ProcessesCoordinate
=============================================================================
