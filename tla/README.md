# Vertex Veil: TLA+ models and proofs

Vertex Veil matches one requester with one of several providers. The nodes
commit to private intents, a rotating proposer derives a candidate from the
public part, the matched pair publishes proofs, and the provider signs a
receipt. A round that fails falls back to the next, up to `max_rounds`. What
happened is written to a public log that a standalone verifier checks later.

This directory models the system from its input files to its exit code: the
loaders, the round state machine, the runtime that drives it, the log and its
verifier, the in-process run, the multi-process run over the consensus-ordered
Vertex transport with persistent sessions and rejoining processes, the bundle
on disk, and the orchestrator. An abstract protocol says what a run promises,
and both the in-process run and the processes of the multi-process run are proved
to implement it.

Paths below are relative to the repository root; `core` is
`crates/vertex-veil-core/src`, `agents` is `crates/vertex-veil-agents/src`.

## Inventory

| Component | State | Operations | What makes it correct |
|---|---|---|---|
| Topology, rotation (`core/config.rs`, `proposer.rs`) | fixed after load | `from_raw`, `providers_stable_order`, `proposer_for_round` | one requester, unique ids, every process computes the same proposer |
| Predicate, candidate (`predicate.rs`, `candidate.rs`) | none | `match_predicate`, `validate_proposal_annotation`, `derive_candidate` | same answer in runtime, verifier and circuit |
| Round machine (`round_machine.rs`) | active round, commitments, proposal, hash history, closed rounds | `accept_commitment`, `accept_proposal`, `advance_to`, `advance_fallback` | no replay, no double commit, sound proposals, rounds ascend |
| Log (`artifacts.rs`) | six record lists, final round, flags | `append_*`, `set_*` | agrees with the round machine |
| Verifier (`verifier.rs`) | none | `verify_log` | accepts exactly what an honest runtime produces |
| Runtime (`runtime.rs`) | machine, log, agents, scenario, historical commitments | `run`, `run_one_round`, four broadcasts, four drains | ends, right outcome, trace of every attack |
| Scenarios (`adversarial.rs`) | fixed | `events_for_round`, `has_dropped` | an event acts in its round only |
| Transport, node (`agents/vertex_transport.rs`, `node.rs`) | outbound and inbound channels, closed flag, session index | `broadcast`, `next_ordered`, `flush`, worker loop, session loop | processes agree, nothing is lost silently |
| Bundle (`artifacts.rs`, `agents/run.rs`, `node.rs`) | seven files per node | `persist_node_bundle`, `verify` | a bundle is of one session |
| Orchestrator (`agents/orchestrate.rs`) | child handles, rejoin timer | spawn, kill, rejoin, aggregate | one process per alias, none left behind, reports what the children did, ends |
| Private intents, signing, commitments | fixed | loaders, hashes, signatures | the two files agree, keys on both sides match, what loads can be committed to |
| Noir circuits and bridge | none | constraints, external prover | parity with the predicate |

How they interact: `node` (or `demo`) builds a `CoordinationRuntime` from the
topology, its agents and the scenario, and hands it a transport. The runtime
broadcasts, and drains the transport into its round machine and its log; at the
end the log goes to the verifier and to disk. In the multi-process run the only
thing processes share is the engine's order of messages.

What is hard: every process ends a phase on its own poll timeout, so phases
drift apart; a message consumed in the wrong phase is thrown away; a worker may
die with queued messages; adversarial events combine; replay detection is local
to a process; a persistent node reads in one session what was sent in the
session before, and nothing in a message tells; a killed process comes back with
nothing; a bundle is replaced file by file under the eyes of `verify`; kill,
rejoin, exit and deadline of a child race in the orchestrator. `PROJECT.json`
lists each hazard at its line.

## Modules

| Module | Models | Form |
|---|---|---|
| `Topology` | validated configuration, rotation | constants, assumptions, operators |
| `Predicate` | intents, records, predicate, candidate | operators |
| `RoundMachine` | the round machine | a record and an operator per method |
| `RoundMachineSpec` | a machine under any caller | specification, properties, inductive invariant |
| `RoundMachineProofs` | theorems about it | TLAPS proofs |
| `CoordinationLog` | the public log, hashes, public inputs, signatures | operators |
| `Verifier` | `verify_log` | a log to a set of reason tags |
| `Runtime` | `CoordinationRuntime` | a record and an operator per step |
| `Coordination` | what a run promises: rounds that finalize or fall back | abstract specification |
| `RuntimeProofs` | lemmas about one runtime under any transport | TLAPS proofs |
| `LocalRun` | one runtime with all agents over `OrderedBus` | specification, refines `Coordination` |
| `Cluster` | one runtime per node over the engine's order, sessions, kills, rejoins | specification, refines `Coordination` |
| `DamagedLog` | a finished log with one damaged record, and its verification | specification over `LocalRun` |
| `Loader` | topology and private-intent loading, first commitments | specification |
| `Bundle` | artifact directory, its writers, the `verify` command | specification |
| `Orchestrator` | `demo-bft` over abstract children | specification |
| `LocalRunProofs`, `DamagedLogProofs`, `ClusterProofs`, `LoaderProofs`, `BundleProofs`, `OrchestratorProofs` | theorems about the six specifications | TLAPS proofs |
| `MC*` | instances for TLC | constants only |

`RoundMachine` and `Runtime` are operators on records rather than modules with
variables, because `Cluster` needs one of each per process. A method that
returns `Result` is two operators: `x_result` (the error code or "ok") and the
state afterwards. All validation precedes mutation in the source, so an error
leaves the record as it was.

**Runtime.** Between two steps a runtime is at the head of its for-loop
(`phase = "loop"`), in one of the four drain loops, or finished. One iteration
of a drain loop is `Drain`; the end of a drain loop, the checks that follow it
in `run_one_round` and the next broadcast are one step, `EndPhase`, because
nothing else can happen in between in that process. `run` and
`run_with_transport` have the same body and the same model. A round number
needs no separate loop counter: the machine starts at 0 and each iteration
either ends the run or advances by one.

**Data.** A commitment hash is the node and the round it was made for (the
nonce is a function of node, round and the fixed salt). Public inputs are their
four fields. A signature is its scheme and the signed triple. Rejections keep
round, node, kind and code. A scenario is a set of events. Observers, ids
formatted into reasons, and JSON are left out.

**Cluster.** `order` is the engine's sequence (external), `pos[n]` how much of
it process `n` has consumed. A broadcast is appended at once. This loses
nothing as long as the engine keeps the messages of one sender in their order:
a message that the engine orders late corresponds to a process that took its
broadcasting step late, since the later steps of that process are visible to
others only through later messages of its own. The one simplification: the two
messages a process sends in one step (a replay or a double commit with its own
commitment) are adjacent in the order.

`next_ordered` may return `None` at any time, so `PhaseEnds` is always possible
in a drain loop. To tell an orderly run from a disturbed one, messages are
stamped with the stage (round and phase) of their sender, and a step out of
step is a *timing fault*: ending a phase while a message of this stage or
before is unread or while another process is behind, or consuming a message of
a later stage with nothing due behind it. The setup bounds them; with 0
the run is the one in which delays stay below `poll_timeout`. That is an
idealisation: a proposer that finds no feasible provider falls back without
waiting, and its next commitment then reaches processes that still wait for the
proposal. The faults are what the code does, and nothing else in the model
depends on the stamps.

A worker that breaks out of its loop (`WorkerExits`, `LostInWorker`) ends the
inbound channel: the drain loops then end at once, and the next `broadcast`
fails the process (`phase = "failed"`). What the worker had handed over before
is still in the channel: `inbound[n]` is how far that was, and the process reads
up to there (`Readable`) before its phases end without waiting.

With `--persist` a process that is done starts its next session
(`NextSession`): a new runtime at round 0 over the same order, at the same
position. A process may be `Killed` at any point; `Rejoin` gives it a new
runtime, a live worker and session 0, at any position of the order, since the
source does not say where the engine resumes. A process that came back is not
held to the timing rules, and the others do not wait for it: its phases have
nothing to do with theirs. `ProposalsAgree` is not claimed with kills: a
restarted proposer may derive another candidate for a round it has proposed in
before.

**Coordination.** A round is one step: it finalizes with a provider from the
round's `agenda`, or falls back, and the run aborts after `MaxRounds`. With
`Reliable` a round that can finalize does. `LocalRun` is reliable, with the
agenda the scenario leaves (`Chances`, computed from the scenario and the
topology alone), so the refinement fixes the outcome of every round, not only
of the run. A process of `Cluster` is reliable with that agenda if no fault is
allowed; otherwise any feasible provider may be the outcome and any round may
fail, but rounds are not skipped and an outcome is never taken back.

**Loader.** Entries are read one by one, each any combination of field values,
`Bad` (does not parse) and `None` (not given) among them. It shows from where
the assumptions of `Topology` come. `MAX_CAPABILITY_CLAIMS` is a constant,
scaled down to 1 in the run.

**Bundle.** A file is absent, torn (truncated by `fs::write`, not yet written)
or holds the content of one session. A writer is a list of file operations,
made by `persist_bundle` from the mode: a `node` session, `demo --force`, or
`demo`, which rotates the old directory away. It may be killed between any two,
and `verify` works step by step next to it if the setting has `overlap`. Two processes
that write one file at the same time leave either content or a torn file; a
file removed under an open handle receives nothing. "notes" stands for the
operator's own files.

**Orchestrator.** Children commit rounds, write a bundle and exit, crash or
hang. Lines a child printed are a set not yet received, since only the one that
triggers the kill has an effect. The poll of 500 ms may expire with a line
still on its way. `kill` is not followed by `wait` in the code; the model ends the
child at once. What it still does before it is gone can be taken to precede the
kill, since the orchestrator sees a child only through its lines, `try_wait` and
its status at the end. Only that it is gone when the rejoin is spawned is an
assumption. `ChildExited` is never sent and the channel never closes, so
these two arms of the loop are dead and left out. `NoOrphans` speaks of returns
with a summary or a timeout: if a spawn fails, `run_orchestrator` returns at once
and the children spawned before stay.

**DamagedLog.** When an in-process run is over, one record of its log is
changed in one field, lost or doubled, or `finalized` or `final_round` is
changed; the result goes through `reindex` and `verify_log`. Public claims that
the verifier does not bind to the commitment hash can change without notice,
which is why `VerifiedEvidenceIsTrue` lists what is bound.

## Runs

| Run | Bounds | Shows |
|---|---|---|
| `round_machine` | 3 configured nodes and a foreign one, 3 hashes, rounds 0..2, all combinations of label, embedded intent and tag | the round model's promises under any caller; the replay history is exactly what was accepted |
| `local_run` | 4 nodes, 2 rounds, every scenario of at most 2 events; 1 damaged record in the logs of every single event and some pairs | the run ends, verifies, has the expected outcome, traces every attack and implements `Coordination`; a damaged log that verifies has the same `finalized` flag and, if finalized, the same round, pair and proofs |
| `cluster` | 3 processes, 2 rounds; six scenarios without faults, or 1 timing fault, or 1 dead worker | in step, all processes report what the in-process run reports; what survives a fault; every process implements `Coordination` |
| `cluster_restarts` | 2 processes, 2 rounds; 2 sessions with 1 timing fault, or 1 kill and rejoin; an invalid proof or none | in step, a later session has the outcome of a first one; whatever is left over or restarted, a log lacks at most the receipt |
| `cluster_leftovers` | 2 processes, 1 round; 2 sessions with 3 timing faults or with 1 dead worker, or 1 kill and rejoin with 1 timing fault | a session may finalize on what an earlier session or life left in the order, but only with a proof of both parties, each sent after a proposal that named it; every process ends, whatever is late, left over, dead or restarted |
| `bundle` | a persistent node: 2 sessions, 1 kill, 2 overlapping verifies; in place: 3 sessions in both modes, 1 kill, 1 verify between; rotating: 3 runs, 1 kill, 1 verify | evidence is of one session, the next one is not refused, verify repairs; the directory is exactly the latest bundle; no completed bundle is lost |
| `orchestrator` | 3 children, 1 round, with and without kill, rejoin and an unknown target | one instance per alias, no orphans, exit code 0 is earned, it returns although children hang |
| `loader` | 2 ids, 2 entries per file, an ordinary and an oversized tag, 2 key pairs | what loads is what the protocol assumes |

A run of `Cluster` or `Bundle` covers several configurations: a behaviour starts
with one of the given `Setups` (scenario, sessions, bounds on faults) or
`Settings` (modes, overlap, bounds) and keeps it.

Properties worth a word:

- `ProposalSound`: `accept_proposal` never calls `match_predicate`; that an
  accepted proposal satisfies it follows only together with what
  `accept_commitment` checked.
- `OutcomeAsExpected` and `InStepOutcome` compare a run with `ExpectedOutcome`,
  which is computed from the scenario without any of the protocol.
- `OnlyReceiptCanBeMissing`: of all the verifier's reasons, a runtime can
  produce only one by itself, under any timing.
- `HistoryIsExact`: "Validates before mutating, so a rejection leaves state
  unchanged". A rejected record must not spend its hash, or the well-formed
  record with the same hash is refused as a replay later.
- `FinalizedNeedsBothParties`: in a single session a process can finalize only a
  proposal that the matched requester's and provider's own processes accepted.
- `FinalizedOnConsent`: over sessions and restarts that is false. A requester
  that has given up its session 0 may, in session 1, accept the session-0
  commitment, proposal and proof of a provider that started late, and finalize
  a match which no log of that provider's session 1 holds: rounds start again
  at 0, `run_salt` is fixed, so are the hashes, and no message says its
  session. What is left is that each of the pair sent a proof for that round
  after a proposal that named it, in some session or life.
- `LatestSnapshotIsExact`: no file or manifest entry of an earlier or a killed
  session shows through; it fails if any owned file is missed by the cleaning or
  the listing is taken too early.
- `VerifyRepairs`: whatever a kill or a race left, an undisturbed `verify` that
  succeeds ends in a consistent directory.
- `SoleInstance`, `NoOrphans`: killed children stay in the map until a timeout
  reaps them, and the rejoined one replaces the handle.
- `FilesAgree`: role, capability and keys of the two files, checked entry by
  entry in any file order, agree as a whole.

Why the bounds suffice: two rounds are what it takes to carry anything over
(replays, history, rotation, late messages); one round already has all four
phases (`cluster_leftovers` has no more, to afford the faults that let a whole
session be read in the next one). Three processes give every role: proposer,
requester, matched provider, and with the rotation a bystander. `local_run`
adds a provider that cannot serve the request and one that signs with ed25519,
and takes every scenario; the six of `cluster` have every kind of event, by
every role, in runs that finalize at once, finalize in the second round, or
abort. `cluster_restarts` needs rounds and sessions or rounds and a kill at
once, and uses the smallest topology, a requester and one provider that also
proposes in every round; the third process of the other runs is a bystander to
those messages. With a second provider, two proposals for one round may differ
between sessions; that is beyond TLC's reach here and left to the theorem
(`FinalizingTakesConsent`). Two processes are also enough for
`EveryProcessEnds`, as no process waits for a particular other one. Two
sessions are what it takes to leave something behind, two bundles to mix, three
to have one killed between two complete ones. `loader` needs a second entry for
duplicates and for the disagreement of two files. In every run of `LocalRun`,
`Cluster`, `Orchestrator` and the round machine TLC also checks that no state
is stuck before everything has stopped. `bundle` and `loader` switch the
deadlock check off, because a refused file and a finished bundle are ends.

Fairness: `LocalRun` assumes that the single process keeps taking steps, since
`OrderedBus` never blocks. `Cluster` assumes each process is scheduled; a drain
loop ends because `recv_timeout` is bounded and only finitely many messages are
sent in `max_rounds` rounds. Nothing is assumed about workers dying.
`Orchestrator` assumes that its own thread keeps running and that the deadline
passes; children may hang forever. `Bundle` and `Loader` claim no liveness.

### Where the code and its documentation disagree

Four runs expect a violation; `PROJECT.json` quotes both sides.

- `cluster_agreement`: one process gives up on a phase too early and aborts a
  run the others finalize.
- `cluster_replay`: a process that missed the original commitment accepts its
  replay in the next round, because the replay history is what this process
  accepted.
- `bundle_inspect`: a `verify` that overlaps with the next session leaves a
  report and a status of the session before.
- `orchestrator_stale`: with the bundles of an earlier run in place, a run whose
  children all crash exits with 0.

The modules state more of the documentation's sentences that do not hold. They
have no run of their own; with the definition as an invariant of the
configuration named, TLC shows a behaviour.

| Definition | Configuration | What happens |
|---|---|---|
| `LocalRun!DroppedNodeIsSilent` | `MCLocalRun.cfg` | a node dropped by the scenario still proposes when the rotation elects it |
| `LocalRun!ReceiptVerifies` | `MCLocalRun.cfg` with `SigningKeys = {}` | the loader accepts a signing secret without a public key in the topology; the run finalizes with a receipt the verifier rejects |
| `Cluster!FinalizedHasReceipt` | `MCClusterAgreement.cfg` | a process whose receipt phase times out reports `finalized` without a receipt; its own verifier report says so |
| `Cluster!NoncePerRun` | `MCClusterRestarts.cfg` | the salt is a constant and the run id never enters the nonce, so two sessions send the same hashes |
| `Bundle!VerifyFindsSnapshot` | `MCBundleInspect.cfg` | between the removal of the old bundle and the writing of the new one `verify` finds no completed session |
| `Bundle!RunIdsDistinct` | `MCBundle.cfg` with the persistent node's setting only | a restarted persistent node counts its sessions from 0 again |
| `Orchestrator!OkMeansNoCrash` | `Orchestrator.cfg` | `overall_ok` tolerates one crashed child |
| `Orchestrator!RejoinIsDone` | `Orchestrator.cfg` | the loop ends with the rejoin still scheduled when the other children finish first |

## Proofs

Every theorem holds for every value of the constants that satisfies the named
assumptions of the modules it extends; the runs check the same definitions on
their instances.

| Module | Theorems | Property of a run |
|---|---|---|
| `RoundMachineProofs` | `TypeCorrect`, `ReplayNeverAccepted`, `ProposalsAreSound`, `RoundsNeverGoBack`, `AcceptedStaysAccepted`, `HistoryOnlyGrows`, `HistoryIsTrue` | `TypeOK`, `ReplaySafe`, `ProposalSound`, `RoundsAscend`, `AcceptedIsFinal`, `HistoryIsAppendOnly`, `HistoryIsExact` |
| `LocalRunProofs` | `LogAndMachineAgree`, `RunsLeaveValidLogs`, `RunsEndAsExpected`, `RunImplementsCoordination`, `AttacksAreNamed`, `FirstChanceIsTaken` | `LogMirrorsMachine`, `LogVerifies`, `OutcomeAsExpected`, `ImplementsCoordination`, `AttacksLeaveTrace`; the last one is about the abstract protocol |
| `DamagedLogProofs` | `OutcomesAreNotForged`, `EvidenceIsNotForged` | `VerifiedOutcomeIsTrue`, `VerifiedEvidenceIsTrue` |
| `ClusterProofs` | `ClusterTypeCorrect`, `ProcessesNeverDisagreeWithTheirLogs`, `LogsLackAtMostTheReceipt`, `ProposalsOfASessionAgree`, `FinalizingIsNeverUnilateral`, `FinalizingTakesConsent`, `ProcessesInStepDoAsTheScenario`, `ProcessesImplementCoordination` | `TypeOK`, `ProcessesStayCoherent`, `OnlyReceiptCanBeMissing`, `ProposalsAgree`, `FinalizedNeedsBothParties`, `FinalizedOnConsent`, `InStepOutcome`, `ProcessesCoordinate` |
| `BundleProofs` | `BundleTypeCorrect`, `SessionsAreNeverRefused`, `EvidenceIsNeverMixed`, `UndisturbedVerifyRepairs`, `SnapshotIsExact`, `RotationLosesNothing`, `NotesSurvive` | `TypeOK`, `NextSessionNotRefused`, `EvidenceIsOfOneSession`, `VerifyRepairs`, `LatestSnapshotIsExact`, `CompletedRunsAreKept`; the last one, about the operator's own files, is only proved |
| `OrchestratorProofs` | `TypeCorrect`, `OneProcessPerAlias`, `NobodyLeftBehind`, `ExitZeroIsEarned` | `TypeOK`, `SoleInstance`, `NoOrphans`, `SuccessIsEarned` |
| `LoaderProofs` | `LoadedTopologyIsSound`, `LoadedFilesAgree`, `LoadedIsCommittable` | `TopologyIsSound`, `FilesAgree`, `OnlySizeStopsCommit` |

`RuntimeProofs` holds the lemmas about one runtime that `LocalRunProofs` and
`ClusterProofs` share: what it keeps true whatever arrives, what a round comes to
when its messages arrive, and what the end of a phase means to `Coordination`.

### Assumptions

- `Topology`: provider ids are ascending naturals different from the
  requester's, and claims are non-empty tags. It is what `from_raw` guarantees;
  `LoadedTopologyIsSound` proves it of the loader.
- `NoneAssumption`, `RecordsAssumption`: `Option::None` is not a record.
  `FileStates`: the two states of a file without content are not contents.
  `HexesAssumption`: the hash type holds the hashes of the run. All three say
  that the data of the models are what they stand for.
- `InputAssumption`, `ScenariosAssumption`, `ClusterAssumption`,
  `BundleAssumption`, `OrchestratorAssumption`, `LoaderAssumption`: inputs are
  well typed, bounds are numbers, a versioned directory is not one that `verify`
  overlaps with.

Two hypotheses are of single theorems:

- `KeysMatch` (the nodes that sign with ed25519 are those the topology has a
  public key for) in the theorems that runs leave valid logs. Without it they
  are false: the loader lets a secret without a public key through
  (`ReceiptVerifies` below the runs). `EvidenceIsNotForged` needs it too: when a
  run signs with the wrong scheme, the receipt that would verify is another one
  than the run's. `OutcomesAreNotForged` does without; it speaks of the
  `finalized` flag and, for finalized logs, of round and provider, not of receipts
  nor of an aborted log's `final_round`, which can be raised unnoticed.
- `OneLife` (one session, no kills) in `ProposalsAgree`,
  `FinalizedNeedsBothParties` and `ProcessesCoordinate`. Messages carry no
  session, and a process that starts over may derive another candidate for a
  round number it has used, so the argument by message contents does not carry
  over; and a process that starts over begins a new run of `Coordination`.
  `FinalizedNeedsBothParties` is false without it; `FinalizedOnConsent` is what
  remains, and `FinalizingTakesConsent` proves it for any number of sessions,
  kills and providers.

### Arguments

**Round machine.** `ReplaySafe` is not inductive: that the new hash is not in
`history_hex` says nothing about old rounds unless `history_hex` covers every
accepted hash of every round (`HistoryCovers`). `ProposalSound` is not
inductive either: `accept_proposal` compares an annotation and needs to know
that the stored commitments have their nodes' roles and the active round
(`ActiveBound`) to conclude the predicate. `IndInv` adds these two, and that
nothing else is in the history (`HistoryIsEarned`).
`StepCases` reduces any step to a stutter, an accepted commitment, an accepted
proposal or a closed round, using the check lemmas `CommitmentChecks` and
`ProposalChecks`; `IndInsert`, `IndPropose` and `IndClose` show that each
preserves `IndInv`.

**One runtime.** `RtInv` holds of a runtime whatever well-typed messages it is
given, in whatever order, and whenever its phases end: the proof never looks at
the transport. It ties the log to the machine (`CommitmentsCoherent`,
`ProposalsCoherent`), every logged proposal to logged commitments (`Grounded`),
every proof to a logged hash (`ProofsGrounded`), and the position in
`run_one_round` to what has been established on the way there
(`PhaseCoherent`). "The log mirrors the machine" is not inductive without the
last two: the final round is logged from the proposal of the machine, which is
only known to be backed by proofs because the receipt phase is entered after
`has_req_proof && has_prov_proof`. There is a lemma per drain (`Drain...Keeps`)
and per end of a phase (`End...Sound`), and `DoneVerifies`: a finished log under
`RtInv` has no reason but `missing_completion_receipt`.

**In-process run.** `LocalInv` adds the bus. As it loses nothing, what the drain
loops hold when it is empty can be computed from the scenario: at every point of
a phase, each message of the phase is still on the bus or has had its effect
(`AtCommit`, `AtProposal`, `AtProof`, `AtReceipt`), the history holds exactly the
hashes of those who spoke (`HistoryIsKnown`), a replay is always one of these
(`ReplaysAreOld`), and the rounds behind had no chance
(`EarlierRoundsFailed`). So the end of each phase takes the branch that
`RoundSucceeds` says, which gives the outcome and, step by step, the refinement
of `Coordination`: a drain stutters, a fallback is `FallBack`, the end of the
receipt phase is `Finalize` with the lowest claimant that speaks.

That every attack is named on the log (`AttacksAreNamed`) needs a second
invariant, `Traced`, next to `LocalInv`. It says of each kind of event that from
the start of its round the log names it or the bus still holds the message that
will be refused, and in which order: a replay is ahead of the node's own
commitment (`ReplayComing`; behind it, `insert_commitment` would call it a
duplicate), a second copy is behind the first (`CopyComing`), a sabotaged proof
follows a logged proposal (`ProofComing`). The order comes from `AgentMessages`
through the concatenation over the nodes (`AgentOrders`, `BeginOrders`, and the
lemmas on `FlattenSeq`), and every drain keeps it (`TailOrders`). That a replay
has something to replay is `SpokenKept`. The proof also corrected the property:
with an empty budget no round is run while `final_round` is 0, so an event of
round 0 leaves nothing; `WentThrough` says which rounds were run.

That a run finalizes in its first chance (`FirstChance` of `Coordination`) follows
from `EarlierRoundsFailed`: a finished run has passed every round before its last
one with nothing on their agenda.

**Damaged logs.** The verifier compares records of one log with each other, so
the proof must show that each record is fixed by another one. First, what a
finished run leaves is exact (`Exact`): one commitment per speaking node, one
proposal, in the last round proofs of the matched pair only and one each
(`OneProofEach`), at most one receipt. `VerifiedMeans` turns an empty report into
the checks behind it, and `DamagedParts` says that one part of the log is damaged
and the others are as the run left them (`OnlyTouched`). Then case by case: a
changed outcome contradicts the receipt, which carries the final round and the
provider a second time, or its absence; a changed proposal contradicts the
rotation, the requester's commitment, the receipt's provider or what the provider
signed; a changed commitment contradicts the proof over its hash; a changed proof
contradicts the commitment, and a lost one is missed by the `HasProof` checks of
both parties; a changed receipt contradicts its signature. What may be doubled is
a record that does not count twice.

**Cluster.** `ClusterInv` is `RtInv` for every process and types for the order,
so three theorems follow from `RuntimeProofs` under any interleaving.
Agreement needs the order of messages: `EvidenceInv` says that a proposal for a
round in the order was broadcast by its one proposer, once, that whatever a log
holds was in the order, and that a proof was sent only by a node whose own log
holds the proposal.

Over sessions and restarts logs are thrown away and only the order stays, so
`ConsentInv` speaks of the order: what any log or machine holds was sent
(`OnlySent`), proofs are sent by the node they name (`Names`), and before each of
them a proposal that names it (`Foretold`). `Willing` says what a broadcast must
fulfil for this to stay true, and `EndPhaseIsWilling` that every phase end does.

`InStepOutcome` compares processes that move at their own pace, and it claims
nothing of a run in which a message was late. Its invariant, `KeptStep`, says
what it is to keep step while it is `Calm` (no fault, dead worker or kill so
far). Which phases of which rounds are entered (`Held`), what every node
broadcasts in them (`Due`), and what else may arrive there, a second copy or a
replay (`Fit`), is computed from the scenario. Then `InStep` relates stages,
order, positions and what was heard: no message is ahead of its sender; stages
never fall along the order; a process has read everything of the stages behind
it and nothing beyond its own; nobody is two held stages ahead of another; who
reached a stage has sent what is due there; and what is due in its stage a
process has heard, has before it, or nobody has sent yet. `ReadInStep` and
`AdvanceInStep` prove that a message read in time and a move to a later stage
keep this, for any stages and messages; `Steady` says what a runtime has heard
means for it, so that the end of a phase with everything heard (`AllHeard`) takes
the branch that the scenario says (`SteadyEnd`). The two meet in `TimelyHears`: a
phase that ends with nothing unread and nobody behind has heard all. The lemmas
on what an offer, a proposal, a proof and the end of each phase do to a round
are those of the in-process run, which is why they stand in `RuntimeProofs`.
Sessions add to the stages only, so that the theorem covers any number of them.

`ProcessesCoordinate` then takes one step at a time. Under any timing a step of a
process leaves its round, ends a phase, or ends the run (`EveryProcessMoves`;
a process that fails with its worker stays in its round), and `RtInv` makes this a
step of `Coordination` with any provider that claims the capability
(`MovesCoordinate`). Where no fault may happen the cluster stays calm
(`FaultlessStep`), so that the processes are `Steady` before and after, and the
step is that of the scenario's agenda (`SteadyRefines`, `EndPhaseRefines`).

**Bundle.** What a crash leaves depends on how far the writer was. The steps of
`persist_bundle` have a `Rank`, and a script is sorted by it, so the set of
steps that are left (`Pending`) is always an end of the script (`Tails`) and says
of every file how far it is (`FileAt`): not cleaned, absent, torn, or of the
current session. From it: the log is absent when it is due (no refusal), before
the last removal the evidence is of one old run and after it of the new one
(`OneRun`), and when nothing is left the bundle is exact. `Near` is the exact
bundle but for the file that `verify` has open, `VerifierInv` says what an
undisturbed `verify` has read and written so far, `LatestInv` and `KeptInv`
where completed runs are.

**Orchestrator.** `SoleInstance` alone is not inductive. A second process of an
alias is only spawned for the target, after its kill (`SecondNeedsKill`), and
replaces the dead handle (`RejoinReplacesDead`); that nobody is left behind
needs that whoever runs has a handle (`RunningIsTracked`), and that a child's
status stems from its own bundle when the directory was empty
(`StatusIsOfThisRun`).

**Loader.** `LoaderInv` says of the entries read so far what the two loops have
checked (`NodesSound`, `AgentsMatch`) and of the phases what the checks at the
ends of the loops have established; that every node has its agent follows by
counting.

### Only model-checked

- Liveness (`Terminates`, `EveryProcessEnds`, `AlwaysReturns`): outside what the
  prover does.
- What violates an expected violation is a behaviour; there is nothing to prove.

## Not modelled

- TOML and JSON syntax, argument parsing, output and redaction of error texts:
  parsing is one value, `Bad` or `Torn`, in the models.
- blake2s, ed25519 and the byte layout of preimages and public inputs: functions
  without state, taken to be injective or sound.
- The Noir circuits and the calls to external provers: arithmetic constraints,
  not behaviour. The runtime only carries their public inputs, which are
  modelled.
- The parity fixtures: test data.
- The tashi-vertex engine: external, represented by the one order it gives.
