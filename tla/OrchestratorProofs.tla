------------------------ MODULE OrchestratorProofs --------------------------
(***************************************************************************)
(* demo-bft's supervision of its children, for every number of nodes and   *)
(* rounds, every failure injection, and whatever the children do.          *)
(***************************************************************************)
EXTENDS Orchestrator, FiniteSetTheorems, TLAPS

-----------------------------------------------------------------------------
(* The inductive invariant.                                                *)

Hows == {"running", "spawn_error", "timeout", "summary"}

OrchestratorType ==
    /\ args \in [fail_at_round : FailAt, fail_target : FailTargets, rejoin : Rejoin]
    /\ pc \in {"spawn", "top", "recv", "summary", "exited"}
    /\ children \in SUBSET Aliases
    /\ spawned \in [Aliases -> 0..2]
    /\ live \in [Aliases -> SUBSET (1..2)]
    /\ committed \in [Aliases -> 0..MaxRounds]
    /\ killed_once \in BOOLEAN
    /\ rejoin_spawn_at \in {"none", "set", "due"}
    /\ status \in [Aliases -> Statuses]
    /\ result \in [how : Hows, code : 0..2]
    /\ bundled \in SUBSET Aliases

\* While the first loop of run_orchestrator runs, the map holds a prefix of the
\* topology, each spawned once, and nothing has been killed.
Spawning ==
    pc = "spawn" =>
        /\ ~killed_once
        /\ \E k \in 0..(N - 1) : children = 1..k
        /\ \A a \in Aliases : spawned[a] = IF a \in children THEN 1 ELSE 0

\* Only the instance the handle stands for runs.
LastInstanceOnly == \A a \in Aliases : live[a] \subseteq {spawned[a]}

\* A running child is in the map: the kill at the deadline reaches it.
RunningIsTracked == \A a \in Aliases : live[a] # {} => a \in children

\* A second instance needs the one kill, and the rejoin it scheduled.
SecondNeedsKill ==
    \A a \in Aliases : spawned[a] = 2 =>
        killed_once /\ a = args.fail_target /\ rejoin_spawn_at = "none"

\* While a rejoin is pending, the child it replaces stays dead.
RejoinReplacesDead ==
    rejoin_spawn_at # "none" =>
        /\ killed_once
        /\ args.fail_target \in Aliases
        /\ live[args.fail_target] = {}

\* The result is set when the function returns, and the summary is made only
\* when the map is empty.
ResultOnExit ==
    /\ result.how # "running" <=> pc = "exited"
    /\ pc = "summary" => children = {}

\* A status file is of this run when there was none to begin with.
StatusIsOfThisRun ==
    Stale = {"none"} => \A a \in Aliases : status[a] # "none" => a \in bundled

OrchestratorInv ==
    /\ OrchestratorType /\ Spawning /\ LastInstanceOnly /\ RunningIsTracked
    /\ SecondNeedsKill /\ RejoinReplacesDead /\ ResultOnExit /\ StatusIsOfThisRun
    /\ NoOrphans /\ SuccessIsEarned

-----------------------------------------------------------------------------
(* The children and the clock.                                             *)

\* The program starts in the invariant.
LEMMA InitOrchestrator == Init => OrchestratorInv
<1> SUFFICES ASSUME Init PROVE OrchestratorInv
  OBVIOUS
<1> USE DEF Init
<1>1. OrchestratorType
  <2>1. status \in [Aliases -> Statuses]
    BY OrchestratorAssumption DEF OrchestratorAssumption
  <2>2. /\ spawned \in [Aliases -> 0..2]
        /\ live \in [Aliases -> SUBSET (1..2)]
        /\ committed \in [Aliases -> 0..MaxRounds]
    BY OrchestratorAssumption DEF OrchestratorAssumption
  <2>3. result \in [how : Hows, code : 0..2]
    BY DEF Running, Hows
  <2> QED  BY <2>1, <2>2, <2>3 DEF OrchestratorType
<1>2. Spawning
  <2>1. 0 \in 0..(N - 1) /\ children = 1..0
    BY OrchestratorAssumption DEF OrchestratorAssumption
  <2> QED  BY <2>1 DEF Spawning
<1>3. LastInstanceOnly
  BY DEF LastInstanceOnly
<1>4. RunningIsTracked
  BY DEF RunningIsTracked
<1>5. SecondNeedsKill
  BY DEF SecondNeedsKill
<1>6. RejoinReplacesDead
  BY DEF RejoinReplacesDead
<1>7. ResultOnExit
  BY DEF ResultOnExit, Running
<1>8. StatusIsOfThisRun
  BY DEF StatusIsOfThisRun
<1>9. NoOrphans
  BY DEF NoOrphans, Running
<1>10. SuccessIsEarned
  BY DEF SuccessIsEarned, Running
<1> QED  BY <1>1, <1>2, <1>3, <1>4, <1>5, <1>6, <1>7, <1>8, <1>9, <1>10 DEF OrchestratorInv

\* A child that commits a round keeps the invariant.
LEMMA ChildCommitsInv ==
    ASSUME OrchestratorInv, NEW a \in Aliases, ChildCommits(a) PROVE OrchestratorInv'
<1>1. OrchestratorType'
  BY OrchestratorAssumption
  DEF OrchestratorAssumption, OrchestratorInv, OrchestratorType, ChildCommits, env, Alive
<1>2. Spawning'
  BY DEF OrchestratorInv, OrchestratorType, Spawning, ChildCommits, env, Alive
<1>3. LastInstanceOnly'
  BY DEF OrchestratorInv, OrchestratorType, LastInstanceOnly, ChildCommits, env, Alive
<1>4. RunningIsTracked'
  BY DEF OrchestratorInv, OrchestratorType, RunningIsTracked, ChildCommits, env, Alive
<1>5. SecondNeedsKill'
  BY DEF OrchestratorInv, OrchestratorType, SecondNeedsKill, ChildCommits, env, Alive
<1>6. RejoinReplacesDead'
  BY DEF OrchestratorInv, OrchestratorType, RejoinReplacesDead, ChildCommits, env, Alive
<1>7. ResultOnExit'
  BY DEF OrchestratorInv, OrchestratorType, ResultOnExit, ChildCommits, env, Alive
<1>8. StatusIsOfThisRun'
  BY DEF OrchestratorInv, OrchestratorType, StatusIsOfThisRun, ChildCommits, env, Alive
<1>9. NoOrphans'
  BY DEF OrchestratorInv, ResultOnExit, NoOrphans, ChildCommits, env, Alive
<1>10. SuccessIsEarned'
  BY DEF OrchestratorInv, ResultOnExit, SuccessIsEarned, ChildCommits, env, Alive
<1> QED  BY <1>1, <1>2, <1>3, <1>4, <1>5, <1>6, <1>7, <1>8, <1>9, <1>10 DEF OrchestratorInv

\* A child that completes its bundle and exits keeps the invariant.
LEMMA ChildEndsInv ==
    ASSUME OrchestratorInv, NEW a \in Aliases, NEW st \in {"finalized", "aborted"}, NEW valid \in BOOLEAN,
           ChildEnds(a, st, valid) PROVE OrchestratorInv'
<1>1. OrchestratorType'
  BY DEF OrchestratorInv, OrchestratorType, ChildEnds, Alive, Statuses
<1>2. Spawning'
  BY DEF OrchestratorInv, OrchestratorType, Spawning, ChildEnds, Alive
<1>3. LastInstanceOnly'
  BY DEF OrchestratorInv, OrchestratorType, LastInstanceOnly, ChildEnds, Alive
<1>4. RunningIsTracked'
  BY DEF OrchestratorInv, OrchestratorType, RunningIsTracked, ChildEnds, Alive
<1>5. SecondNeedsKill'
  BY DEF OrchestratorInv, OrchestratorType, SecondNeedsKill, ChildEnds, Alive
<1>6. RejoinReplacesDead'
  BY DEF OrchestratorInv, OrchestratorType, RejoinReplacesDead, ChildEnds, Alive
<1>7. ResultOnExit'
  BY DEF OrchestratorInv, OrchestratorType, ResultOnExit, ChildEnds, Alive
<1>8. StatusIsOfThisRun'
  BY DEF OrchestratorInv, OrchestratorType, StatusIsOfThisRun, ChildEnds, Alive
<1>9. NoOrphans'
  BY DEF OrchestratorInv, ResultOnExit, NoOrphans, ChildEnds, Alive
<1>10. SuccessIsEarned'
  BY DEF OrchestratorInv, ResultOnExit, SuccessIsEarned, ChildEnds, Alive
<1> QED  BY <1>1, <1>2, <1>3, <1>4, <1>5, <1>6, <1>7, <1>8, <1>9, <1>10 DEF OrchestratorInv

\* A child that fails keeps the invariant, whatever it leaves of its bundle.
LEMMA ChildFailsInv ==
    ASSUME OrchestratorInv, NEW a \in Aliases, ChildFails(a) PROVE OrchestratorInv'
<1>1. OrchestratorType'
  BY DEF OrchestratorInv, OrchestratorType, ChildFails, Alive, Statuses
<1>2. Spawning'
  BY DEF OrchestratorInv, OrchestratorType, Spawning, ChildFails, Alive
<1>3. LastInstanceOnly'
  BY DEF OrchestratorInv, OrchestratorType, LastInstanceOnly, ChildFails, Alive
<1>4. RunningIsTracked'
  BY DEF OrchestratorInv, OrchestratorType, RunningIsTracked, ChildFails, Alive
<1>5. SecondNeedsKill'
  BY DEF OrchestratorInv, OrchestratorType, SecondNeedsKill, ChildFails, Alive
<1>6. RejoinReplacesDead'
  BY DEF OrchestratorInv, OrchestratorType, RejoinReplacesDead, ChildFails, Alive
<1>7. ResultOnExit'
  BY DEF OrchestratorInv, OrchestratorType, ResultOnExit, ChildFails, Alive
<1>8. StatusIsOfThisRun'
  BY DEF OrchestratorInv, OrchestratorType, StatusIsOfThisRun, ChildFails, Alive
<1>9. NoOrphans'
  BY DEF OrchestratorInv, ResultOnExit, NoOrphans, ChildFails, Alive
<1>10. SuccessIsEarned'
  BY DEF OrchestratorInv, ResultOnExit, SuccessIsEarned, ChildFails, Alive
<1> QED  BY <1>1, <1>2, <1>3, <1>4, <1>5, <1>6, <1>7, <1>8, <1>9, <1>10 DEF OrchestratorInv

\* The passing of the deadline keeps the invariant.
LEMMA DeadlinePassesInv ==
    ASSUME OrchestratorInv, DeadlinePasses PROVE OrchestratorInv'
<1>1. OrchestratorType'
  BY DEF OrchestratorInv, OrchestratorType, DeadlinePasses, env
<1>2. Spawning'
  BY DEF OrchestratorInv, OrchestratorType, Spawning, DeadlinePasses, env
<1>3. LastInstanceOnly'
  BY DEF OrchestratorInv, OrchestratorType, LastInstanceOnly, DeadlinePasses, env
<1>4. RunningIsTracked'
  BY DEF OrchestratorInv, OrchestratorType, RunningIsTracked, DeadlinePasses, env
<1>5. SecondNeedsKill'
  BY DEF OrchestratorInv, OrchestratorType, SecondNeedsKill, DeadlinePasses, env
<1>6. RejoinReplacesDead'
  BY DEF OrchestratorInv, OrchestratorType, RejoinReplacesDead, DeadlinePasses, env
<1>7. ResultOnExit'
  BY DEF OrchestratorInv, OrchestratorType, ResultOnExit, DeadlinePasses, env
<1>8. StatusIsOfThisRun'
  BY DEF OrchestratorInv, OrchestratorType, StatusIsOfThisRun, DeadlinePasses, env
<1>9. NoOrphans'
  BY DEF OrchestratorInv, ResultOnExit, NoOrphans, DeadlinePasses, env
<1>10. SuccessIsEarned'
  BY DEF OrchestratorInv, ResultOnExit, SuccessIsEarned, DeadlinePasses, env
<1> QED  BY <1>1, <1>2, <1>3, <1>4, <1>5, <1>6, <1>7, <1>8, <1>9, <1>10 DEF OrchestratorInv

\* A rejoin that falls due keeps the invariant.
LEMMA RejoinFallsDueInv ==
    ASSUME OrchestratorInv, RejoinFallsDue PROVE OrchestratorInv'
<1>1. OrchestratorType'
  BY DEF OrchestratorInv, OrchestratorType, RejoinFallsDue, env
<1>2. Spawning'
  BY DEF OrchestratorInv, OrchestratorType, Spawning, RejoinFallsDue, env
<1>3. LastInstanceOnly'
  BY DEF OrchestratorInv, OrchestratorType, LastInstanceOnly, RejoinFallsDue, env
<1>4. RunningIsTracked'
  BY DEF OrchestratorInv, OrchestratorType, RunningIsTracked, RejoinFallsDue, env
<1>5. SecondNeedsKill'
  BY DEF OrchestratorInv, OrchestratorType, SecondNeedsKill, RejoinFallsDue, env
<1>6. RejoinReplacesDead'
  BY DEF OrchestratorInv, OrchestratorType, RejoinReplacesDead, RejoinFallsDue, env
<1>7. ResultOnExit'
  BY DEF OrchestratorInv, OrchestratorType, ResultOnExit, RejoinFallsDue, env
<1>8. StatusIsOfThisRun'
  BY DEF OrchestratorInv, OrchestratorType, StatusIsOfThisRun, RejoinFallsDue, env
<1>9. NoOrphans'
  BY DEF OrchestratorInv, ResultOnExit, NoOrphans, RejoinFallsDue, env
<1>10. SuccessIsEarned'
  BY DEF OrchestratorInv, ResultOnExit, SuccessIsEarned, RejoinFallsDue, env
<1> QED  BY <1>1, <1>2, <1>3, <1>4, <1>5, <1>6, <1>7, <1>8, <1>9, <1>10 DEF OrchestratorInv

-----------------------------------------------------------------------------
(* run_orchestrator                                                        *)

\* Killing what the map holds at the deadline leaves nobody running.
LEMMA DeadlineInv ==
    ASSUME OrchestratorInv, Deadline PROVE OrchestratorInv'
<1>1. OrchestratorType'
  BY DEF OrchestratorInv, OrchestratorType, Deadline, env, Return, Hows
<1>2. Spawning'
  BY DEF OrchestratorInv, OrchestratorType, Spawning, Deadline, env, Return
<1>3. LastInstanceOnly'
  BY DEF OrchestratorInv, OrchestratorType, LastInstanceOnly, Deadline, env, Return
<1>4. RunningIsTracked'
  BY DEF OrchestratorInv, OrchestratorType, RunningIsTracked, Deadline, env, Return
<1>5. SecondNeedsKill'
  BY DEF OrchestratorInv, OrchestratorType, SecondNeedsKill, Deadline, env, Return
<1>6. RejoinReplacesDead'
  BY DEF OrchestratorInv, OrchestratorType, RejoinReplacesDead, Deadline, env, Return
<1>7. ResultOnExit'
  BY DEF OrchestratorInv, OrchestratorType, ResultOnExit, Deadline, env, Return
<1>8. StatusIsOfThisRun'
  BY DEF OrchestratorInv, OrchestratorType, StatusIsOfThisRun, Deadline, env, Return
<1>9. NoOrphans'
  BY DEF OrchestratorInv, ResultOnExit, NoOrphans, Deadline, env, Return, LastInstanceOnly, RunningIsTracked
<1>10. SuccessIsEarned'
  BY DEF OrchestratorInv, ResultOnExit, SuccessIsEarned, Deadline, env, Return
<1> QED  BY <1>1, <1>2, <1>3, <1>4, <1>5, <1>6, <1>7, <1>8, <1>9, <1>10 DEF OrchestratorInv

\* The line that triggers the kill is used once; every other line has no
\* effect.
LEMMA RecvLineInv ==
    ASSUME OrchestratorInv, NEW line \in lines, RecvLine(line) PROVE OrchestratorInv'
<1>1. OrchestratorType'
  <2>1. CASE Triggers(line)
    <3>1. Kill(args.fail_target) /\ args.fail_target \in children
      BY <2>1 DEF RecvLine, Triggers
    <3>2. live' \in [Aliases -> SUBSET (1..2)] /\ status' \in [Aliases -> Statuses]
      BY <3>1 DEF Kill, OrchestratorInv, OrchestratorType, Statuses
    <3> QED  BY <2>1, <3>2 DEF RecvLine, OrchestratorInv, OrchestratorType
  <2>2. CASE ~Triggers(line)
    BY <2>2 DEF RecvLine, OrchestratorInv, OrchestratorType
  <2> QED  BY <2>1, <2>2
<1>2. Spawning'
  BY DEF OrchestratorInv, OrchestratorType, Spawning, RecvLine, Triggers, Kill
<1>3. LastInstanceOnly'
  BY DEF OrchestratorInv, OrchestratorType, LastInstanceOnly, RecvLine, Triggers, Kill
<1>4. RunningIsTracked'
  BY DEF OrchestratorInv, OrchestratorType, RunningIsTracked, RecvLine, Triggers, Kill
<1>5. SecondNeedsKill'
  BY DEF OrchestratorInv, OrchestratorType, SecondNeedsKill, RecvLine, Triggers, Kill, RejoinReplacesDead
<1>6. RejoinReplacesDead'
  BY DEF OrchestratorInv, OrchestratorType, RejoinReplacesDead, RecvLine, Triggers, Kill, LastInstanceOnly
<1>7. ResultOnExit'
  BY DEF OrchestratorInv, OrchestratorType, ResultOnExit, RecvLine, Triggers, Kill
<1>8. StatusIsOfThisRun'
  BY DEF OrchestratorInv, OrchestratorType, StatusIsOfThisRun, RecvLine, Triggers, Kill
<1>9. NoOrphans'
  BY DEF OrchestratorInv, ResultOnExit, NoOrphans, RecvLine, Triggers, Kill
<1>10. SuccessIsEarned'
  BY DEF OrchestratorInv, ResultOnExit, SuccessIsEarned, RecvLine, Triggers, Kill
<1> QED  BY <1>1, <1>2, <1>3, <1>4, <1>5, <1>6, <1>7, <1>8, <1>9, <1>10 DEF OrchestratorInv

\* Reaping drops only children whose one instance has ended.
LEMMA RecvTimeoutInv ==
    ASSUME OrchestratorInv, RecvTimeout PROVE OrchestratorInv'
<1>1. OrchestratorType'
  BY DEF OrchestratorInv, OrchestratorType, RecvTimeout, env, Alive
<1>2. Spawning'
  BY DEF OrchestratorInv, OrchestratorType, Spawning, RecvTimeout, env, Alive
<1>3. LastInstanceOnly'
  BY DEF OrchestratorInv, OrchestratorType, LastInstanceOnly, RecvTimeout, env, Alive
<1>4. RunningIsTracked'
  BY DEF OrchestratorInv, OrchestratorType, RunningIsTracked, RecvTimeout, env, Alive, LastInstanceOnly
<1>5. SecondNeedsKill'
  BY DEF OrchestratorInv, OrchestratorType, SecondNeedsKill, RecvTimeout, env, Alive
<1>6. RejoinReplacesDead'
  BY DEF OrchestratorInv, OrchestratorType, RejoinReplacesDead, RecvTimeout, env, Alive
<1>7. ResultOnExit'
  BY DEF OrchestratorInv, OrchestratorType, ResultOnExit, RecvTimeout, env, Alive
<1>8. StatusIsOfThisRun'
  BY DEF OrchestratorInv, OrchestratorType, StatusIsOfThisRun, RecvTimeout, env, Alive
<1>9. NoOrphans'
  BY DEF OrchestratorInv, ResultOnExit, NoOrphans, RecvTimeout, env, Alive
<1>10. SuccessIsEarned'
  BY DEF OrchestratorInv, ResultOnExit, SuccessIsEarned, RecvTimeout, env, Alive
<1> QED  BY <1>1, <1>2, <1>3, <1>4, <1>5, <1>6, <1>7, <1>8, <1>9, <1>10 DEF OrchestratorInv

\* Creating a child, for the first time or in place of a dead one.
LEMMA SpawnedInv ==
    ASSUME OrchestratorInv, NEW a \in Aliases, Spawned(a),
           pc # "exited", spawned[a] \in 0..1, live[a] = {},
           UNCHANGED <<args, status, bundled, killed_once>>
    PROVE  /\ children' \in SUBSET Aliases
           /\ spawned' \in [Aliases -> 0..2]
           /\ live' \in [Aliases -> SUBSET (1..2)]
           /\ committed' \in [Aliases -> 0..MaxRounds]
           /\ result' = result
           /\ LastInstanceOnly' /\ RunningIsTracked' /\ StatusIsOfThisRun'
           /\ NoOrphans' /\ SuccessIsEarned'
<1> USE DEF OrchestratorInv, OrchestratorType, Spawned
<1>1. /\ children' \in SUBSET Aliases
      /\ live' \in [Aliases -> SUBSET (1..2)]
      /\ spawned' \in [Aliases -> 0..2]
  OBVIOUS
<1>2. committed' \in [Aliases -> 0..MaxRounds]
  BY OrchestratorAssumption DEF OrchestratorAssumption
<1>3. LastInstanceOnly' /\ RunningIsTracked'
  BY DEF LastInstanceOnly, RunningIsTracked
<1>4. StatusIsOfThisRun' /\ NoOrphans' /\ SuccessIsEarned'
  BY DEF StatusIsOfThisRun, ResultOnExit, NoOrphans, SuccessIsEarned
<1> QED  BY <1>1, <1>2, <1>3, <1>4

\* A spawn that fails ends the program with an error, not with a summary.
LEMMA SpawnFailsInv ==
    ASSUME OrchestratorInv, SpawnFails, rejoin_spawn_at' \in {"none", rejoin_spawn_at},
           UNCHANGED <<args, status, bundled, killed_once>>
    PROVE  OrchestratorInv'
<1> USE DEF OrchestratorInv, OrchestratorType, SpawnFails, Return
<1>1. OrchestratorType'
  BY DEF Hows
<1>2. Spawning' /\ ResultOnExit' /\ NoOrphans' /\ SuccessIsEarned'
  BY <1>1 DEF Spawning, ResultOnExit, NoOrphans, SuccessIsEarned
<1>3. LastInstanceOnly' /\ RunningIsTracked' /\ StatusIsOfThisRun'
  BY DEF LastInstanceOnly, RunningIsTracked, StatusIsOfThisRun
<1>4. SecondNeedsKill' /\ RejoinReplacesDead'
  BY DEF SecondNeedsKill, RejoinReplacesDead
<1> QED  BY <1>1, <1>2, <1>3, <1>4

\* The first loop spawns the children in the order of the topology.
LEMMA SpawnNextInv ==
    ASSUME OrchestratorInv, SpawnNext PROVE OrchestratorInv'
<1> DEFINE a == Cardinality(children) + 1
<1>1. PICK k \in 0..(N - 1) : children = 1..k
  BY DEF OrchestratorInv, Spawning, SpawnNext
<1>2. a = k + 1 /\ a \in Aliases /\ a \notin children
  <2>1. Cardinality(1..k) = IF 1 > k THEN 0 ELSE k - 1 + 1
    BY FS_Interval
  <2> QED  BY <1>1, <2>1, OrchestratorAssumption DEF OrchestratorAssumption, Aliases
<1> HIDE DEF a
<1>3. /\ \/ Spawned(a) /\ pc' = IF a = N THEN "top" ELSE "spawn"
         \/ SpawnFails
      /\ UNCHANGED <<args, status, bundled, killed_once, rejoin_spawn_at>>
      /\ pc = "spawn"
  BY DEF SpawnNext, env, a
<1>4. CASE SpawnFails
  BY <1>3, <1>4, SpawnFailsInv
<1>5. ASSUME Spawned(a), pc' = IF a = N THEN "top" ELSE "spawn" PROVE OrchestratorInv'
  <2>1. spawned[a] = 0 /\ live[a] = {} /\ ~killed_once /\ rejoin_spawn_at = "none"
    BY <1>2, <1>3
    DEF OrchestratorInv, OrchestratorType, Spawning, RunningIsTracked, RejoinReplacesDead
  <2>2. /\ children' \in SUBSET Aliases
        /\ spawned' \in [Aliases -> 0..2]
        /\ live' \in [Aliases -> SUBSET (1..2)]
        /\ committed' \in [Aliases -> 0..MaxRounds]
        /\ result' = result
        /\ LastInstanceOnly' /\ RunningIsTracked' /\ StatusIsOfThisRun'
        /\ NoOrphans' /\ SuccessIsEarned'
    BY <1>2, <1>3, <1>5, <2>1, SpawnedInv
  <2>3. OrchestratorType'
    BY <1>3, <1>5, <2>2 DEF OrchestratorInv, OrchestratorType
  <2>4. Spawning'
    <3>1. \A b \in Aliases : spawned'[b] = IF b \in children' THEN 1 ELSE 0
      BY <1>2, <1>3, <1>5, <2>1 DEF OrchestratorInv, OrchestratorType, Spawning, Spawned
    <3>2. children' = 1..(k + 1)
      BY <1>1, <1>2, <1>5 DEF Spawned
    <3>3. pc' = "spawn" => k + 1 \in 0..(N - 1)
      BY <1>2, <1>5, OrchestratorAssumption DEF OrchestratorAssumption
    <3> QED  BY <1>3, <2>1, <3>1, <3>2, <3>3 DEF Spawning
  <2>5. SecondNeedsKill' /\ RejoinReplacesDead'
    BY <1>2, <1>3, <1>5, <2>1
    DEF OrchestratorInv, OrchestratorType, SecondNeedsKill, RejoinReplacesDead, Spawned
  <2>6. ResultOnExit'
    BY <1>3, <1>5, <2>2 DEF OrchestratorInv, ResultOnExit
  <2> QED  BY <2>2, <2>3, <2>4, <2>5, <2>6 DEF OrchestratorInv
<1> QED  BY <1>3, <1>4, <1>5

\* A rejoin that is due is carried out once, and only in place of the child
\* that was killed.
LEMMA LoopTopInv ==
    ASSUME OrchestratorInv, LoopTop PROVE OrchestratorInv'
<1> DEFINE a == args.fail_target
<1>1. /\ pc = "top"
      /\ UNCHANGED <<args, status, bundled, killed_once>>
  BY DEF LoopTop, env
<1>2. ASSUME rejoin_spawn_at = "due", rejoin_spawn_at' = "none", Spawned(a), pc' = "recv"
      PROVE  OrchestratorInv'
  <2>1. a \in Aliases /\ killed_once /\ spawned[a] \in 0..1 /\ live[a] = {}
    BY <1>2 DEF OrchestratorInv, OrchestratorType, RejoinReplacesDead, SecondNeedsKill
  <2> HIDE DEF a
  <2>2. /\ children' \in SUBSET Aliases
        /\ spawned' \in [Aliases -> 0..2]
        /\ live' \in [Aliases -> SUBSET (1..2)]
        /\ committed' \in [Aliases -> 0..MaxRounds]
        /\ result' = result
        /\ LastInstanceOnly' /\ RunningIsTracked' /\ StatusIsOfThisRun'
        /\ NoOrphans' /\ SuccessIsEarned'
    BY <1>1, <1>2, <2>1, SpawnedInv
  <2>3. OrchestratorType'
    BY <1>1, <1>2, <2>2 DEF OrchestratorInv, OrchestratorType
  <2>4. Spawning' /\ ResultOnExit' /\ RejoinReplacesDead'
    BY <1>1, <1>2, <2>2 DEF OrchestratorInv, Spawning, ResultOnExit, RejoinReplacesDead
  <2>5. SecondNeedsKill'
    BY <1>1, <1>2, <2>1
    DEF a, OrchestratorInv, OrchestratorType, SecondNeedsKill, Spawned
  <2> QED  BY <2>2, <2>3, <2>4, <2>5 DEF OrchestratorInv
<1>3. ASSUME rejoin_spawn_at' = "none", SpawnFails PROVE OrchestratorInv'
  BY <1>1, <1>3, SpawnFailsInv
<1>4. ASSUME pc' = "recv",
             UNCHANGED <<rejoin_spawn_at, spawned, live, committed, children, result>>
      PROVE  OrchestratorInv'
  <2> USE <1>1, <1>4 DEF OrchestratorInv
  <2>1. OrchestratorType'
    BY DEF OrchestratorType
  <2>2. Spawning' /\ LastInstanceOnly' /\ RunningIsTracked'
    BY DEF Spawning, LastInstanceOnly, RunningIsTracked
  <2>3. SecondNeedsKill' /\ RejoinReplacesDead' /\ ResultOnExit' /\ StatusIsOfThisRun'
    BY DEF SecondNeedsKill, RejoinReplacesDead, ResultOnExit, StatusIsOfThisRun
  <2>4. NoOrphans' /\ SuccessIsEarned'
    BY DEF NoOrphans, SuccessIsEarned
  <2> QED  BY <2>1, <2>2, <2>3, <2>4
<1> QED  BY <1>1, <1>2, <1>3, <1>4 DEF LoopTop

\* A child counts as finalized or as aborted, and with no old bundles in place
\* it is counted only if it completed a bundle in this run.
LEMMA CountsAreEarned ==
    ASSUME OrchestratorInv, Stale = {"none"}
    PROVE  /\ Count("finalized") \in Nat /\ Count("aborted") \in Nat
           /\ Count("finalized") + Count("aborted") <= Cardinality(bundled)
           /\ Count("finalized") # 0 => \E a \in bundled : status[a] = "finalized"
<1> DEFINE F == {a \in Aliases : status[a] = "finalized"}
           A == {a \in Aliases : status[a] = "aborted"}
<1>1. IsFiniteSet(Aliases)
  BY FS_Interval, OrchestratorAssumption DEF OrchestratorAssumption, Aliases
<1>2. F \cup A \subseteq bundled /\ bundled \subseteq Aliases
  BY DEF OrchestratorInv, OrchestratorType, StatusIsOfThisRun
<1>3. /\ IsFiniteSet(F) /\ IsFiniteSet(A) /\ IsFiniteSet(bundled)
      /\ IsFiniteSet(F \cup A)
  BY <1>1, <1>2, FS_Subset
<1>4. F \cap A = {}
  OBVIOUS
<1>5. Cardinality(F \cup A) <= Cardinality(bundled)
  BY <1>2, <1>3, FS_Subset
<1>6. Cardinality(F \cup A) = Cardinality(F) + Cardinality(A) - Cardinality(F \cap A)
  BY <1>3, FS_Union
<1>7. Cardinality(F \cap A) = 0 /\ (F = {} => Cardinality(F) = 0)
  BY <1>4, FS_EmptySet
<1>8. Cardinality(F) \in Nat /\ Cardinality(A) \in Nat /\ Cardinality(bundled) \in Nat
  BY <1>3, FS_CardinalityType
<1>9. Count("finalized") = Cardinality(F) /\ Count("aborted") = Cardinality(A)
  BY DEF Count
<1>10. F # {} => \E a \in bundled : status[a] = "finalized"
  BY <1>2
<1> HIDE DEF F, A
<1> QED  BY <1>5, <1>6, <1>7, <1>8, <1>9, <1>10

\* The summary is made of what the children left, and nobody runs any more.
LEMMA SummaryInv ==
    ASSUME OrchestratorInv, Summary PROVE OrchestratorInv'
<1> DEFINE code == IF ~overall_ok THEN 1 ELSE IF Count("finalized") = 0 THEN 2 ELSE 0
<1>1. /\ pc = "summary" /\ pc' = "exited"
      /\ result' = [how |-> "summary", code |-> code]
      /\ UNCHANGED <<args, status, bundled, children, spawned, live, committed,
                     killed_once, rejoin_spawn_at>>
  BY DEF Summary, Return, env
<1>2. code \in 0..2 /\ (code = 0 => overall_ok /\ Count("finalized") # 0)
  OBVIOUS
<1> HIDE DEF code
<1>3. OrchestratorType'
  BY <1>1, <1>2 DEF OrchestratorInv, OrchestratorType, Hows
<1>4. Spawning' /\ LastInstanceOnly' /\ RunningIsTracked' /\ SecondNeedsKill'
  BY <1>1
  DEF OrchestratorInv, Spawning, LastInstanceOnly, RunningIsTracked, SecondNeedsKill
<1>5. RejoinReplacesDead' /\ ResultOnExit' /\ StatusIsOfThisRun'
  BY <1>1 DEF OrchestratorInv, RejoinReplacesDead, ResultOnExit, StatusIsOfThisRun
<1>6. NoOrphans'
  BY <1>1 DEF OrchestratorInv, ResultOnExit, RunningIsTracked, NoOrphans
<1>7. SuccessIsEarned'
  <2> SUFFICES ASSUME Stale = {"none"}, result'.code = 0
               PROVE  /\ Cardinality(bundled') >= N - 1
                      /\ \E a \in bundled' : status'[a] = "finalized"
    BY DEF SuccessIsEarned
  <2>1. overall_ok /\ Count("finalized") # 0
    BY <1>1, <1>2
  <2>2. Count("finalized") + Count("aborted") >= N - 1
    BY <2>1 DEF overall_ok
  <2>3. IsFiniteSet(bundled)
    <3>1. IsFiniteSet(Aliases)
      BY FS_Interval, OrchestratorAssumption DEF OrchestratorAssumption, Aliases
    <3> QED  BY <3>1, FS_Subset DEF OrchestratorInv, OrchestratorType
  <2>4. Cardinality(bundled) \in Nat
    BY <2>3, FS_CardinalityType
  <2> QED  BY <1>1, <2>1, <2>2, <2>4, CountsAreEarned, OrchestratorAssumption
           DEF OrchestratorAssumption
<1> QED  BY <1>3, <1>4, <1>5, <1>6, <1>7 DEF OrchestratorInv

-----------------------------------------------------------------------------
(* The theorems.                                                           *)

\* Every step of the orchestrator, of a child or of the clock keeps it.
LEMMA StepOrchestrator ==
    ASSUME OrchestratorInv, [Next]_vars PROVE OrchestratorInv'
<1>1. CASE UNCHANGED vars
  <2> USE <1>1 DEF OrchestratorInv, vars
  <2>1. OrchestratorType' /\ Spawning' /\ LastInstanceOnly' /\ RunningIsTracked'
    BY DEF OrchestratorType, Spawning, LastInstanceOnly, RunningIsTracked
  <2>2. SecondNeedsKill' /\ RejoinReplacesDead' /\ ResultOnExit' /\ StatusIsOfThisRun'
    BY DEF SecondNeedsKill, RejoinReplacesDead, ResultOnExit, StatusIsOfThisRun
  <2>3. NoOrphans' /\ SuccessIsEarned'
    BY DEF NoOrphans, SuccessIsEarned
  <2> QED  BY <2>1, <2>2, <2>3
<1>2. CASE Step
  BY <1>2, SpawnNextInv, DeadlineInv, LoopTopInv, RecvLineInv, RecvTimeoutInv, SummaryInv
  DEF Step
<1>3. ASSUME NEW a \in Aliases, ChildStep(a) PROVE OrchestratorInv'
  BY <1>3, ChildCommitsInv, ChildEndsInv, ChildFailsInv DEF ChildStep
<1> QED  BY <1>1, <1>2, <1>3, DeadlinePassesInv, RejoinFallsDueInv DEF Next, Terminated

\* Every reachable state satisfies the invariant.
LEMMA OrchestratorInvariant == Spec => []OrchestratorInv
<1>1. OrchestratorInv /\ [Next]_vars => OrchestratorInv'
  BY StepOrchestrator
<1> QED  BY InitOrchestrator, <1>1, PTL DEF Spec

\* Types, and with them: no child has a third instance, for the kill and the
\* rejoin of run_orchestrator happen at most once.
THEOREM TypeCorrect == Spec => []TypeOK
<1>1. OrchestratorInv => TypeOK
  BY DEF OrchestratorInv, OrchestratorType, LastInstanceOnly, TypeOK
<1> QED  BY <1>1, OrchestratorInvariant, PTL

\* No alias has two running processes, whenever the kill, the rejoin and the
\* child's own end happen.
THEOREM OneProcessPerAlias == Spec => []SoleInstance
<1>1. ASSUME OrchestratorInv, NEW a \in Aliases PROVE Cardinality(live[a]) <= 1
  <2>1. live[a] = {} \/ live[a] = {spawned[a]}
    BY <1>1 DEF OrchestratorInv, LastInstanceOnly
  <2>2. Cardinality({}) = 0 /\ Cardinality({spawned[a]}) = 1
    BY FS_EmptySet, FS_Singleton
  <2> QED  BY <2>1, <2>2
<1>2. OrchestratorInv => SoleInstance
  BY <1>1 DEF SoleInstance
<1> QED  BY <1>2, OrchestratorInvariant, PTL

\* run_orchestrator leaves no child behind when it reports a summary or a
\* timeout.
THEOREM NobodyLeftBehind == Spec => []NoOrphans
<1>1. OrchestratorInv => NoOrphans
  BY DEF OrchestratorInv
<1> QED  BY <1>1, OrchestratorInvariant, PTL

\* overall_ok and the exit code count bundles of this run, when no earlier run
\* left any: exit code 0 needs a bundle of every child but one, and one that
\* finalized.
THEOREM ExitZeroIsEarned == Spec => []SuccessIsEarned
<1>1. OrchestratorInv => SuccessIsEarned
  BY DEF OrchestratorInv
<1> QED  BY <1>1, OrchestratorInvariant, PTL
=============================================================================
