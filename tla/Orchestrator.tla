---------------------------- MODULE Orchestrator ----------------------------
(***************************************************************************)
(* demo-bft (orchestrate.rs, main.rs): one `node` child per topology node, *)
(* failure injection and rejoin, reaping, the deadline, and the summary    *)
(* that becomes the exit code.                                             *)
(*                                                                         *)
(* A child is abstract: it commits rounds (each prints a line), and then   *)
(* ends with a bundle, or fails anywhere.  Of a bundle only run_status.json *)
(* matters here.  Bundles of an earlier demo-bft may be in place.  The     *)
(* reader threads and the channel are one set of lines not yet received:   *)
(* only the line that triggers the kill has an effect.  A 500 ms timeout   *)
(* may fire while a line is still in a pipe or with its reader thread.     *)
(* ChildExited is never sent and a sender is kept, so these two arms of    *)
(* the match are dead and left out.  The model ends with the orchestrator. *)
(*                                                                         *)
(* SIGKILL is sent without waiting.  What a child still does before it is  *)
(* gone can be taken to precede the kill, since the orchestrator sees a    *)
(* child only through its lines, try_wait and, at the end, its status; so  *)
(* Kill ends it at once.  That it is gone when a rejoin spawns the next    *)
(* one is assumed: the system ends a child sooner than a loop turns.       *)
(***************************************************************************)
EXTENDS Naturals, FiniteSets

CONSTANTS
    N,              \* topology nodes; child i has the alias n<i>
    MaxRounds,      \* rounds a child commits at most
    FailAt,         \* the values of --fail-at-round; MaxRounds stands for none
    FailTargets,    \* the values of --fail-target; 0 is a name no child has
    Rejoin,         \* whether --rejoin-after-ms may be given
    Stale           \* what an earlier run may have left as a child's status

Statuses == {"none", "finalized", "aborted"}

ASSUME OrchestratorAssumption ==
    /\ N \in Nat /\ N >= 2
    /\ MaxRounds \in Nat \ {0}
    /\ FailAt \subseteq 0..MaxRounds
    /\ FailTargets \subseteq 0..N
    /\ Rejoin \subseteq BOOLEAN
    /\ Stale \subseteq Statuses

Aliases == 1..N

VARIABLES
    args,           \* the command line: fail_at_round, fail_target_alias, rejoin
    pc,             \* spawn, top, recv, summary, exited
    children,       \* the aliases with a handle in the map
    spawned,        \* spawned[a]: how often a was spawned; the handle is the last one's
    live,           \* live[a]: the instances of a that are running
    committed,      \* committed[a]: rounds the last instance has committed
    lines,          \* round-committed lines not yet received
    killed_once,
    rejoin_spawn_at,\* none, set, due
    late,           \* the deadline has passed
    status,         \* status[a]: run_status.json of a's bundle
    result,         \* how run_orchestrator returned, and the exit code
    bundled,        \* history: children that completed a bundle in this run
    crashed         \* history: children that ended on their own with neither 0 nor 2
env == <<args, status, bundled, crashed>>
vars == <<args, pc, children, spawned, live, committed, lines, killed_once,
          rejoin_spawn_at, late, status, result, bundled, crashed>>

Running == [how |-> "running", code |-> 0]

Init ==
    /\ args \in [fail_at_round : FailAt, fail_target : FailTargets, rejoin : Rejoin]
    /\ pc = "spawn"
    /\ children = {}
    /\ spawned = [a \in Aliases |-> 0]
    /\ live = [a \in Aliases |-> {}]
    /\ committed = [a \in Aliases |-> 0]
    /\ lines = {}
    /\ killed_once = FALSE
    /\ rejoin_spawn_at = "none"
    /\ late = FALSE
    /\ status \in [Aliases -> Stale]
    /\ result = Running
    /\ bundled = {} /\ crashed = {}

-----------------------------------------------------------------------------
(* The children and the clock.                                             *)

\* The child the map's handle stands for is running.
Alive(a) == spawned[a] \in live[a]

\* parse_round_committed and its reader thread: whose line, which round
committed_line(a, round) == <<a, round>>

\* on_round_committed
ChildCommits(a) ==
    /\ pc # "exited" /\ Alive(a) /\ committed[a] < MaxRounds
    /\ lines' = lines \cup {committed_line(a, committed[a])}
    /\ committed' = [committed EXCEPT ![a] = @ + 1]
    /\ UNCHANGED <<env, pc, children, spawned, live, killed_once, rejoin_spawn_at, late, result>>

\* The exit code of `node`: 1 if its own verifier rejects the log.
NodeExit(valid, st) == IF ~valid THEN 1 ELSE IF st = "finalized" THEN 0 ELSE 2

\* The node wrote its bundle and exits.
ChildEnds(a, st, valid) ==
    /\ pc # "exited" /\ Alive(a) /\ committed[a] > 0
    /\ live' = [live EXCEPT ![a] = @ \ {spawned[a]}]
    /\ status' = [status EXCEPT ![a] = st]
    /\ bundled' = bundled \cup {a}
    /\ crashed' = IF NodeExit(valid, st) \in {0, 2} THEN crashed ELSE crashed \cup {a}
    /\ UNCHANGED <<args, pc, children, spawned, committed, lines, killed_once,
                   rejoin_spawn_at, late, result>>

\* The node ends with an error, or dies, before or while it writes its bundle;
\* the cleaning has then removed the old status.
ChildFails(a) ==
    /\ pc # "exited" /\ Alive(a)
    /\ live' = [live EXCEPT ![a] = @ \ {spawned[a]}]
    /\ \/ UNCHANGED status
       \/ committed[a] > 0 /\ status' = [status EXCEPT ![a] = "none"]
    /\ crashed' = crashed \cup {a}
    /\ UNCHANGED <<args, pc, children, spawned, committed, lines, killed_once,
                   rejoin_spawn_at, late, result, bundled>>

DeadlinePasses ==
    /\ pc # "exited" /\ ~late
    /\ late' = TRUE
    /\ UNCHANGED <<env, pc, children, spawned, live, committed, lines, killed_once,
                   rejoin_spawn_at, result>>

RejoinFallsDue ==
    /\ pc # "exited" /\ rejoin_spawn_at = "set"
    /\ rejoin_spawn_at' = "due"
    /\ UNCHANGED <<env, pc, children, spawned, live, committed, lines, killed_once,
                   late, result>>

-----------------------------------------------------------------------------
(* run_orchestrator                                                        *)

Return(how, code) == pc' = "exited" /\ result' = [how |-> how, code |-> code]

\* spawn_one and children.insert
Spawned(a) ==
    /\ spawned' = [spawned EXCEPT ![a] = @ + 1]
    /\ live' = [live EXCEPT ![a] = @ \cup {spawned[a] + 1}]
    /\ committed' = [committed EXCEPT ![a] = 0]
    /\ children' = children \cup {a}
    /\ UNCHANGED result

SpawnFails ==
    /\ Return("spawn_error", 1)
    /\ UNCHANGED <<spawned, live, committed, children>>

SpawnNext ==
    /\ pc = "spawn"
    /\ LET a == Cardinality(children) + 1
       IN  \/ Spawned(a) /\ pc' = IF a = N THEN "top" ELSE "spawn"
           \/ SpawnFails
    /\ UNCHANGED <<env, lines, killed_once, rejoin_spawn_at, late>>

\* Mutants: the children are left alone at the deadline; no deadline.
DeadlineNoKill ==
    /\ pc = "top" /\ late
    /\ Return("timeout", 1)
    /\ UNCHANGED <<env, live, children, spawned, committed, lines, killed_once,
                   rejoin_spawn_at, late>>
DeadlineIgnored ==
    /\ pc = "top" /\ late
    /\ pc' = "recv"
    /\ UNCHANGED <<env, live, children, spawned, committed, lines, killed_once,
                   rejoin_spawn_at, late, result>>

\* The deadline is over: kill every child in the map.
Deadline ==
    /\ pc = "top" /\ late
    /\ Return("timeout", 1)
    /\ live' = [a \in Aliases |-> IF a \in children THEN live[a] \ {spawned[a]} ELSE live[a]]
    /\ UNCHANGED <<env, children, spawned, committed, lines, killed_once,
                   rejoin_spawn_at, late>>

\* The top of the loop; a rejoin that is due replaces the killed child's handle.
LoopTop ==
    /\ pc = "top" /\ ~late
    /\ \/ /\ rejoin_spawn_at = "due"
          /\ rejoin_spawn_at' = "none"
          /\ \/ Spawned(args.fail_target) /\ pc' = "recv"
             \/ SpawnFails
       \/ /\ rejoin_spawn_at # "due"
          /\ pc' = "recv"
          /\ UNCHANGED <<rejoin_spawn_at, spawned, live, committed, children, result>>
    /\ UNCHANGED <<env, lines, killed_once, late>>

\* Mutant: a child may be killed again and again.
TriggersAgain(line) ==
    /\ line = committed_line(args.fail_target, args.fail_at_round)
    /\ args.fail_target \in children

\* The line on which the target is killed.
Triggers(line) ==
    /\ ~killed_once
    /\ line = committed_line(args.fail_target, args.fail_at_round)
    /\ args.fail_target \in children

\* Mutant: the rejoin is scheduled and the child goes on.
KillNothing(a) == UNCHANGED <<live, status>>

\* h.child.kill(), its error ignored: the child may have ended already.  A
\* running one may be in the middle of replacing its bundle.
Kill(a) ==
    /\ live' = [live EXCEPT ![a] = @ \ {spawned[a]}]
    /\ \/ UNCHANGED status
       \/ Alive(a) /\ status' = [status EXCEPT ![a] = "none"]

RecvLine(line) ==
    /\ pc = "recv" /\ line \in lines
    /\ lines' = lines \ {line}
    /\ pc' = "top"
    /\ IF Triggers(line)
       THEN /\ Kill(args.fail_target)
            /\ killed_once' = TRUE
            /\ rejoin_spawn_at' = IF args.rejoin THEN "set" ELSE rejoin_spawn_at
       ELSE UNCHANGED <<live, status, killed_once, rejoin_spawn_at>>
    /\ UNCHANGED <<args, children, spawned, committed, late, result, bundled, crashed>>

\* The 500 ms timeout: reap what has ended, leave the loop if nothing is left.
RecvTimeout ==
    /\ pc = "recv"
    /\ children' = {a \in children : Alive(a)}
    /\ pc' = IF children' = {} THEN "summary" ELSE "top"
    /\ UNCHANGED <<env, spawned, live, committed, lines, killed_once, rejoin_spawn_at,
                   late, result>>

Count(st) == Cardinality({a \in Aliases : status[a] = st})

\* Mutant: aborted children are not told from missing ones.
overall_ok_any == Count("finalized") + Count("aborted") > 0

overall_ok ==
    /\ Count("finalized") + Count("aborted") > 0
    /\ Count("finalized") + Count("aborted") >= N - 1

\* The summary, and the exit code main makes of it.
Summary ==
    /\ pc = "summary"
    /\ Return("summary", IF ~overall_ok THEN 1 ELSE IF Count("finalized") = 0 THEN 2 ELSE 0)
    /\ UNCHANGED <<env, children, spawned, live, committed, lines, killed_once,
                   rejoin_spawn_at, late>>

Step == \/ SpawnNext \/ Deadline \/ LoopTop
        \/ \E line \in lines : RecvLine(line)
        \/ RecvTimeout \/ Summary

ChildStep(a) == \/ ChildCommits(a)
                \/ \E st \in {"finalized", "aborted"}, valid \in BOOLEAN : ChildEnds(a, st, valid)
                \/ ChildFails(a)

Terminated == pc = "exited" /\ UNCHANGED vars

Next == Step \/ (\E a \in Aliases : ChildStep(a)) \/ DeadlinePasses \/ RejoinFallsDue
        \/ Terminated

\* The orchestrator runs and the clock goes on; a child may hang forever.
Spec == Init /\ [][Next]_vars /\ WF_vars(Step) /\ WF_vars(DeadlinePasses)

-----------------------------------------------------------------------------
\* Killed at most once and rejoined at most once: no child has a third instance.
TypeOK ==
    /\ children \subseteq Aliases
    /\ spawned \in [Aliases -> 0..2]
    /\ \A a \in Aliases : live[a] \subseteq 1..spawned[a]
    /\ committed \in [Aliases -> 0..MaxRounds]
    /\ status \in [Aliases -> Statuses]

\* No alias ever has two running processes: the second would bind the same
\* port and replace the bundle under the first one's hands.
SoleInstance == \A a \in Aliases : Cardinality(live[a]) <= 1

\* When the orchestrator reports a summary or a timeout, no child is left
\* behind, although killed, rejoined and finished children leave the map only
\* when a timeout finds them.
NoOrphans == result.how \in {"summary", "timeout"} => \A a \in Aliases : live[a] = {}

\* With no bundles of an earlier run in place, exit code 0 is earned: some
\* child wrote a finalized bundle, and all children but one wrote theirs in
\* this run, whoever was killed, rejoined or crashed.
SuccessIsEarned ==
    (Stale = {"none"} /\ result.how = "summary" /\ result.code = 0) =>
        /\ Cardinality(bundled) >= N - 1
        /\ \E a \in bundled : status[a] = "finalized"

\* intent/plan.md: "Failure-injection paths remain bounded and surface a
\* timeout or error rather than hanging indefinitely."  The orchestrator
\* returns even if children hang.
AlwaysReturns == <>(pc = "exited")

-----------------------------------------------------------------------------
(* Statements of the documentation that do not hold of the code: README.md *)
(* says which of them have a run.                                          *)

\* orchestrate.rs on overall_ok: "`true` when every child exited with 0
\* (finalized) or 2 (coherent abort). `false` when any child crashed or
\* returned an unexpected code."
OkMeansNoCrash ==
    result.how = "summary" /\ result.code # 1 => crashed = {}

\* intent/plan.md: "`demo-bft` reports non-zero when a child crashes
\* unexpectedly": at the least when every one of them did.
CrashesReported ==
    (result.how = "summary" /\ crashed = Aliases) => result.code # 0

\* orchestrate.rs: "If `--rejoin-after-ms M` is also set, it respawns the
\* killed child M milliseconds later": a summary leaves no rejoin undone.
RejoinIsDone == result.how = "summary" => rejoin_spawn_at = "none"
=============================================================================
