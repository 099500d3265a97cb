------------------------------ MODULE MCCluster -----------------------------
(***************************************************************************)
(* Cluster for TLC: requester 2 and providers 1 and 3, both able to serve  *)
(* the request; the rotation starts with provider 1.                       *)
(***************************************************************************)
EXTENDS Cluster

MCNodeIds == 1..3
MCRequester == 2
MCProviderOrder == <<1, 3>>
MCTags == {"gpu", "cpu", ""}
MCClaims == [n \in {1, 3} |-> {"gpu"}]
MCHexes == [node : MCNodeIds, round : Nat, flipped : BOOLEAN]

\* The smallest topology, for runs with several sessions, kills and rounds.
PairOrder == <<1>>
PairClaims == [n \in {1} |-> {"gpu"}]

\* One scenario for each kind of event, and combinations that use round 1.
DoubleCommit(n, r)       == [kind |-> "double_commit", node |-> n, round |-> r]
InvalidProof(n, r)       == [kind |-> "inject_invalid_proof", node |-> n, round |-> r]
Replay(n, r, from_round) == [kind |-> "replay_prior_commitment", node |-> n, round |-> r,
                             from_round |-> from_round]
Drop(n, r)               == [kind |-> "drop_node", node |-> n, after_round |-> r]

NoEvent == {}
BadProof == {InvalidProof(1, 0)}
Replayed == {InvalidProof(1, 0), Replay(3, 1, 0)}

\* Every kind of event, in the first round and in a second one after a failed
\* first, by the requester, the matched provider and a bystander; runs that
\* finalize at once, finalize in the second round, or abort.
Mixed ==
    {NoEvent, {DoubleCommit(2, 0), InvalidProof(3, 0)}, {InvalidProof(2, 0), DoubleCommit(1, 1)},
     Replayed, {InvalidProof(1, 0), Drop(1, 0)}, {InvalidProof(2, 0), Drop(2, 0)}}

Setup(scenario, sessions, timing, exits, kills) ==
    [scenario |-> scenario, sessions |-> sessions, timing |-> timing, exits |-> exits,
     kills |-> kills]

InStep   == {Setup(s, 1, 0, 0, 0) : s \in Mixed}
Drifting == InStep \cup {Setup(NoEvent, 1, 1, 0, 0), Setup(NoEvent, 1, 0, 1, 0)}
Restarts == {Setup(s, 2, 1, 0, 0) : s \in {NoEvent, BadProof}} \cup
            {Setup(s, 1, 0, 0, 1) : s \in {NoEvent, BadProof}}
Leftovers == {Setup(NoEvent, 2, 3, 0, 0), Setup(NoEvent, 1, 1, 0, 1), Setup(NoEvent, 2, 0, 1, 0)}
OneFault == {Setup(NoEvent, 1, 1, 0, 0)}
Replays  == {Setup(Replayed, 1, 1, 0, 0)}
=============================================================================
