----------------------------- MODULE MCLocalRun -----------------------------
(***************************************************************************)
(* LocalRun and DamagedLog for TLC: requester 2 among providers 1, 3 and   *)
(* 4, of which the lowest cannot serve the request; every scenario of at   *)
(* most two events.  Logs are damaged of runs that finalize at once, fall  *)
(* back and finalize, or abort.                                            *)
(***************************************************************************)
EXTENDS DamagedLog

MCNodeIds == 1..5       \* 5 is not configured
MCRequester == 2
MCProviderOrder == <<1, 3, 4>>
MCTags == {"gpu", "cpu", ""}
MCClaims == [n \in {1, 3, 4} |-> IF n = 1 THEN {"cpu"} ELSE {"gpu"}]
MCSigning == {3}        \* provider 3 signs with ed25519, the others with the tag
MCHexes == [node : MCNodeIds, round : Nat, flipped : BOOLEAN]

MCScenarios == {{}} \cup {{e, f} : e, f \in ScenarioEvents}

InvalidProof(n, r) == [kind |-> "inject_invalid_proof", node |-> n, round |-> r]
Drop(n, r)         == [kind |-> "drop_node", node |-> n, after_round |-> r]
MCInspected ==
    {{e} : e \in ScenarioEvents} \cup
    {{}, {InvalidProof(3, 0), Drop(3, 0)},
     {InvalidProof(2, 0), InvalidProof(2, 1)}, {InvalidProof(3, 0), Drop(2, 0)}}
=============================================================================
