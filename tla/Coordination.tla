---------------------------- MODULE Coordination ----------------------------
(***************************************************************************)
(* What a coordination run promises, without phases, messages or records:  *)
(* a round is one step.  It either finalizes with a provider the round     *)
(* allows or falls back to the next round, and the run aborts when the     *)
(* budget of max_rounds is used up (the loop of CoordinationRuntime::run   *)
(* and RoundOutcome).  agenda[r] is the set of providers round r may be    *)
(* finalized with.  If Reliable, no message is lost or late, and a round   *)
(* that can be finalized is.                                               *)
(*                                                                         *)
(* LocalRun and every process of Cluster are shown to implement this.      *)
(***************************************************************************)
EXTENDS Naturals

CONSTANTS MaxRounds, Providers, None, Reliable

\* What an implementation has to offer as parameters.
Parameters ==
    /\ MaxRounds \in Nat
    /\ None \notin Providers
    /\ Reliable \in BOOLEAN

VARIABLES agenda, round, outcome
vars == <<agenda, round, outcome>>

\* outcome is None while the run goes on
Outcomes == [finalized : BOOLEAN, round : 0..MaxRounds, provider : Providers \cup {None}]

Init == /\ agenda \in [0..MaxRounds -> SUBSET Providers]
        /\ round = 0
        /\ outcome = None

Finalize(p) ==
    /\ outcome = None /\ round < MaxRounds
    /\ p \in agenda[round]
    /\ outcome' = [finalized |-> TRUE, round |-> round, provider |-> p]
    /\ UNCHANGED <<agenda, round>>

Fallback ==
    /\ outcome = None /\ round < MaxRounds
    /\ Reliable => agenda[round] = {}
    /\ round' = round + 1
    /\ UNCHANGED <<agenda, outcome>>

Abort ==
    /\ outcome = None /\ round = MaxRounds
    /\ outcome' = [finalized |-> FALSE, round |-> IF MaxRounds = 0 THEN 0 ELSE MaxRounds - 1,
                   provider |-> None]
    /\ UNCHANGED <<agenda, round>>

Next == (\E p \in Providers : Finalize(p)) \/ Fallback \/ Abort

Spec == Init /\ [][Next]_vars

-----------------------------------------------------------------------------
TypeOK ==
    /\ agenda \in [0..MaxRounds -> SUBSET Providers]
    /\ round \in 0..MaxRounds
    /\ outcome \in Outcomes \cup {None}

\* A reliable run takes its first chance: it finalizes in the first round
\* that allows it, with a provider that round allows, and it aborts only if
\* no round of the budget did.
FirstChance ==
    (Reliable /\ outcome # None) =>
        /\ outcome.finalized =>
               /\ outcome.provider \in agenda[outcome.round]
               /\ \A r \in 0..MaxRounds : r < outcome.round => agenda[r] = {}
        /\ ~outcome.finalized => \A r \in 0..MaxRounds : r < MaxRounds => agenda[r] = {}
=============================================================================
