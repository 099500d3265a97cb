-------------------------- MODULE RoundMachineSpec --------------------------
(***************************************************************************)
(* A RoundMachine that is offered any record of its input sets in any      *)
(* order and advanced at any time: everything a caller of the public       *)
(* methods can do.  The input sets are constants so that TLC gets small    *)
(* ones and the proofs any.                                                *)
(***************************************************************************)
EXTENDS RoundMachine

CONSTANTS CommitmentInputs, ProposalInputs, Rounds

ASSUME InputAssumption ==
    /\ CommitmentInputs \subseteq CommitmentRecord
    /\ ProposalInputs \subseteq ProposalRecord
    /\ Rounds \subseteq Nat
    /\ 0 \in Rounds

VARIABLE machine

Init == machine = new(0)

SubmitCommitment(rec) == machine' = accept_commitment(machine, rec)
SubmitProposal(p)     == machine' = accept_proposal(machine, p)
AdvanceTo(next)       == machine' = advance_to(machine, next)
AdvanceFallback       == /\ machine.current + 1 \in Rounds
                         /\ machine' = advance_fallback(machine)

Next ==
    \/ \E rec \in CommitmentInputs : SubmitCommitment(rec)
    \/ \E p \in ProposalInputs : SubmitProposal(p)
    \/ \E next \in Rounds : AdvanceTo(next)
    \/ AdvanceFallback

Spec == Init /\ [][Next]_machine

-----------------------------------------------------------------------------
TypeOK == machine \in Machine

\* The rounds a machine has seen, oldest first: the closed ones and, last,
\* the active one.
RoundIndex(m) == 1..(Len(m.past) + 1)
EntryOf(m, i) ==
    IF i <= Len(m.past) THEN m.past[i]
    ELSE [round |-> m.current, commitments |-> m.commitments, proposal |-> m.proposal]

\* Node n's accepted commitment in the i-th round, or None.
CommitmentAt(m, i, n) == EntryOf(m, i).commitments[n]

HashesUnique(m) ==
    \A i, j \in RoundIndex(m) : \A a, b \in Nodes :
        /\ CommitmentAt(m, i, a) # None
        /\ CommitmentAt(m, j, b) # None
        /\ CommitmentAt(m, i, a).commitment_hex = CommitmentAt(m, j, b).commitment_hex
        => i = j /\ a = b

\* No commitment hash is accepted twice in the life of the machine: not in
\* another round under a new label, not in the same round for another node
\* (round_machine.rs: history_hex survives advance_to).
ReplaySafe == HashesUnique(machine)

ProposalJustified(e) ==
    LET p    == e.proposal
        req  == e.commitments[p.candidate_requester]
        prov == e.commitments[p.candidate_provider]
    IN  p # None =>
        /\ p.round = e.round
        /\ p.proposer = proposer_for_round(e.round)
        /\ p.candidate_requester = Requester
        /\ p.candidate_provider \in Providers
        /\ req # None
        /\ prov # None
        /\ match_predicate(req.public_intent, prov.public_intent, e.round) = "ok"
        /\ p.matched_capability = req.public_intent.required_capability

\* Every proposal the machine holds, of the active or of a closed round, is
\* justified by the commitments stored with it: the rotation's proposer, the
\* topology's requester, a configured provider, the capability the requester
\* committed to, and the match predicate the verifier runs again later.
ProposalSound ==
    \A i \in RoundIndex(machine) : ProposalJustified(EntryOf(machine, i))

RoundsOrdered(m) ==
    \A i, j \in RoundIndex(m) : i < j => EntryOf(m, i).round < EntryOf(m, j).round

\* Rounds only move forward: the closed rounds are strictly increasing and
\* all lie before the active one, so an entry is identified by its round.
RoundsAscend == RoundsOrdered(machine)

\* Within a round what was accepted stays: no commitment is overwritten or
\* withdrawn (no equivocation by a later record), and from the moment a
\* proposal is accepted the commitment set it was judged against is frozen.
AcceptedIsFinal ==
    [][machine'.current = machine.current =>
         /\ \A n \in Nodes : machine.commitments[n] # None =>
                machine'.commitments[n] = machine.commitments[n]
         /\ machine.proposal # None =>
                /\ machine'.proposal = machine.proposal
                /\ machine'.commitments = machine.commitments]_machine

\* History is append-only, and closing a round archives exactly what it held.
HistoryIsAppendOnly ==
    [][machine'.past # machine.past =>
         machine'.past = Append(machine.past, EntryOf(machine, Len(machine.past) + 1))]_machine

\* history_hex covers every accepted hash, of closed rounds too.
HistoryCovers(m) ==
    \A i \in RoundIndex(m) : \A a \in Nodes :
        CommitmentAt(m, i, a) # None =>
            CommitmentAt(m, i, a).commitment_hex \in m.history_hex

\* Every hash in history_hex was accepted, and its commitment is still held.
HistoryIsEarned(m) ==
    \A h \in m.history_hex : \E i \in RoundIndex(m) : \E a \in Nodes :
        /\ CommitmentAt(m, i, a) # None
        /\ CommitmentAt(m, i, a).commitment_hex = h

\* The replay history is exactly the hashes of the commitments accepted in all
\* rounds: a record that some check rejects leaves no trace in it ("Validates
\* before mutating, so a rejection leaves state unchanged"), or the well-formed
\* record with the same hash would later be called a replay.
HistoryIsExact == HistoryCovers(machine) /\ HistoryIsEarned(machine)

-----------------------------------------------------------------------------
\* The strengthening that makes the invariants inductive.

\* What accept_commitment checked of each commitment of the active round.
ActiveBound(m) ==
    \A n \in Nodes : m.commitments[n] # None =>
        /\ m.commitments[n].public_intent.role = role(n)
        /\ m.commitments[n].public_intent.round = m.current

IndInv(m) ==
    /\ HistoryCovers(m)
    /\ HistoryIsEarned(m)
    /\ HashesUnique(m)
    /\ ActiveBound(m)
    /\ \A i \in RoundIndex(m) : ProposalJustified(EntryOf(m, i))
    /\ RoundsOrdered(m)
=============================================================================
