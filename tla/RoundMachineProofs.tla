------------------------- MODULE RoundMachineProofs -------------------------
(***************************************************************************)
(* The round machine's safety for every topology, every set of hashes and  *)
(* tags, and every sequence of submitted records and advances.             *)
(***************************************************************************)
EXTENDS RoundMachineSpec, TLAPS

-----------------------------------------------------------------------------
(* What the two acceptance checks establish.                               *)

\* A commitment that passes every check of accept_commitment is for the
\* active round and a free slot of a configured node, carries a fresh hash,
\* and its embedded intent agrees with its label and with the topology.
LEMMA CommitmentChecks ==
    ASSUME NEW m \in Machine, NEW rec \in CommitmentRecord,
           commitment_result(m, rec) = "ok"
    PROVE  /\ m.proposal = None
           /\ rec.round = m.current
           /\ rec.node_id \in Nodes
           /\ rec.public_intent.role = role(rec.node_id)
           /\ rec.public_intent.round = m.current
           /\ rec.public_intent.node_id = rec.node_id
           /\ m.commitments[rec.node_id] = None
           /\ rec.commitment_hex \notin m.history_hex
    BY DEF commitment_result, HasCommitment

\* A proposal that passes every check of accept_proposal comes from the
\* rotation's proposer and refers to two stored commitments that agree with it.
LEMMA ProposalChecks ==
    ASSUME NEW m \in Machine, NEW p \in ProposalRecord,
           proposal_result(m, p) = "ok"
    PROVE  /\ m.proposal = None
           /\ p.round = m.current
           /\ p.proposer = proposer_for_round(m.current)
           /\ p.candidate_requester \in Nodes
           /\ p.candidate_provider \in Nodes
           /\ m.commitments[p.candidate_requester] # None
           /\ m.commitments[p.candidate_provider] # None
           /\ m.commitments[p.candidate_requester].public_intent.role = "requester"
           /\ m.commitments[p.candidate_provider].public_intent.role = "provider"
           /\ m.commitments[p.candidate_requester].public_intent.required_capability
                  = p.matched_capability
           /\ p.matched_capability
                  \in m.commitments[p.candidate_provider].public_intent.capability_claims
    BY DEF proposal_result, HasCommitment, validate_proposal_annotation, current_proposer

-----------------------------------------------------------------------------
(* Type correctness.                                                       *)

\* A fresh machine is well typed.
LEMMA InitType == new(0) \in Machine
    BY DEF new, Machine, NoCommitments, CommitmentMap

\* For a configured node, insert fills or replaces the slot of that node.
LEMMA InsertIsUpdate ==
    ASSUME NEW m \in Machine, NEW rec \in CommitmentRecord, rec.node_id \in Nodes
    PROVE  insert_commitment(m, rec)
               = [m EXCEPT !.history_hex = @ \cup {rec.commitment_hex},
                           !.commitments[rec.node_id] = rec]
    <1>1. DOMAIN m.commitments = Nodes /\ m.commitments \in [Nodes -> CommitmentRecord \cup {None}]
        BY DEF Machine, CommitmentMap
    <1>2. insert(m.commitments, rec.node_id, rec) = [m.commitments EXCEPT ![rec.node_id] = rec]
        BY <1>1 DEF insert
    <1> QED BY <1>1, <1>2 DEF insert_commitment, Machine

\* Storing a commitment under a configured node keeps the machine well typed.
LEMMA InsertType ==
    ASSUME NEW m \in Machine, NEW rec \in CommitmentRecord, rec.node_id \in Nodes
    PROVE  insert_commitment(m, rec) \in Machine
    <1>1. insert_commitment(m, rec)
              = [m EXCEPT !.history_hex = @ \cup {rec.commitment_hex},
                          !.commitments[rec.node_id] = rec]
        BY InsertIsUpdate
    <1>2. [m EXCEPT !.history_hex = @ \cup {rec.commitment_hex},
                    !.commitments[rec.node_id] = rec] \in Machine
        BY DEF Machine, CommitmentMap, CommitmentRecord
    <1> QED BY <1>1, <1>2

\* Closing a round keeps the machine well typed.
LEMMA CloseType ==
    ASSUME NEW m \in Machine, NEW next \in Nat
    PROVE  close_round(m, next) \in Machine
    <1> DEFINE f == [round |-> m.current, commitments |-> m.commitments,
                     proposal |-> m.proposal]
    <1>1. f \in FinalizedRound
        BY DEF Machine, FinalizedRound
    <1>2. Append(m.past, f) \in Seq(FinalizedRound)
        BY <1>1 DEF Machine
    <1> HIDE DEF f
    <1>3. close_round(m, next) = [current |-> next, commitments |-> NoCommitments,
                proposal |-> None, history_hex |-> m.history_hex, past |-> Append(m.past, f)]
        BY DEF close_round, f
    <1>4. NoCommitments \in CommitmentMap
        BY DEF NoCommitments, CommitmentMap
    <1> QED
        BY <1>2, <1>3, <1>4 DEF Machine

\* The four ways a step can end: one lemma, used by every invariance proof.
LEMMA StepCases ==
    ASSUME TypeOK, [Next]_machine
    PROVE  \/ machine' = machine
           \/ \E rec \in CommitmentRecord :
                  /\ commitment_result(machine, rec) = "ok"
                  /\ machine' = insert_commitment(machine, rec)
           \/ \E p \in ProposalRecord :
                  /\ proposal_result(machine, p) = "ok"
                  /\ machine' = [machine EXCEPT !.proposal = p]
           \/ \E next \in Nat :
                  /\ next > machine.current
                  /\ machine' = close_round(machine, next)
    <1>0. machine.current \in Nat
        BY DEF TypeOK, Machine
    <1>1. CASE UNCHANGED machine
        BY <1>1
    <1>2. CASE \E rec \in CommitmentInputs : SubmitCommitment(rec)
        BY <1>2, InputAssumption DEF SubmitCommitment, accept_commitment
    <1>3. CASE \E p \in ProposalInputs : SubmitProposal(p)
        BY <1>3, InputAssumption DEF SubmitProposal, accept_proposal
    <1>4. CASE \E next \in Rounds : AdvanceTo(next)
        <2>1. PICK next \in Rounds : AdvanceTo(next)
            BY <1>4
        <2>2. next \in Nat
            BY InputAssumption
        <2>3. CASE next <= machine.current
            BY <2>1, <2>3 DEF AdvanceTo, advance_to
        <2>4. CASE ~(next <= machine.current)
            <3>1. next > machine.current
                BY <1>0, <2>2, <2>4
            <3>2. machine' = close_round(machine, next)
                BY <2>1, <2>4 DEF AdvanceTo, advance_to
            <3> QED BY <2>2, <3>1, <3>2
        <2> QED BY <2>3, <2>4
    <1>5. CASE AdvanceFallback
        <2>1. ~(machine.current + 1 <= machine.current) /\ machine.current + 1 > machine.current
            BY <1>0
        <2>2. machine' = close_round(machine, machine.current + 1)
            BY <1>5, <2>1 DEF AdvanceFallback, advance_fallback, advance_to
        <2>3. machine.current + 1 \in Nat
            BY <1>0
        <2> QED BY <2>1, <2>2, <2>3
    <1> QED BY <1>1, <1>2, <1>3, <1>4, <1>5 DEF Next

\* Every step of the machine, or a stutter, preserves its type.
LEMMA TypeStep == TypeOK /\ [Next]_machine => TypeOK'
    <1> SUFFICES ASSUME TypeOK, [Next]_machine PROVE TypeOK'
        OBVIOUS
    <1>1. CASE machine' = machine
        BY <1>1 DEF TypeOK
    <1>2. ASSUME NEW rec \in CommitmentRecord, commitment_result(machine, rec) = "ok",
                 machine' = insert_commitment(machine, rec)
          PROVE  TypeOK'
        <2>1. rec.node_id \in Nodes
            BY <1>2, CommitmentChecks DEF TypeOK
        <2> QED BY <1>2, <2>1, InsertType DEF TypeOK
    <1>3. ASSUME NEW p \in ProposalRecord, machine' = [machine EXCEPT !.proposal = p]
          PROVE  TypeOK'
        BY <1>3 DEF TypeOK, Machine
    <1>4. ASSUME NEW next \in Nat, machine' = close_round(machine, next)
          PROVE  TypeOK'
        BY <1>4, CloseType DEF TypeOK
    <1> QED BY <1>1, <1>2, <1>3, <1>4, StepCases

\* The machine keeps its shape: maps keyed by configured nodes, records of
\* the declared types, whatever is submitted (round_machine.rs, struct RoundMachine).
THEOREM TypeCorrect == Spec => []TypeOK
    <1>1. Init => TypeOK
        BY InitType DEF Init, TypeOK
    <1> QED BY <1>1, TypeStep, PTL DEF Spec

-----------------------------------------------------------------------------
(* The rounds after a step, in terms of the rounds before it.              *)

\* Every round the machine has seen is a FinalizedRound, the active one too.
LEMMA EntryTypes ==
    ASSUME NEW m \in Machine
    PROVE  /\ Len(m.past) \in Nat
           /\ \A i \in RoundIndex(m) : EntryOf(m, i) \in FinalizedRound
    <1>1. Len(m.past) \in Nat /\ m.past \in Seq(FinalizedRound)
        BY DEF Machine
    <1>2. \A i \in 1..Len(m.past) : m.past[i] \in FinalizedRound
        BY <1>1
    <1>3. [round |-> m.current, commitments |-> m.commitments, proposal |-> m.proposal]
              \in FinalizedRound
        BY DEF Machine, FinalizedRound
    <1>4. ASSUME NEW i \in RoundIndex(m) PROVE EntryOf(m, i) \in FinalizedRound
        <2>1. CASE i <= Len(m.past)
            <3>1. i \in 1..Len(m.past)
                BY <1>1, <2>1 DEF RoundIndex
            <3> QED BY <1>2, <2>1, <3>1 DEF EntryOf
        <2>2. CASE ~(i <= Len(m.past))
            BY <1>3, <2>2 DEF EntryOf
        <2> QED BY <2>1, <2>2
    <1> QED BY <1>1, <1>4

\* Closing a round keeps every entry, the active one included, and opens an
\* empty one after them.
LEMMA EntriesAfterClose ==
    ASSUME NEW m \in Machine, NEW next \in Nat
    PROVE  LET m2 == close_round(m, next)
           IN  /\ Len(m2.past) = Len(m.past) + 1
               /\ \A i \in RoundIndex(m) : EntryOf(m2, i) = EntryOf(m, i)
               /\ EntryOf(m2, Len(m.past) + 2) =
                      [round |-> next, commitments |-> NoCommitments, proposal |-> None]
               /\ RoundIndex(m2) = RoundIndex(m) \cup {Len(m.past) + 2}
    <1> DEFINE f == [round |-> m.current, commitments |-> m.commitments,
                     proposal |-> m.proposal]
               m2 == close_round(m, next)
    <1>1. m.past \in Seq(FinalizedRound) /\ Len(m.past) \in Nat
        BY DEF Machine
    <1>2. m2.past = Append(m.past, f) /\ m2.current = next
          /\ m2.commitments = NoCommitments /\ m2.proposal = None
        BY DEF close_round
    <1>3. f \in FinalizedRound
        BY DEF Machine, FinalizedRound
    <1> HIDE DEF m2, f
    <1>4. Len(m2.past) = Len(m.past) + 1
        BY <1>1, <1>2, <1>3
    <1>5. ASSUME NEW i \in RoundIndex(m) PROVE EntryOf(m2, i) = EntryOf(m, i)
        <2>1. CASE i <= Len(m.past)
            <3>1. i \in 1..Len(m.past)
                BY <1>1, <2>1 DEF RoundIndex
            <3>2. m2.past[i] = m.past[i]
                BY <1>1, <1>2, <1>3, <3>1
            <3> QED BY <1>1, <1>4, <2>1, <3>1, <3>2 DEF EntryOf
        <2>2. CASE ~(i <= Len(m.past))
            <3>1. i = Len(m.past) + 1
                BY <1>1, <2>2 DEF RoundIndex
            <3>2. m2.past[i] = f
                BY <1>1, <1>2, <1>3, <3>1
            <3>3. EntryOf(m2, i) = f
                BY <1>1, <1>4, <3>1, <3>2 DEF EntryOf
            <3> QED BY <2>2, <3>3 DEF EntryOf, f
        <2> QED BY <2>1, <2>2
    <1>6. EntryOf(m2, Len(m.past) + 2) =
              [round |-> next, commitments |-> NoCommitments, proposal |-> None]
        <2>1. ~(Len(m.past) + 2 <= Len(m2.past))
            BY <1>1, <1>4
        <2> QED BY <1>2, <2>1 DEF EntryOf
    <1>7. RoundIndex(m2) = RoundIndex(m) \cup {Len(m.past) + 2}
        BY <1>1, <1>4 DEF RoundIndex
    <1> QED BY <1>4, <1>5, <1>6, <1>7 DEF m2

\* Accepting a commitment only fills the empty slot of one node in the active round.
LEMMA EntriesAfterInsert ==
    ASSUME NEW m \in Machine, NEW rec \in CommitmentRecord, rec.node_id \in Nodes
    PROVE  LET m2 == insert_commitment(m, rec)
               last == Len(m.past) + 1
           IN  /\ m2.past = m.past
               /\ m2.current = m.current
               /\ m2.proposal = m.proposal
               /\ m2.history_hex = m.history_hex \cup {rec.commitment_hex}
               /\ m2.commitments[rec.node_id] = rec
               /\ \A n \in Nodes : n # rec.node_id => m2.commitments[n] = m.commitments[n]
               /\ RoundIndex(m2) = RoundIndex(m)
               /\ \A i \in RoundIndex(m) : i # last => EntryOf(m2, i) = EntryOf(m, i)
               /\ EntryOf(m2, last).proposal = m.proposal
               /\ EntryOf(m2, last).round = m.current
               /\ EntryOf(m2, last).commitments = m2.commitments
    <1> DEFINE m2 == insert_commitment(m, rec)
    <1>1. /\ m2.past = m.past
          /\ m2.current = m.current
          /\ m2.proposal = m.proposal
          /\ m2.history_hex = m.history_hex \cup {rec.commitment_hex}
          /\ m2.commitments = [m.commitments EXCEPT ![rec.node_id] = rec]
        <2>1. m2 = [m EXCEPT !.history_hex = @ \cup {rec.commitment_hex},
                             !.commitments[rec.node_id] = rec]
            BY InsertIsUpdate
        <2> QED BY <2>1 DEF Machine
    <1>2. /\ m2.commitments[rec.node_id] = rec
          /\ \A n \in Nodes : n # rec.node_id => m2.commitments[n] = m.commitments[n]
        BY <1>1 DEF Machine, CommitmentMap
    <1>3. Len(m.past) \in Nat
        BY DEF Machine
    <1> HIDE DEF m2
    <1>4. RoundIndex(m2) = RoundIndex(m)
        BY <1>1 DEF RoundIndex
    <1>5. \A i \in RoundIndex(m) : i # Len(m.past) + 1 => EntryOf(m2, i) = EntryOf(m, i)
        BY <1>1, <1>3 DEF EntryOf, RoundIndex
    <1>6. EntryOf(m2, Len(m.past) + 1) = [round |-> m.current, commitments |-> m2.commitments,
                                          proposal |-> m.proposal]
        BY <1>1, <1>3 DEF EntryOf
    <1> QED BY <1>1, <1>2, <1>4, <1>5, <1>6 DEF m2

-----------------------------------------------------------------------------
(* Each kind of step preserves the inductive invariant.                    *)

\* A fresh machine satisfies the inductive invariant.
LEMMA IndInit == IndInv(new(0))
    <1> DEFINE m == new(0)
    <1>1. m.past = <<>> /\ m.current = 0 /\ m.proposal = None /\ m.commitments = NoCommitments
        BY DEF new
    <1> HIDE DEF m
    <1>2. RoundIndex(m) = {1}
        BY <1>1 DEF RoundIndex
    <1>3. EntryOf(m, 1) = [round |-> 0, commitments |-> NoCommitments, proposal |-> None]
        BY <1>1 DEF EntryOf
    <1>4. \A n \in Nodes : CommitmentAt(m, 1, n) = None /\ m.commitments[n] = None
        BY <1>1, <1>3 DEF CommitmentAt, NoCommitments
    <1>5. HistoryCovers(m) /\ HistoryIsEarned(m) /\ HashesUnique(m)
        <2>1. m.history_hex = {}
            BY DEF m, new
        <2> QED BY <1>2, <1>4, <2>1 DEF HistoryCovers, HistoryIsEarned, HashesUnique
    <1>6. ActiveBound(m)
        BY <1>4 DEF ActiveBound
    <1>7. ProposalJustified(EntryOf(m, 1))
        BY <1>3 DEF ProposalJustified
    <1>8. RoundsOrdered(m)
        BY <1>2 DEF RoundsOrdered
    <1> QED BY <1>2, <1>5, <1>6, <1>7, <1>8 DEF IndInv, m

\* Accepting a commitment that passed every check preserves the invariant:
\* the hash is fresh, so it differs from every hash history_hex covers.
LEMMA IndInsert ==
    ASSUME NEW m \in Machine, IndInv(m), NEW rec \in CommitmentRecord,
           commitment_result(m, rec) = "ok"
    PROVE  IndInv(insert_commitment(m, rec))
    <1> DEFINE m2 == insert_commitment(m, rec)
               last == Len(m.past) + 1
    <1>0. m.commitments[rec.node_id] = None
        BY CommitmentChecks
    <1>1. /\ m.proposal = None
          /\ rec.node_id \in Nodes
          /\ rec.public_intent.role = role(rec.node_id)
          /\ rec.public_intent.round = m.current
          /\ rec.commitment_hex \notin m.history_hex
        BY CommitmentChecks
    <1>2. /\ m2.past = m.past
          /\ m2.current = m.current
          /\ m2.proposal = m.proposal
          /\ m2.history_hex = m.history_hex \cup {rec.commitment_hex}
          /\ m2.commitments[rec.node_id] = rec
          /\ \A n \in Nodes : n # rec.node_id => m2.commitments[n] = m.commitments[n]
          /\ RoundIndex(m2) = RoundIndex(m)
          /\ \A i \in RoundIndex(m) : i # last => EntryOf(m2, i) = EntryOf(m, i)
          /\ EntryOf(m2, last).proposal = m.proposal
          /\ EntryOf(m2, last).round = m.current
          /\ EntryOf(m2, last).commitments = m2.commitments
        BY <1>1, EntriesAfterInsert
    <1>3. Len(m.past) \in Nat /\ last \in RoundIndex(m)
        BY EntryTypes DEF RoundIndex
    <1>4. EntryOf(m, last) = [round |-> m.current, commitments |-> m.commitments,
                              proposal |-> m.proposal]
        BY <1>3 DEF EntryOf
    <1> HIDE DEF m2, last
    \* the only commitment that is new is rec, in the last round
    <1>5. /\ CommitmentAt(m2, last, rec.node_id) = rec
          /\ \A i \in RoundIndex(m), n \in Nodes :
                 ~(i = last /\ n = rec.node_id) => CommitmentAt(m2, i, n) = CommitmentAt(m, i, n)
        BY <1>2, <1>3, <1>4 DEF CommitmentAt
    <1>6. HistoryCovers(m2)
        <2> SUFFICES ASSUME NEW i \in RoundIndex(m), NEW a \in Nodes,
                            CommitmentAt(m2, i, a) # None
                     PROVE  CommitmentAt(m2, i, a).commitment_hex \in m2.history_hex
            BY <1>2 DEF HistoryCovers
        <2>1. CASE i = last /\ a = rec.node_id
            BY <1>2, <1>5, <2>1
        <2>2. CASE ~(i = last /\ a = rec.node_id)
            BY <1>2, <1>5, <2>2 DEF IndInv, HistoryCovers
        <2> QED BY <2>1, <2>2
    <1>6a. HistoryIsEarned(m2)
        <2> SUFFICES ASSUME NEW h \in m2.history_hex
                     PROVE  \E i \in RoundIndex(m), a \in Nodes :
                                /\ CommitmentAt(m2, i, a) # None
                                /\ CommitmentAt(m2, i, a).commitment_hex = h
            BY <1>2 DEF HistoryIsEarned
        <2>1. CASE h = rec.commitment_hex
            <3>1. rec # None
                BY NoneAssumption DEF NoneAssumption
            <3> QED BY <1>1, <1>3, <1>5, <2>1, <3>1
        <2>2. CASE h \in m.history_hex
            <3>1. PICK i \in RoundIndex(m), a \in Nodes :
                      /\ CommitmentAt(m, i, a) # None
                      /\ CommitmentAt(m, i, a).commitment_hex = h
                BY <2>2 DEF IndInv, HistoryIsEarned
            <3>2. CommitmentAt(m, last, rec.node_id) = None
                BY <1>0, <1>4 DEF CommitmentAt
            <3>3. ~(i = last /\ a = rec.node_id)
                BY <3>1, <3>2
            <3> QED BY <1>5, <3>1, <3>3
        <2> QED BY <1>2, <2>1, <2>2
    <1>7. HashesUnique(m2)
        <2> SUFFICES ASSUME NEW i \in RoundIndex(m), NEW j \in RoundIndex(m),
                            NEW a \in Nodes, NEW b \in Nodes,
                            CommitmentAt(m2, i, a) # None,
                            CommitmentAt(m2, j, b) # None,
                            CommitmentAt(m2, i, a).commitment_hex
                                = CommitmentAt(m2, j, b).commitment_hex
                     PROVE  i = j /\ a = b
            BY <1>2 DEF HashesUnique
        <2>1. \A k \in RoundIndex(m), n \in Nodes :
                  /\ ~(k = last /\ n = rec.node_id)
                  /\ CommitmentAt(m2, k, n) # None
                  => CommitmentAt(m2, k, n).commitment_hex # rec.commitment_hex
            BY <1>1, <1>5 DEF IndInv, HistoryCovers
        <2>2. CASE i = last /\ a = rec.node_id
            BY <1>5, <2>1, <2>2
        <2>3. CASE j = last /\ b = rec.node_id
            BY <1>5, <2>1, <2>3
        <2>4. CASE ~(i = last /\ a = rec.node_id) /\ ~(j = last /\ b = rec.node_id)
            BY <1>5, <2>4 DEF IndInv, HashesUnique
        <2> QED BY <2>2, <2>3, <2>4
    <1>8. ActiveBound(m2)
        BY <1>1, <1>2 DEF IndInv, ActiveBound
    <1>9. \A i \in RoundIndex(m2) : ProposalJustified(EntryOf(m2, i))
        <2>1. ProposalJustified(EntryOf(m2, last))
            BY <1>1, <1>2 DEF ProposalJustified
        <2> QED BY <1>2, <2>1 DEF IndInv
    <1>10. RoundsOrdered(m2)
        <2>1. \A i \in RoundIndex(m) : EntryOf(m2, i).round = EntryOf(m, i).round
            BY <1>2, <1>4
        <2> QED BY <1>2, <2>1 DEF IndInv, RoundsOrdered
    <1> QED BY <1>6, <1>6a, <1>7, <1>8, <1>9, <1>10 DEF IndInv, m2

\* Accepting a proposal that passed every check preserves the invariant:
\* ActiveBound turns the checks of accept_proposal into the match predicate.
LEMMA IndPropose ==
    ASSUME NEW m \in Machine, IndInv(m), NEW p \in ProposalRecord,
           proposal_result(m, p) = "ok"
    PROVE  IndInv([m EXCEPT !.proposal = p])
    <1> DEFINE m2 == [m EXCEPT !.proposal = p]
               last == Len(m.past) + 1
    <1>1. /\ m2.past = m.past
          /\ m2.current = m.current
          /\ m2.commitments = m.commitments
          /\ m2.history_hex = m.history_hex
          /\ m2.proposal = p
        BY DEF Machine
    <1>2. Len(m.past) \in Nat
        BY EntryTypes
    <1> HIDE DEF m2
    <1>3. RoundIndex(m2) = RoundIndex(m)
        BY <1>1 DEF RoundIndex
    <1>4. \A i \in RoundIndex(m) :
              /\ i # last => EntryOf(m2, i) = EntryOf(m, i)
              /\ EntryOf(m2, i).round = EntryOf(m, i).round
              /\ EntryOf(m2, i).commitments = EntryOf(m, i).commitments
        BY <1>1, <1>2 DEF EntryOf, RoundIndex
    <1>5. \A i \in RoundIndex(m), n \in Nodes : CommitmentAt(m2, i, n) = CommitmentAt(m, i, n)
        BY <1>4 DEF CommitmentAt
    <1>6. HistoryCovers(m2) /\ HistoryIsEarned(m2) /\ HashesUnique(m2)
        BY <1>1, <1>3, <1>5 DEF IndInv, HistoryCovers, HistoryIsEarned, HashesUnique
    <1>7. ActiveBound(m2)
        BY <1>1 DEF IndInv, ActiveBound
    <1>8. EntryOf(m2, last) = [round |-> m.current, commitments |-> m.commitments, proposal |-> p]
        BY <1>1, <1>2 DEF EntryOf
    <1>9. ProposalJustified([round |-> m.current, commitments |-> m.commitments, proposal |-> p])
        <2> DEFINE req == m.commitments[p.candidate_requester]
                   prov == m.commitments[p.candidate_provider]
        <2>1. /\ p.round = m.current
              /\ p.proposer = proposer_for_round(m.current)
              /\ p.candidate_requester \in Nodes
              /\ p.candidate_provider \in Nodes
              /\ req # None
              /\ prov # None
              /\ req.public_intent.role = "requester"
              /\ prov.public_intent.role = "provider"
              /\ req.public_intent.required_capability = p.matched_capability
              /\ p.matched_capability \in prov.public_intent.capability_claims
            BY ProposalChecks
        <2>2. /\ role(p.candidate_requester) = "requester"
              /\ role(p.candidate_provider) = "provider"
              /\ req.public_intent.round = m.current
              /\ prov.public_intent.round = m.current
            BY <2>1 DEF IndInv, ActiveBound
        <2>3. p.candidate_requester = Requester /\ p.candidate_provider \in Providers
            BY <2>1, <2>2 DEF role, Nodes
        <2>4. match_predicate(req.public_intent, prov.public_intent, m.current) = "ok"
            BY <2>1, <2>2 DEF match_predicate
        <2> QED BY <2>1, <2>3, <2>4 DEF ProposalJustified
    <1>10. \A i \in RoundIndex(m2) : ProposalJustified(EntryOf(m2, i))
        BY <1>3, <1>4, <1>8, <1>9 DEF IndInv
    <1>11. RoundsOrdered(m2)
        BY <1>3, <1>4 DEF IndInv, RoundsOrdered
    <1> QED BY <1>6, <1>7, <1>10, <1>11 DEF IndInv, m2

\* Closing a round preserves the invariant: history_hex is kept, so it covers
\* the hashes of the round that moved into past.
LEMMA IndClose ==
    ASSUME NEW m \in Machine, IndInv(m), NEW next \in Nat, next > m.current
    PROVE  IndInv(close_round(m, next))
    <1> DEFINE m2 == close_round(m, next)
               new_last == Len(m.past) + 2
    <1>1. /\ \A i \in RoundIndex(m) : EntryOf(m2, i) = EntryOf(m, i)
          /\ EntryOf(m2, new_last) =
                 [round |-> next, commitments |-> NoCommitments, proposal |-> None]
          /\ RoundIndex(m2) = RoundIndex(m) \cup {new_last}
        BY EntriesAfterClose
    <1>2. /\ m2.history_hex = m.history_hex
          /\ m2.commitments = NoCommitments
          /\ m2.current = next
        BY DEF close_round
    <1>3. Len(m.past) \in Nat /\ m.current \in Nat
        BY EntryTypes DEF Machine
    <1> HIDE DEF m2
    <1>4. /\ \A i \in RoundIndex(m), n \in Nodes : CommitmentAt(m2, i, n) = CommitmentAt(m, i, n)
          /\ \A n \in Nodes : CommitmentAt(m2, new_last, n) = None
        BY <1>1 DEF CommitmentAt, NoCommitments
    <1> HIDE DEF new_last
    <1>5. HistoryCovers(m2)
        BY <1>1, <1>2, <1>4 DEF IndInv, HistoryCovers
    <1>5a. HistoryIsEarned(m2)
        BY <1>1, <1>2, <1>4 DEF IndInv, HistoryIsEarned
    <1>6. HashesUnique(m2)
        BY <1>1, <1>4 DEF IndInv, HashesUnique
    <1>7. ActiveBound(m2)
        BY <1>2 DEF ActiveBound, NoCommitments
    <1>8. \A i \in RoundIndex(m2) : ProposalJustified(EntryOf(m2, i))
        <2>1. ProposalJustified(EntryOf(m2, new_last))
            BY <1>1 DEF ProposalJustified
        <2> QED BY <1>1, <2>1 DEF IndInv
    <1>9. RoundsOrdered(m2)
        <2>1. \A i \in RoundIndex(m) :
                  /\ EntryOf(m, i).round \in Nat
                  /\ EntryOf(m, i).round < next
            <3> SUFFICES ASSUME NEW i \in RoundIndex(m)
                         PROVE  EntryOf(m, i).round \in Nat /\ EntryOf(m, i).round < next
                OBVIOUS
            <3>1. EntryOf(m, i).round \in Nat
                BY EntryTypes DEF FinalizedRound
            <3>2. EntryOf(m, Len(m.past) + 1).round = m.current
                BY <1>3 DEF EntryOf
            <3>3. CASE i = Len(m.past) + 1
                BY <1>3, <3>1, <3>2, <3>3
            <3>4. CASE i < Len(m.past) + 1
                <4>1. EntryOf(m, i).round < m.current
                    BY <1>3, <3>2, <3>4 DEF IndInv, RoundsOrdered, RoundIndex
                <4> QED BY <1>3, <3>1, <4>1
            <3> QED BY <1>3, <3>3, <3>4 DEF RoundIndex
        <2>2. \A i \in RoundIndex(m) : i < new_last
            BY <1>3 DEF RoundIndex, new_last
        <2>3. new_last \in Nat
            BY <1>3 DEF new_last
        <2> SUFFICES ASSUME NEW i \in RoundIndex(m2), NEW j \in RoundIndex(m2), i < j
                     PROVE  EntryOf(m2, i).round < EntryOf(m2, j).round
            BY DEF RoundsOrdered
        <2>4. CASE j = new_last
            <3>1. i \in RoundIndex(m)
                BY <1>1, <2>3, <2>4
            <3> QED BY <1>1, <2>1, <2>4, <3>1
        <2>5. CASE j \in RoundIndex(m)
            <3>1. i # new_last
                BY <2>2, <2>3, <2>5 DEF RoundIndex
            <3> QED BY <1>1, <2>5, <3>1 DEF IndInv, RoundsOrdered
        <2> QED BY <1>1, <2>4, <2>5
    <1> QED BY <1>5, <1>5a, <1>6, <1>7, <1>8, <1>9 DEF IndInv, m2

\* Every step preserves the inductive invariant.
LEMMA IndStep == TypeOK /\ IndInv(machine) /\ [Next]_machine => IndInv(machine)'
    <1> SUFFICES ASSUME TypeOK, IndInv(machine), [Next]_machine PROVE IndInv(machine')
        OBVIOUS
    <1>1. CASE machine' = machine
        BY <1>1
    <1>2. ASSUME NEW rec \in CommitmentRecord, commitment_result(machine, rec) = "ok",
                 machine' = insert_commitment(machine, rec)
          PROVE  IndInv(machine')
        BY <1>2, IndInsert DEF TypeOK
    <1>3. ASSUME NEW p \in ProposalRecord, proposal_result(machine, p) = "ok",
                 machine' = [machine EXCEPT !.proposal = p]
          PROVE  IndInv(machine')
        BY <1>3, IndPropose DEF TypeOK
    <1>4. ASSUME NEW next \in Nat, next > machine.current,
                 machine' = close_round(machine, next)
          PROVE  IndInv(machine')
        BY <1>4, IndClose DEF TypeOK
    <1> QED BY <1>1, <1>2, <1>3, <1>4, StepCases

\* The inductive invariant holds in every reachable state.
LEMMA Inductive == Spec => [](TypeOK /\ IndInv(machine))
    <1>1. Init => TypeOK /\ IndInv(machine)
        BY InitType, IndInit DEF Init, TypeOK
    <1>2. TypeOK /\ IndInv(machine) /\ [Next]_machine => (TypeOK /\ IndInv(machine))'
        BY TypeStep, IndStep
    <1> QED BY <1>1, <1>2, PTL DEF Spec

\* No hash is ever accepted twice by accept_commitment, across rounds and
\* nodes, for any caller.
THEOREM ReplayNeverAccepted == Spec => []ReplaySafe
    <1>1. IndInv(machine) => ReplaySafe
        BY DEF IndInv, ReplaySafe
    <1> QED BY <1>1, Inductive, PTL

\* The hashes accept_commitment remembers are those of accepted commitments and
\* of nothing else: no rejection, whatever the record, makes a hash a replay.
THEOREM HistoryIsTrue == Spec => []HistoryIsExact
    <1>1. IndInv(machine) => HistoryIsExact
        BY DEF IndInv, HistoryIsExact
    <1> QED BY <1>1, Inductive, PTL

\* Every proposal accept_proposal ever let in, and the archive of closed
\* rounds it moves to, satisfies the match predicate against the commitments
\* stored with it and comes from the rotation's proposer.
THEOREM ProposalsAreSound == Spec => []ProposalSound
    <1>1. IndInv(machine) => ProposalSound
        BY DEF IndInv, ProposalSound
    <1> QED BY <1>1, Inductive, PTL

\* advance_to never goes back: closed rounds ascend and end before the active one.
THEOREM RoundsNeverGoBack == Spec => []RoundsAscend
    <1>1. IndInv(machine) => RoundsAscend
        BY DEF IndInv, RoundsAscend
    <1> QED BY <1>1, Inductive, PTL

\* A rejected or late record never changes what a round has already accepted,
\* and a proposal freezes the commitment set it was judged against.
THEOREM AcceptedStaysAccepted == Spec => AcceptedIsFinal
    <1> DEFINE Step == machine'.current = machine.current =>
                 /\ \A n \in Nodes : machine.commitments[n] # None =>
                        machine'.commitments[n] = machine.commitments[n]
                 /\ machine.proposal # None =>
                        /\ machine'.proposal = machine.proposal
                        /\ machine'.commitments = machine.commitments
    <1>1. TypeOK /\ [Next]_machine => Step
        <2> SUFFICES ASSUME TypeOK, [Next]_machine PROVE Step
            OBVIOUS
        <2>1. CASE machine' = machine
            BY <2>1
        <2>2. ASSUME NEW rec \in CommitmentRecord, commitment_result(machine, rec) = "ok",
                     machine' = insert_commitment(machine, rec)
              PROVE  Step
            <3>1. machine.proposal = None /\ rec.node_id \in Nodes
                  /\ machine.commitments[rec.node_id] = None
                BY <2>2, CommitmentChecks DEF TypeOK
            <3>2. \A n \in Nodes : n # rec.node_id =>
                      machine'.commitments[n] = machine.commitments[n]
                BY <2>2, <3>1, EntriesAfterInsert DEF TypeOK
            <3> QED BY <3>1, <3>2
        <2>3. ASSUME NEW p \in ProposalRecord, proposal_result(machine, p) = "ok",
                     machine' = [machine EXCEPT !.proposal = p]
              PROVE  Step
            <3>1. machine.proposal = None
                BY <2>3, ProposalChecks DEF TypeOK
            <3>2. machine'.commitments = machine.commitments
                BY <2>3 DEF TypeOK, Machine
            <3> QED BY <3>1, <3>2
        <2>4. ASSUME NEW next \in Nat, next > machine.current,
                     machine' = close_round(machine, next)
              PROVE  Step
            <3>1. machine'.current # machine.current
                BY <2>4 DEF close_round, TypeOK, Machine
            <3> QED BY <3>1
        <2> QED BY <2>1, <2>2, <2>3, <2>4, StepCases
    <1>2. AcceptedIsFinal <=> [][Step]_machine
        BY DEF AcceptedIsFinal
    <1> QED BY <1>1, <1>2, TypeCorrect, PTL DEF Spec

\* advance_to archives the active round exactly as it was and never touches
\* an older entry; no other method changes the history.
THEOREM HistoryOnlyGrows == Spec => HistoryIsAppendOnly
    <1> DEFINE Step == machine'.past # machine.past =>
                 machine'.past = Append(machine.past, EntryOf(machine, Len(machine.past) + 1))
    <1>1. TypeOK /\ [Next]_machine => Step
        <2> SUFFICES ASSUME TypeOK, [Next]_machine PROVE Step
            OBVIOUS
        <2>1. CASE machine' = machine
            BY <2>1
        <2>2. ASSUME NEW rec \in CommitmentRecord,
                     machine' = insert_commitment(machine, rec)
              PROVE  Step
            BY <2>2 DEF insert_commitment, TypeOK, Machine
        <2>3. ASSUME NEW p \in ProposalRecord,
                     machine' = [machine EXCEPT !.proposal = p]
              PROVE  Step
            BY <2>3 DEF TypeOK, Machine
        <2>4. ASSUME NEW next \in Nat,
                     machine' = close_round(machine, next)
              PROVE  Step
            <3>1. Len(machine.past) \in Nat
                BY EntryTypes DEF TypeOK
            <3>2. EntryOf(machine, Len(machine.past) + 1)
                      = [round |-> machine.current, commitments |-> machine.commitments,
                         proposal |-> machine.proposal]
                BY <3>1 DEF EntryOf
            <3> QED BY <2>4, <3>2 DEF close_round
        <2> QED BY <2>1, <2>2, <2>3, <2>4, StepCases
    <1>2. HistoryIsAppendOnly <=> [][Step]_machine
        BY DEF HistoryIsAppendOnly
    <1> QED BY <1>1, <1>2, TypeCorrect, PTL DEF Spec
=============================================================================
