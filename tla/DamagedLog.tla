----------------------------- MODULE DamagedLog -----------------------------
(***************************************************************************)
(* A log between the run and its verification: one record of the finished  *)
(* log of an in-process run was changed in one field, lost or doubled, or  *)
(* one of the two fields that close the log was changed, and then          *)
(* verify checks it (verifier.rs: "tampering between runtime and log       *)
(* surfaces here").  What the log says instead is any well-typed value.    *)
(***************************************************************************)
EXTENDS LocalRun

CONSTANT Inspected      \* the scenarios whose logs are damaged
ASSUME InspectedAssumption == Inspected \subseteq Scenarios

VARIABLE published      \* the log as it is verified; None while the run goes on
dvars == <<vars, published>>

Rounds == 0..MaxRounds
Triples == [provider : NodeIds, round : Rounds, capability : Tags]

-----------------------------------------------------------------------------
(* The records a record may have become.                                   *)

ChangedCommitments(c) ==
    {[c EXCEPT !.node_id = n] : n \in NodeIds}
    \cup {[c EXCEPT !.round = r] : r \in Rounds}
    \cup {[c EXCEPT !.commitment_hex = HashOf(n, r)] : n \in NodeIds, r \in Rounds}
    \cup {[c EXCEPT !.commitment_hex.flipped = TRUE]}
    \cup {[c EXCEPT !.public_intent.node_id = n] : n \in NodeIds}
    \cup {[c EXCEPT !.public_intent.round = r] : r \in Rounds}
    \cup {[c EXCEPT !.public_intent = [role |-> "requester", node_id |-> c.node_id,
               round |-> c.round, required_capability |-> t]] : t \in Tags}
    \cup {[c EXCEPT !.public_intent = [role |-> "provider", node_id |-> c.node_id,
               round |-> c.round, capability_claims |-> ts]] : ts \in SUBSET Tags}

ChangedProposals(p) ==
    {[p EXCEPT !.proposer = n] : n \in NodeIds}
    \cup {[p EXCEPT !.round = r] : r \in Rounds}
    \cup {[p EXCEPT !.candidate_requester = n] : n \in NodeIds}
    \cup {[p EXCEPT !.candidate_provider = n] : n \in NodeIds}
    \cup {[p EXCEPT !.matched_capability = t] : t \in Tags}

ChangedProofs(p) ==
    {[p EXCEPT !.node_id = n] : n \in NodeIds}
    \cup {[p EXCEPT !.round = r] : r \in Rounds}
    \cup {[p EXCEPT !.public_inputs = None]}
    \cup {[p EXCEPT !.public_inputs.node_id = n] : n \in NodeIds}
    \cup {[p EXCEPT !.public_inputs.round = r] : r \in Rounds}
    \cup {[p EXCEPT !.public_inputs.role = x] : x \in {"requester", "provider"}}
    \cup {[p EXCEPT !.public_inputs.commitment = HashOf(n, r)] : n \in NodeIds, r \in Rounds}
    \cup {tamper_public_inputs(p)}
    \cup {[p EXCEPT !.marker = m] : m \in 0..2}

ChangedReceipts(r) ==
    {[r EXCEPT !.provider = n] : n \in NodeIds}
    \cup {[r EXCEPT !.round = x] : x \in Rounds}
    \cup {[r EXCEPT !.signature = NoSignature]}
    \cup {[r EXCEPT !.signature = [scheme |-> s, message |-> m]]
              : s \in {"ed25519", "legacy"}, m \in Triples}

\* The lists that differ from s in one record: changed, lost or doubled.
OneOff(s, Changed(_)) ==
    UNION {{[s EXCEPT ![i] = c] : c \in Changed(s[i])} \cup {RemoveAt(s, i), Append(s, s[i])}
           : i \in DOMAIN s}

Damaged(log) ==
    {[log EXCEPT !.commitments = s] : s \in OneOff(log.commitments, ChangedCommitments)}
    \cup {[log EXCEPT !.proposals = s] : s \in OneOff(log.proposals, ChangedProposals)}
    \cup {[log EXCEPT !.proofs = s] : s \in OneOff(log.proofs, ChangedProofs)}
    \cup {[log EXCEPT !.receipts = s] : s \in OneOff(log.receipts, ChangedReceipts)}
    \cup {[log EXCEPT !.final_round = r] : r \in Rounds}
    \cup {[log EXCEPT !.finalized = ~@]}

-----------------------------------------------------------------------------
DInit == Init /\ published = None

Run == published = None /\ Next /\ UNCHANGED published

Damage == /\ rt.phase = "done" /\ published = None /\ rt.scenario \in Inspected
          /\ published' \in Damaged(rt.log)
          /\ UNCHANGED vars

Closed == published # None /\ UNCHANGED dvars

DNext == Run \/ Damage \/ Closed
DSpec == DInit /\ [][DNext]_dvars /\ WF_vars(Run)

-----------------------------------------------------------------------------
\* The verify command reads it and reports it valid.
Verified == published # None /\ reindex(published) /\ verify_log(published) = {}

\* No damage to one record turns an aborted run into a finalized one or the
\* reverse, or a run finalized with one provider in one round into another,
\* without the verifier's notice.  The final_round of an aborted log may be
\* raised unnoticed: the verifier only sees that no rejection lies beyond it.
VerifiedOutcomeIsTrue ==
    Verified =>
        /\ published.finalized = rt.log.finalized
        /\ published.finalized => OutcomeOf(published) = OutcomeOf(rt.log)

\* The evidence of a verified finalized log is that of the run, although
\* each piece is checked only against others: the proposal, the hash and the
\* identity each of the pair committed to, what each proved, and the receipt.
VerifiedEvidenceIsTrue ==
    (Verified /\ published.finalized) =>
        LET p == LoggedProposal(rt.log, rt.log.final_round)
            q == LoggedProposal(published, rt.log.final_round)
            Pair == {p.candidate_requester, p.candidate_provider}
            Proofs(log) == {[proof EXCEPT !.marker = 1] : proof \in
                               {x \in ToSet(log.proofs) : x.round = log.final_round}}
        IN  /\ q = p
            /\ \A n \in Pair :
                   LET c == LoggedCommitment(rt.log, n, rt.log.final_round)
                       d == LoggedCommitment(published, n, rt.log.final_round)
                   IN  /\ d.commitment_hex = c.commitment_hex
                       /\ d.public_intent.node_id = n /\ d.public_intent.round = c.round
            /\ Proofs(published) = Proofs(rt.log)
            /\ MatchedReceipt(published, rt.log.final_round, p.candidate_provider)
               = MatchedReceipt(rt.log, rt.log.final_round, p.candidate_provider)
=============================================================================
