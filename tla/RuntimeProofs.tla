--------------------------- MODULE RuntimeProofs ----------------------------
(***************************************************************************)
(* One process of the protocol, for every topology, scenario and budget of *)
(* rounds, over a transport that may deliver, lose, delay, repeat or       *)
(* reorder the messages runtimes send: what the drain loops keep true      *)
(* whatever message comes next, and that the messages a runtime sends are  *)
(* of the kind they expect.  Both LocalRun and Cluster rest on this.       *)
(***************************************************************************)
EXTENDS Verifier, Runtime, FiniteSetTheorems, FunctionTheorems, SequenceTheorems,
        WellFoundedInduction, TLAPS

-----------------------------------------------------------------------------
(* Facts about numbers, sets and sequences.                                *)

\* A non-empty set of naturals has a smallest element.
LEMMA SmallestNat ==
    ASSUME NEW S, S \subseteq Nat, S # {} PROVE \E x \in S : \A y \in S : x <= y
<1> DEFINE R == {ss \in Nat \X Nat : ss[1] < ss[2]}
<1>1. IsWellFoundedOn(R, Nat)
  BY NatLessThanWellFounded DEF OpToRel
<1>2. PICK x \in S : \A y \in S : ~(<<y, x>> \in R)
  <2> HIDE DEF R
  <2> QED  BY <1>1, WFMin
<1>3. \A y \in S : ~(y < x)
  BY <1>2
<1> QED  BY <1>3

\* So the library's Min is one of its elements, and the least.
LEMMA MinIsLeast ==
    ASSUME NEW S, S \subseteq Nat, S # {} PROVE Min(S) \in S /\ \A y \in S : Min(S) <= y
  BY SmallestNat DEF Min

\* SetToSeq lists a finite set.
LEMMA SetToSeqLists ==
    ASSUME NEW S, IsFiniteSet(S)
    PROVE  /\ SetToSeq(S) \in Seq(S)
           /\ \A x \in S : \E i \in DOMAIN SetToSeq(S) : SetToSeq(S)[i] = x
<1> DEFINE n == Cardinality(S)
<1>1. n \in Nat /\ ExistsBijection(1..n, S)
  BY FS_CardinalityType
<1>2. PICK f : f \in [1..n -> S] /\ IsInjective(f)
  BY <1>1 DEF ExistsBijection, Bijection, Injection
<1>3. SetToSeq(S) \in [1..n -> S] /\ IsInjective(SetToSeq(S))
  BY <1>2 DEF SetToSeq
<1> DEFINE g == SetToSeq(S)
<1> HIDE DEF g
<1>4. Cardinality(1..n) = n /\ IsFiniteSet(1..n)
  <2>1. Cardinality(1..n) = IF 1 > n THEN 0 ELSE n - 1 + 1
    BY <1>1, FS_Interval
  <2> QED  BY <1>1, <2>1, FS_Interval
<1>5. ASSUME NEW x \in S, \A i \in 1..n : g[i] # x PROVE FALSE
  <2>1. g \in [1..n -> S \ {x}]
    BY <1>3, <1>5 DEF g
  <2>2. IsFiniteSet(S \ {x}) /\ Cardinality(S \ {x}) = n - 1
    BY FS_RemoveElement
  <2>3. \E i, j \in 1..n : i # j /\ g[i] = g[j]
    BY <1>1, <1>4, <2>1, <2>2, FS_PigeonHole
  <2> QED  BY <1>3, <2>3 DEF g, IsInjective
<1>6. g \in Seq(S) /\ DOMAIN g = 1..n
  BY <1>1, <1>3 DEF g
<1> QED  BY <1>5, <1>6 DEF g

\* A recursive function on 1..n exists: there is no least n for which the
\* equation of FlattenSeq's local function has no solution.
LEMMA FlattenExists ==
    ASSUME NEW s, NEW n \in Nat
    PROVE  \E f : f = [i \in 1..n |-> IF i = 1 THEN s[i] ELSE f[i - 1] \o s[i]]
<1> DEFINE Solves(f, m) == f = [i \in 1..m |-> IF i = 1 THEN s[i] ELSE f[i - 1] \o s[i]]
           T == {m \in Nat : ~\E f : Solves(f, m)}
<1>1. ASSUME T # {} PROVE FALSE
  <2>1. PICK m \in T : \A k \in T : m <= k
    <3> HIDE DEF T
    <3>1. T \subseteq Nat
      BY DEF T
    <3> QED  BY <1>1, <3>1, SmallestNat
  <2>2. CASE m = 0
    <3> DEFINE e == [i \in 1..0 |-> s[i]]
    <3>1. Solves(e, 0)
      OBVIOUS
    <3> QED  BY <2>1, <2>2, <3>1
  <2>3. CASE m > 0
    <3>1. m \in Nat /\ m - 1 \in Nat /\ m - 1 \notin T
      <4>1. m \in Nat
        BY <2>1
      <4> HIDE DEF T
      <4> QED  BY <2>1, <2>3, <4>1
    <3>2. PICK f : Solves(f, m - 1)
      BY <3>1
    <3>3. \A i \in 1..(m - 1) : f[i] = IF i = 1 THEN s[i] ELSE f[i - 1] \o s[i]
      BY <3>2
    <3> DEFINE g == [i \in 1..m |-> IF i = 1 THEN s[i] ELSE f[i - 1] \o s[i]]
    <3>4. Solves(g, m)
      <4>1. ASSUME NEW i \in 1..m, i # 1 PROVE f[i - 1] = g[i - 1]
        <5>1. i - 1 \in 1..(m - 1) /\ i - 1 \in 1..m
          BY <3>1, <4>1
        <5> QED  BY <3>3, <5>1
      <4> QED  BY <4>1
    <3> QED  BY <2>1, <3>4
  <2> QED  BY <2>1, <2>2, <2>3
<1> QED  BY <1>1

\* FlattenSeq's result holds what its parts hold, and every part of it.
LEMMA FlattenHolds ==
    ASSUME NEW S, NEW s \in Seq(Seq(S)), Len(s) > 0
    PROVE  /\ FlattenSeq(s) \in Seq(S)
           /\ \A i \in DOMAIN s : \A j \in DOMAIN s[i] :
                  \E k \in DOMAIN FlattenSeq(s) : FlattenSeq(s)[k] = s[i][j]
<1> DEFINE n == Len(s)
           Solves(f) == f = [i \in 1..n |-> IF i = 1 THEN s[i] ELSE f[i - 1] \o s[i]]
           F == CHOOSE f : Solves(f)
           Holds(m) == /\ F[m] \in Seq(S)
                       /\ \A i \in 1..m : \A j \in DOMAIN s[i] :
                              \E k \in DOMAIN F[m] : F[m][k] = s[i][j]
           T == {m \in 1..n : ~Holds(m)}
<1>1. n \in Nat /\ n > 0 /\ DOMAIN s = 1..n /\ \A i \in 1..n : s[i] \in Seq(S)
  OBVIOUS
<1>2. Solves(F)
  <2>1. \E f : Solves(f)
    BY <1>1, FlattenExists
  <2> QED  BY <2>1
<1> HIDE DEF F
<1>3. \A i \in 1..n : F[i] = IF i = 1 THEN s[i] ELSE F[i - 1] \o s[i]
  BY <1>2
<1>4. ASSUME T # {} PROVE FALSE
  <2>1. PICK m \in T : \A k \in T : m <= k
    <3> HIDE DEF T
    <3>1. T \subseteq Nat
      BY DEF T
    <3> QED  BY <1>4, <3>1, SmallestNat
  <2>2. CASE m = 1
    BY <1>1, <1>3, <2>1, <2>2
  <2>3. CASE m > 1
    <3>0. m \in 1..n /\ n \in Nat
      BY <1>1, <2>1
    <3> HIDE DEF n
    <3>1. m - 1 \in 1..n /\ m - 1 \notin T
      <4> HIDE DEF T
      <4> QED  BY <2>1, <2>3, <3>0
    <3>2. Holds(m - 1)
      BY <3>1
    <3>3. F[m] = F[m - 1] \o s[m] /\ F[m - 1] \in Seq(S) /\ s[m] \in Seq(S)
      <4>1. F[m] = IF m = 1 THEN s[m] ELSE F[m - 1] \o s[m]
        BY <1>3, <3>0
      <4>2. s[m] \in Seq(S)
        BY <1>1, <3>0
      <4>3. F[m - 1] \in Seq(S)
        BY <3>2
      <4>4. m # 1
        BY <2>3, <3>0
      <4> QED  BY <4>1, <4>2, <4>3, <4>4
    <3>4. /\ F[m] \in Seq(S)
          /\ \A k \in DOMAIN F[m - 1] : k \in DOMAIN F[m] /\ F[m][k] = F[m - 1][k]
          /\ \A k \in DOMAIN s[m] : /\ Len(F[m - 1]) + k \in DOMAIN F[m]
                                    /\ F[m][Len(F[m - 1]) + k] = s[m][k]
      <4> DEFINE a == F[m - 1]
                 b == s[m]
      <4> HIDE DEF a, b
      <4>1. a \in Seq(S) /\ b \in Seq(S) /\ F[m] = a \o b
        BY <3>3 DEF a, b
      <4>2. /\ a \o b \in Seq(S)
            /\ \A k \in DOMAIN a : k \in DOMAIN (a \o b) /\ (a \o b)[k] = a[k]
            /\ \A k \in DOMAIN b : /\ Len(a) + k \in DOMAIN (a \o b)
                                 /\ (a \o b)[Len(a) + k] = b[k]
        <5>1. a \o b \in Seq(S) /\ \A k \in DOMAIN a : k \in DOMAIN (a \o b) /\ (a \o b)[k] = a[k]
          BY <4>1
        <5>2. \A k \in DOMAIN b : /\ Len(a) + k \in DOMAIN (a \o b)
                                  /\ (a \o b)[Len(a) + k] = b[k]
          BY <4>1
        <5> QED  BY <5>1, <5>2
      <4> QED  BY <4>1, <4>2 DEF a, b
    <3>5. ASSUME NEW i \in 1..m, NEW j \in DOMAIN s[i]
          PROVE  \E k \in DOMAIN F[m] : F[m][k] = s[i][j]
      <4>1. CASE i = m
        BY <3>4, <4>1
      <4>2. CASE i # m
        <5>1. i \in 1..(m - 1)
          BY <3>0, <4>2
        <5>2. PICK k \in DOMAIN F[m - 1] : F[m - 1][k] = s[i][j]
          BY <3>2, <5>1
        <5> QED  BY <3>4, <5>2
      <4> QED  BY <4>1, <4>2
    <3> QED  BY <2>1, <3>4, <3>5
  <2> QED  BY <2>1, <2>2, <2>3
<1>5. Holds(n)
  BY <1>1, <1>4
<1>6. FlattenSeq(s) = F[n]
  BY <1>1 DEF FlattenSeq, F
<1> QED  BY <1>1, <1>5, <1>6

\* InsertAt(s, k + 1, e) keeps the first k elements, then has e, then the rest.
LEMMA InsertAtShifts ==
    ASSUME NEW S, NEW s \in Seq(S), NEW e \in S, NEW k \in Nat, k <= Len(s)
    PROVE  /\ InsertAt(s, 1 + k, e) \in Seq(S)
           /\ Len(InsertAt(s, 1 + k, e)) = Len(s) + 1
           /\ InsertAt(s, 1 + k, e)[k + 1] = e
           /\ \A i \in 1..k : InsertAt(s, 1 + k, e)[i] = s[i]
           /\ \A i \in (k + 1)..Len(s) : InsertAt(s, 1 + k, e)[i + 1] = s[i]
<1> DEFINE a == SubSeq(s, 1, k)
           b == SubSeq(s, k + 1, Len(s))
           c == Append(a, e)
<1>1. a \in Seq(S) /\ Len(a) = k /\ \A i \in 1..k : a[i] = s[i]
  OBVIOUS
<1>2. b \in Seq(S) /\ Len(b) = Len(s) - k /\ \A i \in 1..(Len(s) - k) : b[i] = s[k + i]
  OBVIOUS
<1> HIDE DEF a, b
<1>3. c \in Seq(S) /\ Len(c) = k + 1 /\ c[k + 1] = e /\ \A i \in 1..k : c[i] = s[i]
  BY <1>1
<1>4. InsertAt(s, 1 + k, e) = c \o b
  <2>1. (1 + k) - 1 = k /\ 1 + k = k + 1
    OBVIOUS
  <2>2. InsertAt(s, 1 + k, e) = (SubSeq(s, 1, (1 + k) - 1) \o <<e>>) \o SubSeq(s, 1 + k, Len(s))
    BY Zenon DEF InsertAt
  <2>3. InsertAt(s, 1 + k, e) = (a \o <<e>>) \o b
    BY <2>1, <2>2, Zenon DEF a, b
  <2>4. a \o <<e>> = c
    BY <1>1, AppendIsConcat
  <2> QED  BY <2>3, <2>4, Zenon
<1> HIDE DEF c
<1>5. /\ c \o b \in Seq(S) /\ Len(c \o b) = Len(s) + 1
      /\ (c \o b)[k + 1] = e
      /\ \A i \in 1..k : (c \o b)[i] = s[i]
      /\ \A i \in (k + 1)..Len(s) : (c \o b)[i + 1] = s[i]
  <2>1. c \o b \in Seq(S) /\ Len(c \o b) = Len(s) + 1
    <3>1. c \o b \in Seq(S) /\ Len(c \o b) = Len(c) + Len(b)
      BY <1>2, <1>3, ConcatProperties
    <3>2. (k + 1) + (Len(s) - k) = Len(s) + 1
      OBVIOUS
    <3> QED  BY <1>2, <1>3, <3>1, <3>2
  <2>2. \A i \in 1..(k + 1) : (c \o b)[i] = c[i]
    BY <1>2, <1>3
  <2>3. ASSUME NEW i \in (k + 1)..Len(s) PROVE (c \o b)[i + 1] = s[i]
    <3>1. i - k \in 1..(Len(s) - k) /\ i + 1 = Len(c) + (i - k) /\ k + (i - k) = i
      BY <1>3
    <3>2. \A j \in 1..Len(b) : (c \o b)[Len(c) + j] = b[j]
      BY <1>2, <1>3
    <3> QED  BY <1>2, <3>1, <3>2
  <2> QED  BY <1>3, <2>1, <2>2, <2>3
<1> QED  BY <1>4, <1>5

\* NodeOrder lists the configured nodes.
LEMMA NodeOrderLists ==
    /\ NodeOrder \in Seq(Nodes) /\ Len(NodeOrder) > 0
    /\ \A n \in Nodes : \E i \in DOMAIN NodeOrder : NodeOrder[i] = n
<1> DEFINE P == ProviderOrder
           D == {i \in DOMAIN ProviderOrder : ProviderOrder[i] < Requester}
           k == Cardinality(D)
<1>1. P \in Seq(Nodes) /\ Len(P) \in Nat /\ DOMAIN P = 1..Len(P) /\ Requester \in Nodes
  BY IdsAssumption DEF IdsAssumption, Nodes, Providers
<1>2. k \in Nat /\ k <= Len(P)
  <2>1. Cardinality(1..Len(P)) = IF 1 > Len(P) THEN 0 ELSE Len(P) - 1 + 1
    BY <1>1, FS_Interval
  <2>2. D \subseteq 1..Len(P)
    BY <1>1
  <2>3. IsFiniteSet(D) /\ Cardinality(D) <= Cardinality(1..Len(P))
    <3>1. IsFiniteSet(1..Len(P))
      BY <1>1, FS_Interval
    <3> HIDE DEF D
    <3> QED  BY <2>2, <3>1, FS_Subset
  <2> HIDE DEF D
  <2>4. k \in Nat
    BY <2>3, FS_CardinalityType
  <2> QED  BY <1>1, <2>1, <2>3, <2>4
<1>3. NodeOrder = InsertAt(P, 1 + k, Requester)
  BY Zenon DEF NodeOrder
<1> HIDE DEF P, k
<1>4. /\ NodeOrder \in Seq(Nodes) /\ Len(NodeOrder) = Len(P) + 1
      /\ NodeOrder[k + 1] = Requester
      /\ \A i \in 1..k : NodeOrder[i] = P[i]
      /\ \A i \in (k + 1)..Len(P) : NodeOrder[i + 1] = P[i]
  <2>1. InsertAt(P, 1 + k, Requester) \in Seq(Nodes)
    BY <1>1, <1>2, InsertAtShifts
  <2>2. Len(InsertAt(P, 1 + k, Requester)) = Len(P) + 1
    BY <1>1, <1>2, InsertAtShifts
  <2>3. InsertAt(P, 1 + k, Requester)[k + 1] = Requester
    BY <1>1, <1>2, InsertAtShifts
  <2>4. \A i \in 1..k : InsertAt(P, 1 + k, Requester)[i] = P[i]
    BY <1>1, <1>2, InsertAtShifts
  <2>5. \A i \in (k + 1)..Len(P) : InsertAt(P, 1 + k, Requester)[i + 1] = P[i]
    BY <1>1, <1>2, InsertAtShifts
  <2> QED  BY <1>3, <2>1, <2>2, <2>3, <2>4, <2>5, Zenon
<1>5. DOMAIN NodeOrder = 1..(Len(P) + 1)
  BY <1>4
<1>6. ASSUME NEW n \in Nodes PROVE \E i \in 1..(Len(P) + 1) : NodeOrder[i] = n
  <2>1. CASE n = Requester
    BY <1>1, <1>2, <1>4, <2>1
  <2>2. CASE \E j \in 1..Len(P) : n = P[j]
    <3>1. PICK j \in 1..Len(P) : n = P[j]
      BY <2>2
    <3>2. CASE j <= k
      BY <1>1, <1>2, <1>4, <3>1, <3>2
    <3>3. CASE j > k
      BY <1>1, <1>2, <1>4, <3>1, <3>3
    <3> QED  BY <1>2, <3>2, <3>3
  <2> QED  BY <2>1, <2>2 DEF Nodes, Providers, P
<1>7. Len(NodeOrder) > 0
  BY <1>1, <1>4
<1> QED  BY <1>4, <1>5, <1>6, <1>7
-----------------------------------------------------------------------------
(* What a runtime is made of, given the messages runtimes send.            *)

RoundIds == 0..MaxRounds

\* A commitment an agent builds, or an old one under the label of a new round:
\* the intent is the node's own and names the round of the record.
SentCommitments ==
    {c \in CommitmentRecord :
        /\ c.node_id \in Nodes
        /\ c.round \in RoundIds
        /\ \E r \in RoundIds : c.commitment_hex = HashOf(c.node_id, r)
        /\ c.public_intent = build_commitment(c.node_id, c.round).public_intent}

\* The public inputs repeat the record's node and round and give its role.
SentProofs ==
    {p \in [node_id : Nodes, round : RoundIds, marker : {1},
            public_inputs : [round : RoundIds, node_id : Nodes, commitment : Hexes,
                             role : {"requester", "provider"}]] :
        /\ p.public_inputs.round = p.round
        /\ p.public_inputs.node_id = p.node_id
        /\ p.public_inputs.role = role(p.node_id)}

\* A receipt is signed with the provider's own key over the required capability.
SentReceipts ==
    {r \in CompletionReceipt :
        /\ r.provider \in Providers
        /\ r.round \in RoundIds
        /\ r.signature = sign_receipt(r.provider, r.round, Required)}

CommitmentMessages == [origin : Nodes, type : {"commitment"}, rec : SentCommitments]
Messages ==
    CommitmentMessages
    \cup [origin : Nodes, type : {"proposal"}, rec : ProposalRecord]
    \cup [origin : Nodes, type : {"proof"}, rec : SentProofs]
    \cup [origin : Nodes, type : {"receipt"}, rec : SentReceipts]

Kinds == {"commitment", "proposal", "proof", "receipt", "round"}

\* Every reason code but log_duplicate.
Codes ==
    {"out_of_phase", "origin_mismatch", "already_finalized", "round_mismatch", "unknown_node",
     "role_mismatch", "duplicate_commitment", "replay_detected", "wrong_proposer",
     "unknown_requester_commitment", "unknown_provider_commitment", "tampered_proposal",
     "requester_missing", "no_feasible_provider", "candidate_error", "node_dropped",
     "wrong_round", "unknown_commitment", "public_inputs_mismatch", "missing_signature"}

Rejections == [round : RoundIds, node_id : NodeIds, kind : Kinds, reason_code : Codes]

Logs == [commitments : Seq(SentCommitments), proposals : Seq(ProposalRecord),
         proofs : Seq(SentProofs), receipts : Seq(SentReceipts),
         rejections : Seq(Rejections), final_round : Nat, finalized : BOOLEAN,
         abort_reason : {None, "max_rounds_exceeded"}]

\* Every phase but panicked.  A composing module may stop a process.
Phases == {"loop", "commit", "proposal", "proof", "receipt", "done", "failed", "killed"}

Runtimes == [agents : SUBSET Nodes, scenario : SUBSET ScenarioEvents, round_machine : Machine,
             log : Logs, historical_commitments : SUBSET SentCommitments, phase : Phases]

\* The log holds one commitment per node and round, none of a later round, and
\* of the active round exactly the machine's.
CommitmentsCoherent(m, log) ==
    /\ reindex(log)
    /\ \A i \in DOMAIN log.commitments :
           /\ log.commitments[i].round <= m.current
           /\ log.commitments[i].round = m.current
              => m.commitments[log.commitments[i].node_id] = log.commitments[i]
    /\ \A n \in Nodes : m.commitments[n] # None =>
           /\ m.commitments[n].node_id = n /\ m.commitments[n].round = m.current
           /\ \E i \in DOMAIN log.commitments : log.commitments[i] = m.commitments[n]

\* A logged proposal is the rotation's, of the requester with a provider that
\* claims the capability, and the log holds the commitments of both.
Grounded(log, p) ==
    /\ p.proposer = proposer_for_round(p.round)
    /\ p.candidate_requester = Requester
    /\ p.candidate_provider \in Providers
    /\ p.matched_capability = Required
    /\ Required \in Claims[p.candidate_provider]
    /\ LogHasCommitment(log, Requester, p.round)
    /\ LogHasCommitment(log, p.candidate_provider, p.round)

\* The log holds one proposal per round, none of a later round, and of the
\* active round exactly the machine's.
ProposalsCoherent(m, log) ==
    /\ \A i, j \in DOMAIN log.proposals :
           log.proposals[i].round = log.proposals[j].round => i = j
    /\ \A i \in DOMAIN log.proposals :
           /\ Grounded(log, log.proposals[i])
           /\ log.proposals[i].round <= m.current
           /\ log.proposals[i].round = m.current => m.proposal = log.proposals[i]
    /\ m.proposal # None =>
           /\ m.proposal.round = m.current
           /\ \E i \in DOMAIN log.proposals : log.proposals[i] = m.proposal

\* A logged proof embeds the hash of the commitment the log has of its node.
ProofsGrounded(log) ==
    \A i \in DOMAIN log.proofs : \E j \in DOMAIN log.commitments :
        /\ log.commitments[j].node_id = log.proofs[i].node_id
        /\ log.commitments[j].round = log.proofs[i].round
        /\ log.commitments[j].commitment_hex = log.proofs[i].public_inputs.commitment

RejectedBy(log, round) == \A i \in DOMAIN log.rejections : log.rejections[i].round <= round

SignedReceipts(log) == \A i \in DOMAIN log.receipts : log.receipts[i].signature # NoSignature

\* What the position in run_one_round says of machine and log.
PhaseCoherent(rt) ==
    LET m == rt.round_machine
    IN  /\ m.current <= MaxRounds
        /\ RejectedBy(rt.log, m.current)
        /\ Draining(rt) => m.current < MaxRounds
        /\ rt.phase = "loop" =>
               \A i \in DOMAIN rt.log.rejections : rt.log.rejections[i].round < m.current
        /\ rt.phase \in {"proof", "receipt"} => m.proposal # None
        /\ rt.phase = "receipt" => HasBothProofs(rt, m.proposal)
        /\ rt.phase \in {"loop", "commit", "proposal", "proof"} => rt.log.receipts = <<>>
        /\ (rt.phase = "done" /\ rt.log.finalized) =>
               /\ rt.log.final_round = m.current
               /\ m.proposal # None
               /\ HasBothProofs(rt, m.proposal)
        /\ (rt.phase = "done" /\ ~rt.log.finalized) =>
               rt.log.receipts = <<>> /\ RejectedBy(rt.log, rt.log.final_round)

\* The inductive invariant of one process.
RtInv(rt) ==
    /\ rt \in Runtimes
    /\ CommitmentsCoherent(rt.round_machine, rt.log)
    /\ ProposalsCoherent(rt.round_machine, rt.log)
    /\ ProofsGrounded(rt.log)
    /\ SignedReceipts(rt.log)
    /\ PhaseCoherent(rt)
-----------------------------------------------------------------------------
(* Topology and machine.                                                   *)

\* Node ids are naturals, and the proposer of a round is a configured provider.
LEMMA NodeFacts ==
    /\ Nodes \subseteq NodeIds /\ Nodes \subseteq Nat /\ Providers \subseteq Nodes
    /\ Requester \in Nodes /\ Requester \notin Providers
    /\ \A n \in Nodes : n # Requester => n \in Providers
    /\ \A r \in Nat : proposer_for_round(r) \in Providers
<1>1. \A r \in Nat : (r % Len(ProviderOrder)) + 1 \in 1..Len(ProviderOrder)
  BY OrderAssumption, IdsAssumption DEF OrderAssumption, IdsAssumption
<1>2. \A r \in Nat : proposer_for_round(r) \in Providers
  BY <1>1 DEF proposer_for_round, Providers
<1>3. Requester \notin Providers
  BY OrderAssumption DEF OrderAssumption, Providers
<1>4. Nodes \subseteq NodeIds /\ Providers \subseteq Nodes /\ Requester \in Nodes
  BY IdsAssumption DEF IdsAssumption, Nodes, Providers
<1>5. Nodes \subseteq Nat
  BY <1>4, IdsAssumption DEF IdsAssumption
<1> QED  BY <1>2, <1>3, <1>4, <1>5 DEF Nodes

\* There are finitely many nodes.
LEMMA NodesFinite == IsFiniteSet(Nodes)
<1>1. NodeOrder \in Seq(Nodes)
  BY NodeOrderLists
<1>2. PICK n \in Nat : DOMAIN NodeOrder = 1..n /\ NodeOrder \in [1..n -> Nodes]
  BY <1>1
<1>3. NodeOrder \in Surjection(1..n, Nodes)
  BY <1>2, NodeOrderLists DEF Surjection
<1>4. IsFiniteSet(1..n)
  BY <1>2, FS_Interval
<1> QED  BY <1>3, <1>4, FS_Surjection

\* A commitment that passes the checks of accept_commitment is for the active
\* round, before a proposal, and for a free slot of a configured node.
LEMMA CommitmentChecks ==
    ASSUME NEW m \in Machine, NEW rec \in CommitmentRecord, commitment_result(m, rec) = "ok"
    PROVE  /\ m.proposal = None /\ rec.round = m.current /\ rec.node_id \in Nodes
           /\ m.commitments[rec.node_id] = None
  BY DEF commitment_result, HasCommitment

\* A proposal that passes the checks of accept_proposal comes from the
\* rotation's proposer and refers to two stored commitments that agree with it.
LEMMA ProposalChecks ==
    ASSUME NEW m \in Machine, NEW p \in ProposalRecord, proposal_result(m, p) = "ok"
    PROVE  /\ m.proposal = None /\ p.round = m.current
           /\ p.proposer = proposer_for_round(m.current)
           /\ p.candidate_requester \in Nodes /\ p.candidate_provider \in Nodes
           /\ m.commitments[p.candidate_requester] # None
           /\ m.commitments[p.candidate_provider] # None
           /\ m.commitments[p.candidate_requester].public_intent.role = "requester"
           /\ m.commitments[p.candidate_provider].public_intent.role = "provider"
           /\ m.commitments[p.candidate_requester].public_intent.required_capability
                  = p.matched_capability
           /\ p.matched_capability
                  \in m.commitments[p.candidate_provider].public_intent.capability_claims
  BY DEF proposal_result, HasCommitment, validate_proposal_annotation, current_proposer

\* The refusals of the two checks have reason codes of their own.
LEMMA RefusalCodes ==
    ASSUME NEW m, NEW rec
    PROVE  /\ commitment_result(m, rec) # "ok" => commitment_result(m, rec) \in Codes
           /\ proposal_result(m, rec) # "ok" => proposal_result(m, rec) \in Codes
  BY DEF commitment_result, proposal_result, Codes

\* Falling back closes the round: the maps are taken and the next round is active.
LEMMA FallbackMachine ==
    ASSUME NEW m \in Machine
    PROVE  /\ advance_fallback(m) \in Machine
           /\ advance_fallback(m).current = m.current + 1
           /\ advance_fallback(m).commitments = NoCommitments
           /\ advance_fallback(m).proposal = None
<1> DEFINE f == [round |-> m.current, commitments |-> m.commitments, proposal |-> m.proposal]
<1>1. f \in FinalizedRound /\ m.current \in Nat
  BY DEF Machine, FinalizedRound
<1>2. Append(m.past, f) \in Seq(FinalizedRound)
  BY <1>1 DEF Machine
<1>3. NoCommitments \in CommitmentMap
  BY DEF NoCommitments, CommitmentMap
<1>4. ~(m.current + 1 <= m.current) /\ m.current + 1 \in Nat
  BY <1>1
<1>5. advance_fallback(m) = [current |-> m.current + 1, commitments |-> NoCommitments,
          proposal |-> None, history_hex |-> m.history_hex, past |-> Append(m.past, f)]
  BY <1>4 DEF advance_fallback, advance_to, close_round
<1> HIDE DEF f
<1> QED  BY <1>2, <1>3, <1>4, <1>5 DEF Machine
-----------------------------------------------------------------------------
(* The records of the messages.                                            *)

\* The intent an agent publishes: its own id, role and round, and the
\* capability it requires or claims.
LEMMA IntentFacts ==
    ASSUME NEW n \in Nodes, NEW r \in RoundIds
    PROVE  LET intent == build_commitment(n, r).public_intent
           IN  /\ intent \in PublicIntent
               /\ intent.role = role(n) /\ intent.node_id = n /\ intent.round = r
               /\ n = Requester => /\ intent.required_capability = Required
                                   /\ intent = [role |-> "requester", node_id |-> n, round |-> r,
                                                required_capability |-> Required]
               /\ n # Requester => /\ intent.capability_claims = Claims[n]
                                   /\ intent = [role |-> "provider", node_id |-> n, round |-> r,
                                                capability_claims |-> Claims[n]]
<1>1. r \in Nat /\ n \in NodeIds
  BY NodeFacts, MaxRoundsAssumption DEF RoundIds, MaxRoundsAssumption
<1>2. CASE n = Requester
  BY <1>1, <1>2, CapabilityAssumption
     DEF build_commitment, PublicIntent, RequesterIntent, role, CapabilityAssumption
<1>3. CASE n # Requester
  <2>1. Claims[n] \in SUBSET Tags
    BY <1>3, NodeFacts, CapabilityAssumption DEF CapabilityAssumption
  <2> QED  BY <1>1, <1>3, <2>1 DEF build_commitment, PublicIntent, ProviderIntent, role
<1> QED  BY <1>2, <1>3

\* What an agent builds for a round is a commitment of the expected kind.
LEMMA BuiltIsSent ==
    ASSUME NEW n \in Nodes, NEW r \in RoundIds PROVE build_commitment(n, r) \in SentCommitments
<1>1. r \in Nat /\ n \in NodeIds
  BY NodeFacts, MaxRoundsAssumption DEF RoundIds, MaxRoundsAssumption
<1>2. HashOf(n, r) \in Hexes
  BY HexesAssumption DEF HexesAssumption, HashOf, RoundIds
<1>3. build_commitment(n, r).public_intent \in PublicIntent
  BY IntentFacts
<1>4. /\ build_commitment(n, r).node_id = n /\ build_commitment(n, r).round = r
      /\ build_commitment(n, r).commitment_hex = HashOf(n, r)
      /\ build_commitment(n, r) = [node_id |-> n, round |-> r, commitment_hex |-> HashOf(n, r),
             public_intent |-> build_commitment(n, r).public_intent]
  BY DEF build_commitment
<1>5. build_commitment(n, r) \in CommitmentRecord
  BY <1>1, <1>2, <1>3, <1>4 DEF CommitmentRecord
<1> QED  BY <1>4, <1>5 DEF SentCommitments

\* So is an old one under the label of another round.
LEMMA RelabelledIsSent ==
    ASSUME NEW h \in SentCommitments, NEW r \in RoundIds
    PROVE  relabel(h, r) \in SentCommitments /\ relabel(h, r).node_id = h.node_id
<1> DEFINE n == h.node_id
           old == h.public_intent
           Intent(f) == build_commitment(n, f).public_intent
<1>1. /\ h \in CommitmentRecord /\ n \in Nodes /\ h.round \in RoundIds
      /\ \E f \in RoundIds : h.commitment_hex = HashOf(n, f)
      /\ old = Intent(h.round)
  BY DEF SentCommitments
<1>2. \A f \in RoundIds :
          /\ Intent(f) \in PublicIntent
          /\ n = Requester => Intent(f) = [role |-> "requester", node_id |-> n, round |-> f,
                                           required_capability |-> Required]
          /\ n # Requester => Intent(f) = [role |-> "provider", node_id |-> n, round |-> f,
                                           capability_claims |-> Claims[n]]
  <2> HIDE DEF n
  <2> QED  BY <1>1, IntentFacts
<1> HIDE DEF Intent
<1>3. [old EXCEPT !.round = r] = Intent(r)
  BY <1>1, <1>2
<1>4. relabel(h, r) = [h EXCEPT !.round = r, !.public_intent = Intent(r)]
  <2>1. relabel(h, r) = [h EXCEPT !.round = r, !.public_intent = [old EXCEPT !.round = r]]
    BY DEF relabel
  <2> QED  BY <1>3, <2>1, Zenon
<1> DEFINE c == [h EXCEPT !.round = r, !.public_intent = Intent(r)]
<1>5. /\ c.node_id = n /\ c.round = r /\ c.commitment_hex = h.commitment_hex
      /\ c.public_intent = Intent(r)
  BY <1>1 DEF CommitmentRecord
<1>6. Intent(r) \in PublicIntent /\ r \in Nat
  BY <1>2, MaxRoundsAssumption DEF RoundIds, MaxRoundsAssumption
<1>7. c \in CommitmentRecord
  BY <1>1, <1>6 DEF CommitmentRecord
<1> HIDE DEF c
<1>8. c.public_intent = build_commitment(c.node_id, c.round).public_intent
  BY <1>5 DEF Intent
<1>9. c \in SentCommitments
  BY <1>1, <1>5, <1>7, <1>8 DEF SentCommitments
<1> QED  BY <1>4, <1>5, <1>9 DEF c

\* There are finitely many messages that carry a commitment.
LEMMA CommitmentMessagesFinite == IsFiniteSet(CommitmentMessages)
<1> DEFINE T == (Nodes \X Nodes) \X (RoundIds \X RoundIds)
           F == [x \in CommitmentMessages |->
                    <<<<x.origin, x.rec.node_id>>, <<x.rec.round, x.rec.commitment_hex.round>>>>]
<1>1. IsFiniteSet(T)
  <2>1. IsFiniteSet(RoundIds)
    BY FS_Interval, MaxRoundsAssumption DEF RoundIds, MaxRoundsAssumption
  <2>2. IsFiniteSet(Nodes \X Nodes) /\ IsFiniteSet(RoundIds \X RoundIds)
    BY <2>1, NodesFinite, FS_Product
  <2> QED  BY <2>2, FS_Product
<1>2. ASSUME NEW x \in CommitmentMessages PROVE F[x] \in T
  <2>1. x.origin \in Nodes /\ x.rec \in SentCommitments
    BY DEF CommitmentMessages
  <2>2. PICK f \in RoundIds : x.rec.commitment_hex = HashOf(x.rec.node_id, f)
    BY <2>1 DEF SentCommitments
  <2>3. x.rec.commitment_hex.round = f
    BY <2>2 DEF HashOf
  <2>4. x.rec.node_id \in Nodes /\ x.rec.round \in RoundIds
    BY <2>1 DEF SentCommitments
  <2> QED  BY <2>1, <2>3, <2>4
<1>3. ASSUME NEW x \in CommitmentMessages, NEW y \in CommitmentMessages, F[x] = F[y] PROVE x = y
  <2>1. /\ x.origin = y.origin /\ x.rec.node_id = y.rec.node_id /\ x.rec.round = y.rec.round
        /\ x.rec.commitment_hex.round = y.rec.commitment_hex.round
    BY <1>3
  <2>2. x.rec \in SentCommitments /\ y.rec \in SentCommitments
    BY DEF CommitmentMessages
  <2>3. x.rec.commitment_hex = y.rec.commitment_hex
    <3>1. PICK f \in RoundIds : x.rec.commitment_hex = HashOf(x.rec.node_id, f)
      BY <2>2 DEF SentCommitments
    <3>2. PICK g \in RoundIds : y.rec.commitment_hex = HashOf(y.rec.node_id, g)
      BY <2>2 DEF SentCommitments
    <3>3. f = g
      BY <2>1, <3>1, <3>2 DEF HashOf
    <3> QED  BY <2>1, <3>1, <3>2, <3>3
  <2>4. x.rec.public_intent = y.rec.public_intent
    BY <2>1, <2>2 DEF SentCommitments
  <2>5. x.rec = y.rec
    BY <2>1, <2>2, <2>3, <2>4 DEF SentCommitments, CommitmentRecord
  <2> QED  BY <2>1, <2>5 DEF CommitmentMessages
<1> HIDE DEF T
<1>4. F \in Injection(CommitmentMessages, T)
  BY <1>2, <1>3 DEF Injection, IsInjective
<1> HIDE DEF F
<1> QED  BY <1>1, <1>4, FS_Injection
-----------------------------------------------------------------------------
(* The steps of one process, one lemma for each way it can change.         *)

\* What the entries of a log are.
LEMMA LogEntries ==
    ASSUME NEW log \in Logs
    PROVE  /\ \A i \in DOMAIN log.commitments :
                  /\ log.commitments[i] \in SentCommitments
                  /\ log.commitments[i] \in CommitmentRecord
                  /\ log.commitments[i].node_id \in Nodes /\ log.commitments[i].round \in Nat
           /\ \A i \in DOMAIN log.proposals :
                  log.proposals[i] \in ProposalRecord /\ log.proposals[i].round \in Nat
           /\ \A i \in DOMAIN log.proofs : log.proofs[i] \in SentProofs
           /\ \A i \in DOMAIN log.receipts : log.receipts[i] \in SentReceipts
           /\ \A i \in DOMAIN log.rejections :
                  log.rejections[i] \in Rejections /\ log.rejections[i].round \in Nat
<1>1. /\ log.commitments \in Seq(SentCommitments) /\ log.proposals \in Seq(ProposalRecord)
      /\ log.proofs \in Seq(SentProofs) /\ log.receipts \in Seq(SentReceipts)
      /\ log.rejections \in Seq(Rejections)
  BY DEF Logs
<1>2. /\ \A i \in DOMAIN log.commitments : log.commitments[i] \in SentCommitments
      /\ \A i \in DOMAIN log.proposals : log.proposals[i] \in ProposalRecord
      /\ \A i \in DOMAIN log.proofs : log.proofs[i] \in SentProofs
      /\ \A i \in DOMAIN log.receipts : log.receipts[i] \in SentReceipts
      /\ \A i \in DOMAIN log.rejections : log.rejections[i] \in Rejections
  BY <1>1
<1>3. \A c \in SentCommitments : c \in CommitmentRecord /\ c.node_id \in Nodes /\ c.round \in Nat
  BY DEF SentCommitments, CommitmentRecord
<1>4. \A p \in ProposalRecord : p.round \in Nat
  BY DEF ProposalRecord
<1>5. \A x \in Rejections : x.round \in Nat
  BY MaxRoundsAssumption DEF Rejections, RoundIds, MaxRoundsAssumption
<1> QED  BY <1>2, <1>3, <1>4, <1>5

\* The coherence of commitments, proposals and proofs is about these parts of
\* the log alone.
LEMMA SameEvidence ==
    ASSUME NEW m, NEW log, NEW log2, CommitmentsCoherent(m, log), ProposalsCoherent(m, log),
           ProofsGrounded(log), log2.commitments = log.commitments,
           log2.proposals = log.proposals, log2.proofs = log.proofs
    PROVE  CommitmentsCoherent(m, log2) /\ ProposalsCoherent(m, log2) /\ ProofsGrounded(log2)
<1>1. CommitmentsCoherent(m, log2)
  BY DEF CommitmentsCoherent, reindex
<1>2. \A p : Grounded(log, p) => Grounded(log2, p)
  BY DEF Grounded, LogHasCommitment
<1>3. ProposalsCoherent(m, log2)
  BY <1>2 DEF ProposalsCoherent
<1> QED  BY <1>1, <1>3 DEF ProofsGrounded

\* A machine whose maps are empty, in a round after those of the log, agrees
\* with the log.
LEMMA EmptyMachineCoherent ==
    ASSUME NEW m \in Machine, NEW m2 \in Machine, NEW log \in Logs,
           CommitmentsCoherent(m, log), ProposalsCoherent(m, log),
           m2.current = m.current + 1, m2.commitments = NoCommitments, m2.proposal = None
    PROVE  CommitmentsCoherent(m2, log) /\ ProposalsCoherent(m2, log)
<1>1. m.current \in Nat
  BY DEF Machine
<1>2. \A i \in DOMAIN log.commitments :
          log.commitments[i].round \in Nat /\ log.commitments[i].round <= m.current
  <2>1. \A i \in DOMAIN log.commitments : log.commitments[i].round \in Nat
    BY LogEntries
  <2> QED  BY <2>1 DEF CommitmentsCoherent
<1>3. \A i \in DOMAIN log.commitments :
          log.commitments[i].round <= m2.current /\ log.commitments[i].round # m2.current
  BY <1>1, <1>2
<1>4. \A i \in DOMAIN log.proposals :
          log.proposals[i].round \in Nat /\ log.proposals[i].round <= m.current
  <2>1. \A i \in DOMAIN log.proposals : log.proposals[i].round \in Nat
    BY LogEntries
  <2> QED  BY <2>1 DEF ProposalsCoherent
<1>5. \A i \in DOMAIN log.proposals :
          log.proposals[i].round <= m2.current /\ log.proposals[i].round # m2.current
  BY <1>1, <1>4
<1>6. \A n \in Nodes : m2.commitments[n] = None
  BY DEF NoCommitments
<1>7. CommitmentsCoherent(m2, log)
  BY <1>3, <1>6 DEF CommitmentsCoherent
<1>8. ProposalsCoherent(m2, log)
  BY <1>5 DEF ProposalsCoherent
<1> QED  BY <1>7, <1>8

\* A rejection changes nothing but the rejections.
LEMMA RejectKeeps ==
    ASSUME NEW rt, RtInv(rt), Draining(rt), NEW n \in NodeIds, NEW kind \in Kinds,
           NEW code \in Codes
    PROVE  LET rt2 == reject(rt, n, kind, code)
           IN  /\ RtInv(rt2)
               /\ rt2.phase = rt.phase /\ rt2.round_machine = rt.round_machine
               /\ rt2.agents = rt.agents /\ rt2.scenario = rt.scenario
               /\ rt2.log.commitments = rt.log.commitments
               /\ rt2.log.proposals = rt.log.proposals
               /\ rt2.log.proofs = rt.log.proofs /\ rt2.log.receipts = rt.log.receipts
<1> DEFINE m == rt.round_machine
           x == rejection(m.current, n, kind, code)
           log2 == [rt.log EXCEPT !.rejections = Append(@, x)]
           rt2 == [rt EXCEPT !.log = log2]
<1>1. reject(rt, n, kind, code) = rt2
  BY DEF reject, append_rejection
<1>2. /\ rt \in Runtimes /\ CommitmentsCoherent(m, rt.log) /\ ProposalsCoherent(m, rt.log)
      /\ ProofsGrounded(rt.log) /\ SignedReceipts(rt.log) /\ PhaseCoherent(rt)
  BY DEF RtInv
<1>3. m \in Machine /\ m.current \in Nat /\ rt.log \in Logs
  BY <1>2 DEF Runtimes, Machine
<1>4. x \in Rejections /\ x.round = m.current
  <2>1. m.current \in RoundIds
    BY <1>2, <1>3, MaxRoundsAssumption DEF PhaseCoherent, RoundIds, MaxRoundsAssumption
  <2> QED  BY <2>1 DEF rejection, Rejections
<1> HIDE DEF x
<1>5. /\ log2 \in Logs
      /\ log2.commitments = rt.log.commitments /\ log2.proposals = rt.log.proposals
      /\ log2.proofs = rt.log.proofs /\ log2.receipts = rt.log.receipts
      /\ log2.rejections = Append(rt.log.rejections, x)
      /\ log2.final_round = rt.log.final_round /\ log2.finalized = rt.log.finalized
  <2>1. rt.log.rejections \in Seq(Rejections)
    BY <1>3 DEF Logs
  <2>2. Append(rt.log.rejections, x) \in Seq(Rejections)
    BY <1>4, <2>1
  <2> QED  BY <1>3, <2>2 DEF Logs
<1> HIDE DEF log2
<1>6. /\ rt2 \in Runtimes
      /\ rt2.log = log2 /\ rt2.phase = rt.phase /\ rt2.round_machine = m
      /\ rt2.agents = rt.agents /\ rt2.scenario = rt.scenario
  BY <1>2, <1>5 DEF Runtimes
<1> HIDE DEF rt2
<1>7. CommitmentsCoherent(m, log2) /\ ProposalsCoherent(m, log2) /\ ProofsGrounded(log2)
  BY <1>2, <1>5, SameEvidence
<1>8. RejectedBy(log2, m.current)
  <2>1. RejectedBy(rt.log, m.current) /\ rt.log.rejections \in Seq(Rejections)
    BY <1>2, <1>3 DEF PhaseCoherent, Logs
  <2>2. \A i \in DOMAIN log2.rejections :
            log2.rejections[i] = x \/ \E j \in DOMAIN rt.log.rejections :
                                          log2.rejections[i] = rt.log.rejections[j]
    BY <1>4, <1>5, <2>1
  <2> QED  BY <1>3, <1>4, <2>1, <2>2 DEF RejectedBy
<1>9. PhaseCoherent(rt2)
  <2>1. rt.phase # "loop" /\ rt.phase # "done"
    BY DEF Draining
  <2> QED  BY <1>2, <1>5, <1>6, <1>8, <2>1 DEF PhaseCoherent, HasBothProofs, HasProof, Draining
<1>10. SignedReceipts(log2)
  BY <1>2, <1>5 DEF SignedReceipts
<1> QED  BY <1>1, <1>5, <1>6, <1>7, <1>9, <1>10 DEF RtInv

\* A round that fails leaves a coherent process at the head of the loop.
LEMMA FallbackKeeps ==
    ASSUME NEW rt, RtInv(rt), Draining(rt), rt.phase # "receipt"
    PROVE  LET rt2 == Fallback(rt)
           IN  /\ RtInv(rt2)
               /\ rt2.phase = "loop" /\ rt2.agents = rt.agents /\ rt2.scenario = rt.scenario
               /\ rt2.round_machine.current = rt.round_machine.current + 1
               /\ rt2.log = rt.log
<1> DEFINE m == rt.round_machine
           m2 == advance_fallback(m)
           rt2 == [rt EXCEPT !.round_machine = m2, !.phase = "loop"]
<1>1. Fallback(rt) = rt2
  BY DEF Fallback
<1>2. /\ rt \in Runtimes /\ CommitmentsCoherent(m, rt.log) /\ ProposalsCoherent(m, rt.log)
      /\ ProofsGrounded(rt.log) /\ SignedReceipts(rt.log) /\ PhaseCoherent(rt)
  BY DEF RtInv
<1>3. m \in Machine /\ m.current \in Nat /\ rt.log \in Logs
  BY <1>2 DEF Runtimes, Machine
<1>4. /\ m2 \in Machine /\ m2.current = m.current + 1 /\ m2.commitments = NoCommitments
      /\ m2.proposal = None
  BY <1>3, FallbackMachine
<1> HIDE DEF m2
<1>5. /\ rt2 \in Runtimes
      /\ rt2.log = rt.log /\ rt2.phase = "loop" /\ rt2.round_machine = m2
      /\ rt2.agents = rt.agents /\ rt2.scenario = rt.scenario
  BY <1>2, <1>4 DEF Runtimes, Phases
<1> HIDE DEF rt2
<1>6. CommitmentsCoherent(m2, rt.log) /\ ProposalsCoherent(m2, rt.log)
  BY <1>2, <1>3, <1>4, EmptyMachineCoherent
<1>7. m2.current <= MaxRounds
  BY <1>2, <1>3, <1>4, MaxRoundsAssumption DEF PhaseCoherent, MaxRoundsAssumption
<1>8. \A i \in DOMAIN rt.log.rejections :
          /\ rt.log.rejections[i].round < m2.current
          /\ rt.log.rejections[i].round <= m2.current
  <2>1. \A i \in DOMAIN rt.log.rejections :
            rt.log.rejections[i].round \in Nat /\ rt.log.rejections[i].round <= m.current
    BY <1>2, <1>3, LogEntries DEF PhaseCoherent, RejectedBy
  <2> QED  BY <1>3, <1>4, <2>1
<1>9. rt.log.receipts = <<>>
  BY <1>2 DEF PhaseCoherent, Draining
<1>10. PhaseCoherent(rt2)
  BY <1>5, <1>7, <1>8, <1>9 DEF PhaseCoherent, RejectedBy, Draining
<1> QED  BY <1>1, <1>2, <1>4, <1>5, <1>6, <1>10 DEF RtInv

\* A message has a node's origin, a kind, and a record of that kind.
LEMMA MessageFacts ==
    ASSUME NEW msg \in Messages
    PROVE  /\ msg.origin \in Nodes /\ msg.origin \in NodeIds /\ msg.type \in Kinds
           /\ msg.type = "commitment" => msg.rec \in SentCommitments
           /\ msg.type = "proposal" => msg.rec \in ProposalRecord
           /\ msg.type = "proof" => msg.rec \in SentProofs
           /\ msg.type = "receipt" => msg.rec \in SentReceipts
  BY NodeFacts DEF Messages, CommitmentMessages, Kinds

\* Where machine and log agree, a commitment the machine accepts is not on
\* the log: drain_commitments never logs log_duplicate.
LEMMA NeverLogDuplicate ==
    ASSUME NEW m \in Machine, NEW log \in Logs, CommitmentsCoherent(m, log),
           NEW rec \in CommitmentRecord, commitment_result(m, rec) = "ok"
    PROVE  ~LogHasCommitment(log, rec.node_id, rec.round)
<1>1. rec.round = m.current /\ rec.node_id \in Nodes /\ m.commitments[rec.node_id] = None
  BY CommitmentChecks
<1>2. ASSUME NEW i \in DOMAIN log.commitments, log.commitments[i].node_id = rec.node_id,
             log.commitments[i].round = rec.round
      PROVE  FALSE
  <2>1. m.commitments[rec.node_id] = log.commitments[i]
    BY <1>1, <1>2 DEF CommitmentsCoherent
  <2>2. log.commitments[i] \in CommitmentRecord
    BY LogEntries
  <2> QED  BY <1>1, <2>1, <2>2, NoneAssumption DEF NoneAssumption
<1> QED  BY <1>2 DEF LogHasCommitment

\* For a configured node, insert fills or replaces the slot of that node.
LEMMA InsertIsUpdate ==
    ASSUME NEW m \in Machine, NEW rec \in CommitmentRecord, rec.node_id \in Nodes
    PROVE  insert_commitment(m, rec)
               = [m EXCEPT !.history_hex = @ \cup {rec.commitment_hex},
                           !.commitments[rec.node_id] = rec]
<1>1. DOMAIN m.commitments = Nodes /\ m.commitments \in [Nodes -> CommitmentRecord \cup {None}]
  BY DEF Machine, CommitmentMap
<1>2. insert(m.commitments, rec.node_id, rec) = [m.commitments EXCEPT ![rec.node_id] = rec]
  BY <1>1 DEF insert
<1> QED  BY <1>1, <1>2 DEF insert_commitment, Machine

\* Accepting a commitment on both sides keeps machine and log in agreement.
LEMMA AcceptedCommitmentCoherent ==
    ASSUME NEW m \in Machine, NEW log \in Logs, CommitmentsCoherent(m, log),
           ProposalsCoherent(m, log), ProofsGrounded(log),
           NEW rec \in SentCommitments, commitment_result(m, rec) = "ok"
    PROVE  LET m2 == accept_commitment(m, rec)
               log2 == append_commitment(log, rec)
           IN  /\ m2 \in Machine /\ log2 \in Logs
               /\ CommitmentsCoherent(m2, log2) /\ ProposalsCoherent(m2, log2)
               /\ ProofsGrounded(log2)
               /\ m2.current = m.current /\ m2.proposal = m.proposal
               /\ log2.receipts = log.receipts /\ log2.rejections = log.rejections
               /\ log2.proofs = log.proofs
<1> DEFINE m2 == [m EXCEPT !.history_hex = @ \cup {rec.commitment_hex},
                           !.commitments[rec.node_id] = rec]
           log2 == [log EXCEPT !.commitments = Append(@, rec)]
           s == log.commitments
<1>1. accept_commitment(m, rec) = m2 /\ append_commitment(log, rec) = log2
  <2>1. rec \in CommitmentRecord /\ rec.node_id \in Nodes
    BY CommitmentChecks DEF SentCommitments
  <2>2. insert_commitment(m, rec) = m2
    BY <2>1, InsertIsUpdate
  <2> QED  BY <2>2 DEF accept_commitment, append_commitment
<1>2. /\ rec \in CommitmentRecord /\ rec.round = m.current /\ rec.node_id \in Nodes
      /\ m.commitments[rec.node_id] = None
  BY CommitmentChecks DEF SentCommitments
<1>3. /\ m2 \in Machine /\ m2.current = m.current /\ m2.proposal = m.proposal
      /\ m2.commitments = [m.commitments EXCEPT ![rec.node_id] = rec]
  BY <1>2 DEF Machine, CommitmentMap, CommitmentRecord
<1>4. m2.commitments[rec.node_id] = rec
      /\ \A n \in Nodes : n # rec.node_id => m2.commitments[n] = m.commitments[n]
  BY <1>2, <1>3 DEF Machine, CommitmentMap
<1> HIDE DEF m2
<1>5. s \in Seq(SentCommitments)
  BY DEF Logs
<1> DEFINE k == Len(s) + 1
           s2 == Append(s, rec)
<1>6. /\ s2 \in Seq(SentCommitments) /\ k \in DOMAIN s2 /\ k \notin DOMAIN s /\ s2[k] = rec
      /\ \A i \in DOMAIN s : i \in DOMAIN s2 /\ s2[i] = s[i]
      /\ \A i \in DOMAIN s2 : i \in DOMAIN s \/ i = k
  BY <1>5
<1> HIDE DEF k, s2
<1>7. /\ log2 \in Logs /\ log2.commitments = s2 /\ log2.proposals = log.proposals
      /\ log2.proofs = log.proofs /\ log2.receipts = log.receipts
      /\ log2.rejections = log.rejections
  BY <1>6 DEF Logs, s2
<1> HIDE DEF log2
<1>8. \A i \in DOMAIN s : ~(s[i].node_id = rec.node_id /\ s[i].round = rec.round)
  BY <1>2, NeverLogDuplicate DEF LogHasCommitment
<1>9. reindex(log2)
  BY <1>6, <1>7, <1>8 DEF CommitmentsCoherent, reindex
<1>10. \A i \in DOMAIN s2 : /\ s2[i].round <= m2.current
                            /\ s2[i].round = m2.current => m2.commitments[s2[i].node_id] = s2[i]
  <2>1. \A i \in DOMAIN s : s[i].node_id \in Nodes
    BY LogEntries
  <2>2. rec.round <= m.current
    BY <1>2 DEF Machine
  <2>3. ASSUME NEW i \in DOMAIN s
        PROVE  /\ s[i].round <= m.current
               /\ s[i].round = m.current => m2.commitments[s[i].node_id] = s[i]
    BY <1>2, <1>4, <1>8, <2>1 DEF CommitmentsCoherent
  <2> QED  BY <1>2, <1>3, <1>4, <1>6, <2>2, <2>3
<1>11. ASSUME NEW n \in Nodes, m2.commitments[n] # None
       PROVE  /\ m2.commitments[n].node_id = n /\ m2.commitments[n].round = m2.current
              /\ \E i \in DOMAIN s2 : s2[i] = m2.commitments[n]
  <2>1. CASE n = rec.node_id
    BY <1>2, <1>3, <1>4, <1>6, <2>1
  <2>2. CASE n # rec.node_id
    BY <1>3, <1>4, <1>6, <1>11, <2>2 DEF CommitmentsCoherent
  <2> QED  BY <2>1, <2>2
<1>12. CommitmentsCoherent(m2, log2)
  BY <1>7, <1>9, <1>10, <1>11 DEF CommitmentsCoherent
<1>13. ProposalsCoherent(m2, log2)
  <2>1. \A p : Grounded(log, p) => Grounded(log2, p)
    BY <1>6, <1>7 DEF Grounded, LogHasCommitment
  <2> QED  BY <1>3, <1>7, <2>1 DEF ProposalsCoherent
<1>14. ProofsGrounded(log2)
  <2> SUFFICES ASSUME NEW i \in DOMAIN log.proofs
               PROVE  \E j \in DOMAIN s2 :
                          /\ s2[j].node_id = log.proofs[i].node_id
                          /\ s2[j].round = log.proofs[i].round
                          /\ s2[j].commitment_hex = log.proofs[i].public_inputs.commitment
    BY <1>7 DEF ProofsGrounded
  <2>1. PICK j \in DOMAIN s : /\ s[j].node_id = log.proofs[i].node_id
                              /\ s[j].round = log.proofs[i].round
                              /\ s[j].commitment_hex = log.proofs[i].public_inputs.commitment
    BY DEF ProofsGrounded
  <2> QED  BY <1>6, <2>1
<1> QED  BY <1>1, <1>3, <1>7, <1>12, <1>13, <1>14

\* What every step keeps.
Keeps(rt, rt2) == RtInv(rt2) /\ rt2.agents = rt.agents /\ rt2.scenario = rt.scenario

\* An iteration of drain_commitments.
LEMMA DrainCommitmentKeeps ==
    ASSUME NEW rt, RtInv(rt), rt.phase = "commit", NEW msg \in Messages
    PROVE  Keeps(rt, drain_commitment(rt, msg)) /\ drain_commitment(rt, msg).phase = "commit"
<1> DEFINE rec == msg.rec
           m == rt.round_machine
           result == commitment_result(m, rec)
<1>0. Draining(rt)
  BY DEF Draining
<1>1. ASSUME NEW n \in NodeIds, NEW kind \in Kinds, NEW code \in Codes
      PROVE  Keeps(rt, reject(rt, n, kind, code)) /\ reject(rt, n, kind, code).phase = "commit"
  BY <1>0, RejectKeeps DEF Keeps
<1>2. CASE msg.type # "commitment"
  <2>1. drain_commitment(rt, msg) = reject(rt, msg.origin, msg.type, "out_of_phase")
    BY <1>2 DEF drain_commitment
  <2> QED  BY <1>1, <2>1, MessageFacts DEF Codes
<1>3. CASE msg.type = "commitment" /\ msg.origin # rec.node_id
  <2>1. drain_commitment(rt, msg) = reject(rt, msg.origin, "commitment", "origin_mismatch")
    BY <1>3 DEF drain_commitment
  <2> QED  BY <1>1, <2>1, MessageFacts DEF Codes, Kinds
<1>4. CASE msg.type = "commitment" /\ msg.origin = rec.node_id /\ result # "ok"
  <2>1. drain_commitment(rt, msg) = reject(rt, rec.node_id, "commitment", result)
    BY <1>4 DEF drain_commitment
  <2>2. result \in Codes
    BY <1>4, RefusalCodes
  <2> HIDE DEF result
  <2> QED  BY <1>1, <1>4, <2>1, <2>2, MessageFacts DEF Kinds
<1>5. CASE msg.type = "commitment" /\ msg.origin = rec.node_id /\ result = "ok"
  <2> DEFINE m2 == accept_commitment(m, rec)
             log2 == append_commitment(rt.log, rec)
             rt2 == [rt EXCEPT !.round_machine = m2, !.log = log2]
  <2>1. /\ rt \in Runtimes /\ CommitmentsCoherent(m, rt.log) /\ ProposalsCoherent(m, rt.log)
        /\ ProofsGrounded(rt.log) /\ SignedReceipts(rt.log) /\ PhaseCoherent(rt)
    BY DEF RtInv
  <2>2. m \in Machine /\ rt.log \in Logs
    BY <2>1 DEF Runtimes
  <2>3. rec \in SentCommitments /\ rec \in CommitmentRecord
    BY <1>5, MessageFacts DEF SentCommitments
  <2>4. drain_commitment(rt, msg) = rt2
    <3>1. ~LogHasCommitment(rt.log, rec.node_id, rec.round)
      BY <1>5, <2>1, <2>2, <2>3, NeverLogDuplicate
    <3>2. drain_commitment(rt, msg)
              = [[rt EXCEPT !.round_machine = accept_commitment(@, rec)]
                    EXCEPT !.log = append_commitment(@, rec)]
      BY <1>5, <3>1, Zenon DEF drain_commitment
    <3> QED  BY <2>1, <3>2 DEF Runtimes
  <2>5. /\ m2 \in Machine /\ log2 \in Logs
        /\ CommitmentsCoherent(m2, log2) /\ ProposalsCoherent(m2, log2) /\ ProofsGrounded(log2)
        /\ m2.current = m.current /\ m2.proposal = m.proposal
        /\ log2.receipts = rt.log.receipts /\ log2.rejections = rt.log.rejections
        /\ log2.proofs = rt.log.proofs
    BY <1>5, <2>1, <2>2, <2>3, AcceptedCommitmentCoherent
  <2> HIDE DEF m2, log2
  <2>6. /\ rt2 \in Runtimes /\ rt2.log = log2 /\ rt2.round_machine = m2 /\ rt2.phase = "commit"
        /\ rt2.agents = rt.agents /\ rt2.scenario = rt.scenario
    BY <2>1, <2>5 DEF Runtimes
  <2> HIDE DEF rt2
  <2>7. PhaseCoherent(rt2)
    BY <2>1, <2>5, <2>6 DEF PhaseCoherent, RejectedBy, Draining
  <2>8. SignedReceipts(log2)
    BY <2>1, <2>5 DEF SignedReceipts
  <2> QED  BY <2>4, <2>5, <2>6, <2>7, <2>8 DEF Keeps, RtInv
<1> QED  BY <1>2, <1>3, <1>4, <1>5

\* The commitment stored for a node tells who it is and what it can do.
LEMMA StoredCommitment ==
    ASSUME NEW m \in Machine, NEW log \in Logs, CommitmentsCoherent(m, log),
           NEW n \in Nodes, m.commitments[n] # None
    PROVE  LET c == m.commitments[n]
           IN  /\ c \in SentCommitments /\ c.node_id = n /\ c.round = m.current
               /\ m.current \in RoundIds
               /\ c.public_intent.role = role(n) /\ c.public_intent.node_id = n
               /\ c.public_intent.round = m.current
               /\ n = Requester => c.public_intent.required_capability = Required
               /\ n # Requester => c.public_intent.capability_claims = Claims[n]
               /\ LogHasCommitment(log, n, m.current)
<1> DEFINE c == m.commitments[n]
<1>1. /\ c.node_id = n /\ c.round = m.current
      /\ \E i \in DOMAIN log.commitments : log.commitments[i] = c
  BY DEF CommitmentsCoherent
<1>2. c \in SentCommitments
  BY <1>1, LogEntries
<1>3. m.current \in RoundIds /\ c.public_intent = build_commitment(n, m.current).public_intent
  BY <1>1, <1>2 DEF SentCommitments
<1>4. LogHasCommitment(log, n, m.current)
  BY <1>1 DEF LogHasCommitment
<1>5. \A r \in RoundIds :
          /\ build_commitment(n, r).public_intent.role = role(n)
          /\ build_commitment(n, r).public_intent.node_id = n
          /\ build_commitment(n, r).public_intent.round = r
          /\ n = Requester => build_commitment(n, r).public_intent.required_capability = Required
          /\ n # Requester => build_commitment(n, r).public_intent.capability_claims = Claims[n]
  BY DEF build_commitment, role
<1> HIDE DEF c
<1> QED  BY <1>1, <1>2, <1>3, <1>4, <1>5 DEF c

\* Accepting a proposal on both sides keeps machine and log in agreement.
LEMMA AcceptedProposalCoherent ==
    ASSUME NEW m \in Machine, NEW log \in Logs, CommitmentsCoherent(m, log),
           ProposalsCoherent(m, log), ProofsGrounded(log),
           NEW p \in ProposalRecord, proposal_result(m, p) = "ok"
    PROVE  LET m2 == accept_proposal(m, p)
               log2 == append_proposal(log, p)
           IN  /\ m2 \in Machine /\ log2 \in Logs
               /\ CommitmentsCoherent(m2, log2) /\ ProposalsCoherent(m2, log2)
               /\ ProofsGrounded(log2)
               /\ m2.current = m.current
               /\ log2.receipts = log.receipts /\ log2.rejections = log.rejections
               /\ log2.proofs = log.proofs
<1> DEFINE m2 == [m EXCEPT !.proposal = p]
           log2 == [log EXCEPT !.proposals = Append(@, p)]
           s == log.proposals
<1>1. accept_proposal(m, p) = m2 /\ append_proposal(log, p) = log2
  BY DEF accept_proposal, append_proposal
<1>2. /\ m.proposal = None /\ p.round = m.current
      /\ p.proposer = proposer_for_round(m.current)
      /\ p.candidate_requester \in Nodes /\ p.candidate_provider \in Nodes
      /\ m.commitments[p.candidate_requester] # None
      /\ m.commitments[p.candidate_provider] # None
      /\ m.commitments[p.candidate_requester].public_intent.role = "requester"
      /\ m.commitments[p.candidate_provider].public_intent.role = "provider"
      /\ m.commitments[p.candidate_requester].public_intent.required_capability
             = p.matched_capability
      /\ p.matched_capability
             \in m.commitments[p.candidate_provider].public_intent.capability_claims
  BY ProposalChecks
<1>3. Grounded(log, p)
  <2>1. p.candidate_requester = Requester /\ p.matched_capability = Required
        /\ LogHasCommitment(log, Requester, p.round)
    BY <1>2, StoredCommitment DEF role
  <2>2. /\ p.candidate_provider # Requester
        /\ LogHasCommitment(log, p.candidate_provider, p.round)
        /\ p.matched_capability \in Claims[p.candidate_provider]
    BY <1>2, StoredCommitment DEF role
  <2> QED  BY <1>2, <2>1, <2>2, NodeFacts DEF Grounded
<1>4. /\ m2 \in Machine /\ m2.current = m.current /\ m2.proposal = p
      /\ m2.commitments = m.commitments
  BY DEF Machine
<1> HIDE DEF m2
<1>5. s \in Seq(ProposalRecord)
  BY DEF Logs
<1> DEFINE k == Len(s) + 1
           s2 == Append(s, p)
<1>6. /\ s2 \in Seq(ProposalRecord) /\ k \in DOMAIN s2 /\ k \notin DOMAIN s /\ s2[k] = p
      /\ \A i \in DOMAIN s : i \in DOMAIN s2 /\ s2[i] = s[i]
      /\ \A i \in DOMAIN s2 : i \in DOMAIN s \/ i = k
  BY <1>5
<1> HIDE DEF k, s2
<1>7. /\ log2 \in Logs /\ log2.proposals = s2 /\ log2.commitments = log.commitments
      /\ log2.proofs = log.proofs /\ log2.receipts = log.receipts
      /\ log2.rejections = log.rejections
  BY <1>6 DEF Logs, s2
<1> HIDE DEF log2
<1>8. \A i \in DOMAIN s : s[i].round # m.current
  <2>1. \A i \in DOMAIN s : s[i] \in ProposalRecord
    BY LogEntries
  <2>2. \A i \in DOMAIN s : s[i].round = m.current => m.proposal = s[i]
    BY DEF ProposalsCoherent
  <2> QED  BY <1>2, <2>1, <2>2, NoneAssumption DEF NoneAssumption
<1>9. \A q : Grounded(log, q) => Grounded(log2, q)
  BY <1>7 DEF Grounded, LogHasCommitment
<1>10. \A i, j \in DOMAIN s2 : s2[i].round = s2[j].round => i = j
  BY <1>2, <1>6, <1>8 DEF ProposalsCoherent
<1>11. \A i \in DOMAIN s2 : /\ Grounded(log2, s2[i]) /\ s2[i].round <= m2.current
                            /\ s2[i].round = m2.current => m2.proposal = s2[i]
  <2>1. m.current <= m.current
    BY DEF Machine
  <2>2. \A i \in DOMAIN s : Grounded(log2, s[i]) /\ s[i].round <= m.current
    BY <1>9 DEF ProposalsCoherent
  <2> QED  BY <1>2, <1>3, <1>4, <1>6, <1>8, <1>9, <2>1, <2>2
<1>12. ProposalsCoherent(m2, log2)
  BY <1>2, <1>4, <1>6, <1>7, <1>10, <1>11 DEF ProposalsCoherent
<1>13. CommitmentsCoherent(m2, log2)
  BY <1>4, <1>7 DEF CommitmentsCoherent, reindex
<1>14. ProofsGrounded(log2)
  BY <1>7 DEF ProofsGrounded
<1> QED  BY <1>1, <1>4, <1>7, <1>12, <1>13, <1>14

\* An iteration of drain_proposal.
LEMMA DrainProposalKeeps ==
    ASSUME NEW rt, RtInv(rt), rt.phase = "proposal", NEW msg \in Messages
    PROVE  Keeps(rt, drain_proposal(rt, msg)) /\ drain_proposal(rt, msg).phase = "proposal"
<1> DEFINE p == msg.rec
           m == rt.round_machine
           result == proposal_result(m, p)
<1>0. Draining(rt)
  BY DEF Draining
<1>1. ASSUME NEW n \in NodeIds, NEW kind \in Kinds, NEW code \in Codes
      PROVE  Keeps(rt, reject(rt, n, kind, code)) /\ reject(rt, n, kind, code).phase = "proposal"
  BY <1>0, RejectKeeps DEF Keeps
<1>2. CASE msg.type # "proposal"
  <2>1. drain_proposal(rt, msg) = reject(rt, msg.origin, msg.type, "out_of_phase")
    BY <1>2 DEF drain_proposal
  <2> QED  BY <1>1, <2>1, MessageFacts DEF Codes
<1>3. CASE msg.type = "proposal" /\ msg.origin # p.proposer
  <2>1. drain_proposal(rt, msg) = reject(rt, msg.origin, "proposal", "origin_mismatch")
    BY <1>3 DEF drain_proposal
  <2> QED  BY <1>1, <2>1, MessageFacts DEF Codes, Kinds
<1>4. CASE msg.type = "proposal" /\ msg.origin = p.proposer /\ result # "ok"
  <2>1. drain_proposal(rt, msg) = reject(rt, p.proposer, "proposal", result)
    BY <1>4 DEF drain_proposal
  <2>2. result \in Codes
    BY <1>4, RefusalCodes
  <2> HIDE DEF result
  <2> QED  BY <1>1, <1>4, <2>1, <2>2, MessageFacts DEF Kinds
<1>5. CASE msg.type = "proposal" /\ msg.origin = p.proposer /\ result = "ok"
  <2> DEFINE m2 == accept_proposal(m, p)
             log2 == append_proposal(rt.log, p)
             rt2 == [rt EXCEPT !.round_machine = m2, !.log = log2]
  <2>1. /\ rt \in Runtimes /\ CommitmentsCoherent(m, rt.log) /\ ProposalsCoherent(m, rt.log)
        /\ ProofsGrounded(rt.log) /\ SignedReceipts(rt.log) /\ PhaseCoherent(rt)
    BY DEF RtInv
  <2>2. m \in Machine /\ rt.log \in Logs
    BY <2>1 DEF Runtimes
  <2>3. p \in ProposalRecord
    BY <1>5, MessageFacts
  <2>4. drain_proposal(rt, msg) = rt2
    BY <1>5 DEF drain_proposal
  <2>5. /\ m2 \in Machine /\ log2 \in Logs
        /\ CommitmentsCoherent(m2, log2) /\ ProposalsCoherent(m2, log2) /\ ProofsGrounded(log2)
        /\ m2.current = m.current
        /\ log2.receipts = rt.log.receipts /\ log2.rejections = rt.log.rejections
        /\ log2.proofs = rt.log.proofs
    BY <1>5, <2>1, <2>2, <2>3, AcceptedProposalCoherent
  <2> HIDE DEF m2, log2
  <2>6. /\ rt2 \in Runtimes /\ rt2.log = log2 /\ rt2.round_machine = m2 /\ rt2.phase = "proposal"
        /\ rt2.agents = rt.agents /\ rt2.scenario = rt.scenario
    BY <2>1, <2>5 DEF Runtimes
  <2> HIDE DEF rt2
  <2>7. PhaseCoherent(rt2)
    BY <2>1, <2>5, <2>6 DEF PhaseCoherent, RejectedBy, Draining
  <2>8. SignedReceipts(log2)
    BY <2>1, <2>5 DEF SignedReceipts
  <2> QED  BY <2>4, <2>5, <2>6, <2>7, <2>8 DEF Keeps, RtInv
<1> QED  BY <1>2, <1>3, <1>4, <1>5

\* An iteration of drain_proofs.
LEMMA DrainProofKeeps ==
    ASSUME NEW rt, RtInv(rt), rt.phase = "proof", NEW msg \in Messages
    PROVE  Keeps(rt, drain_proof(rt, msg)) /\ drain_proof(rt, msg).phase = "proof"
<1> DEFINE rec == msg.rec
           m == rt.round_machine
           Res == drain_proof(rt, msg)
<1>0. Draining(rt)
  BY DEF Draining
<1>1. ASSUME NEW n \in NodeIds, NEW kind \in Kinds, NEW code \in Codes
      PROVE  Keeps(rt, reject(rt, n, kind, code)) /\ reject(rt, n, kind, code).phase = "proof"
  BY <1>0, RejectKeeps DEF Keeps
<1>2. CASE msg.type # "proof"
  <2>1. Res = reject(rt, msg.origin, msg.type, "out_of_phase")
    BY <1>2 DEF drain_proof
  <2> QED  BY <1>1, <2>1, MessageFacts DEF Codes
<1>3. CASE msg.type = "proof" /\ msg.origin # rec.node_id
  <2>1. Res = reject(rt, msg.origin, "proof", "origin_mismatch")
    BY <1>3 DEF drain_proof
  <2> QED  BY <1>1, <2>1, MessageFacts DEF Codes, Kinds
<1>4. CASE /\ msg.type = "proof" /\ msg.origin = rec.node_id
           /\ \/ rec.round # m.current \/ ~HasCommitment(m, rec.node_id) \/ ~ProofBinds(rt, rec)
  <2>1. \E code \in Codes : Res = reject(rt, rec.node_id, "proof", code)
    <3>1. CASE rec.round # m.current
      <4>1. Res = reject(rt, rec.node_id, "proof", "wrong_round")
        BY <1>4, <3>1 DEF drain_proof
      <4> QED  BY <4>1 DEF Codes
    <3>2. CASE rec.round = m.current /\ ~HasCommitment(m, rec.node_id)
      <4>1. Res = reject(rt, rec.node_id, "proof", "unknown_commitment")
        BY <1>4, <3>2 DEF drain_proof
      <4> QED  BY <4>1 DEF Codes
    <3>3. CASE rec.round = m.current /\ HasCommitment(m, rec.node_id) /\ ~ProofBinds(rt, rec)
      <4>1. Res = reject(rt, rec.node_id, "proof", "public_inputs_mismatch")
        BY <1>4, <3>3 DEF drain_proof
      <4> QED  BY <4>1 DEF Codes
    <3> QED  BY <1>4, <3>1, <3>2, <3>3
  <2>2. rec.node_id \in NodeIds
    BY <1>4, MessageFacts
  <2> HIDE DEF Res
  <2>3. Keeps(rt, Res) /\ Res.phase = "proof"
    BY <1>1, <2>1, <2>2 DEF Kinds
  <2> QED  BY <2>3 DEF Res
<1>5. CASE /\ msg.type = "proof" /\ msg.origin = rec.node_id
           /\ rec.round = m.current /\ HasCommitment(m, rec.node_id) /\ ProofBinds(rt, rec)
  <2> DEFINE log2 == [rt.log EXCEPT !.proofs = Append(@, rec)]
             rt2 == [rt EXCEPT !.log = log2]
             s == rt.log.proofs
  <2>1. /\ rt \in Runtimes /\ CommitmentsCoherent(m, rt.log) /\ ProposalsCoherent(m, rt.log)
        /\ ProofsGrounded(rt.log) /\ SignedReceipts(rt.log) /\ PhaseCoherent(rt)
    BY DEF RtInv
  <2>2. m \in Machine /\ rt.log \in Logs
    BY <2>1 DEF Runtimes
  <2>3. rec \in SentProofs
    BY <1>5, MessageFacts
  <2>4. Res = rt2
    BY <1>5 DEF drain_proof, append_proof
  <2>5. s \in Seq(SentProofs)
    BY <2>2 DEF Logs
  <2> DEFINE s2 == Append(s, rec)
  <2>6. /\ s2 \in Seq(SentProofs)
        /\ \A i \in DOMAIN s2 : s2[i] = rec \/ \E j \in DOMAIN s : s2[i] = s[j]
    BY <2>3, <2>5
  <2> HIDE DEF s2
  <2>7. /\ log2 \in Logs /\ log2.commitments = rt.log.commitments
        /\ log2.proposals = rt.log.proposals /\ log2.proofs = s2
        /\ log2.receipts = rt.log.receipts /\ log2.rejections = rt.log.rejections
    BY <2>2, <2>6 DEF Logs, s2
  <2> HIDE DEF log2
  <2>8. /\ rt2 \in Runtimes /\ rt2.log = log2 /\ rt2.round_machine = m /\ rt2.phase = "proof"
        /\ rt2.agents = rt.agents /\ rt2.scenario = rt.scenario
    BY <2>1, <2>7 DEF Runtimes
  <2> HIDE DEF rt2
  <2>9. \E j \in DOMAIN rt.log.commitments :
            /\ rt.log.commitments[j].node_id = rec.node_id
            /\ rt.log.commitments[j].round = rec.round
            /\ rt.log.commitments[j].commitment_hex = rec.public_inputs.commitment
    <3>1. rec.node_id \in Nodes /\ m.commitments[rec.node_id] # None
      BY <1>5 DEF HasCommitment
    <3>2. PICK j \in DOMAIN rt.log.commitments : rt.log.commitments[j] = m.commitments[rec.node_id]
      BY <2>1, <3>1 DEF CommitmentsCoherent
    <3>3. /\ rt.log.commitments[j].node_id = rec.node_id
          /\ rt.log.commitments[j].round = rec.round
      BY <1>5, <2>1, <3>1, <3>2 DEF CommitmentsCoherent
    <3>4. rt.log.commitments[j].commitment_hex \in Hexes
      BY <2>2, LogEntries DEF CommitmentRecord
    <3>5. rec.public_inputs.commitment = rt.log.commitments[j].commitment_hex
      BY <1>5, <3>2, <3>4, NoneAssumption
         DEF ProofBinds, extract_commitment_hash, NoneAssumption
    <3> QED  BY <3>3, <3>5
  <2>10. ProofsGrounded(log2)
    BY <2>1, <2>6, <2>7, <2>9 DEF ProofsGrounded
  <2>11. CommitmentsCoherent(m, log2)
    BY <2>1, <2>7 DEF CommitmentsCoherent, reindex
  <2>12. ProposalsCoherent(m, log2)
    <3>1. \A p : Grounded(rt.log, p) => Grounded(log2, p)
      BY <2>7 DEF Grounded, LogHasCommitment
    <3> QED  BY <2>1, <2>7, <3>1 DEF ProposalsCoherent
  <2>13. PhaseCoherent(rt2)
    BY <2>1, <2>7, <2>8 DEF PhaseCoherent, RejectedBy, Draining
  <2>14. SignedReceipts(log2)
    BY <2>1, <2>7 DEF SignedReceipts
  <2> QED  BY <2>4, <2>8, <2>10, <2>11, <2>12, <2>13, <2>14 DEF Keeps, RtInv
<1> QED  BY <1>2, <1>3, <1>4, <1>5

\* An iteration of drain_receipts.
LEMMA DrainReceiptKeeps ==
    ASSUME NEW rt, RtInv(rt), rt.phase = "receipt", NEW msg \in Messages
    PROVE  Keeps(rt, drain_receipt(rt, msg)) /\ drain_receipt(rt, msg).phase = "receipt"
<1> DEFINE r == msg.rec
           m == rt.round_machine
           Res == drain_receipt(rt, msg)
<1>0. Draining(rt)
  BY DEF Draining
<1>1. ASSUME NEW n \in NodeIds, NEW kind \in Kinds, NEW code \in Codes
      PROVE  Keeps(rt, reject(rt, n, kind, code)) /\ reject(rt, n, kind, code).phase = "receipt"
  BY <1>0, RejectKeeps DEF Keeps
<1>2. CASE msg.type # "receipt"
  <2>1. Res = reject(rt, msg.origin, msg.type, "out_of_phase")
    BY <1>2 DEF drain_receipt
  <2> QED  BY <1>1, <2>1, MessageFacts DEF Codes
<1>3. CASE msg.type = "receipt" /\ msg.origin # r.provider
  <2>1. Res = reject(rt, msg.origin, "receipt", "origin_mismatch")
    BY <1>3 DEF drain_receipt
  <2> QED  BY <1>1, <2>1, MessageFacts DEF Codes, Kinds
<1>4. CASE /\ msg.type = "receipt" /\ msg.origin = r.provider
           /\ r.round # m.current \/ r.signature = NoSignature
  <2>1. \E code \in Codes : Res = reject(rt, r.provider, "receipt", code)
    <3>1. CASE r.round # m.current
      <4>1. Res = reject(rt, r.provider, "receipt", "wrong_round")
        BY <1>4, <3>1 DEF drain_receipt
      <4> QED  BY <4>1 DEF Codes
    <3>2. CASE r.round = m.current /\ r.signature = NoSignature
      <4>1. Res = reject(rt, r.provider, "receipt", "missing_signature")
        BY <1>4, <3>2 DEF drain_receipt
      <4> QED  BY <4>1 DEF Codes
    <3> QED  BY <1>4, <3>1, <3>2
  <2>2. r.provider \in NodeIds
    BY <1>4, MessageFacts
  <2> HIDE DEF Res
  <2>3. Keeps(rt, Res) /\ Res.phase = "receipt"
    BY <1>1, <2>1, <2>2 DEF Kinds
  <2> QED  BY <2>3 DEF Res
<1>5. CASE /\ msg.type = "receipt" /\ msg.origin = r.provider
           /\ r.round = m.current /\ r.signature # NoSignature
  <2> DEFINE log2 == [rt.log EXCEPT !.receipts = Append(@, r)]
             rt2 == [rt EXCEPT !.log = log2]
             s == rt.log.receipts
  <2>1. /\ rt \in Runtimes /\ CommitmentsCoherent(m, rt.log) /\ ProposalsCoherent(m, rt.log)
        /\ ProofsGrounded(rt.log) /\ SignedReceipts(rt.log) /\ PhaseCoherent(rt)
    BY DEF RtInv
  <2>2. m \in Machine /\ rt.log \in Logs
    BY <2>1 DEF Runtimes
  <2>3. r \in SentReceipts
    BY <1>5, MessageFacts
  <2>4. Res = rt2
    BY <1>5 DEF drain_receipt, append_receipt
  <2>5. s \in Seq(SentReceipts)
    BY <2>2 DEF Logs
  <2> DEFINE s2 == Append(s, r)
  <2>6. /\ s2 \in Seq(SentReceipts)
        /\ \A i \in DOMAIN s2 : s2[i] = r \/ \E j \in DOMAIN s : s2[i] = s[j]
    BY <2>3, <2>5
  <2> HIDE DEF s2
  <2>7. /\ log2 \in Logs /\ log2.commitments = rt.log.commitments
        /\ log2.proposals = rt.log.proposals /\ log2.proofs = rt.log.proofs
        /\ log2.receipts = s2 /\ log2.rejections = rt.log.rejections
    BY <2>2, <2>6 DEF Logs, s2
  <2> HIDE DEF log2
  <2>8. /\ rt2 \in Runtimes /\ rt2.log = log2 /\ rt2.round_machine = m /\ rt2.phase = "receipt"
        /\ rt2.agents = rt.agents /\ rt2.scenario = rt.scenario
    BY <2>1, <2>7 DEF Runtimes
  <2> HIDE DEF rt2
  <2>9. CommitmentsCoherent(m, log2) /\ ProposalsCoherent(m, log2) /\ ProofsGrounded(log2)
    BY <2>1, <2>7, SameEvidence
  <2>10. PhaseCoherent(rt2)
    BY <2>1, <2>7, <2>8 DEF PhaseCoherent, RejectedBy, Draining, HasBothProofs, HasProof
  <2>11. SignedReceipts(log2)
    BY <1>5, <2>1, <2>6, <2>7 DEF SignedReceipts
  <2> QED  BY <2>4, <2>8, <2>9, <2>10, <2>11 DEF Keeps, RtInv
<1> QED  BY <1>2, <1>3, <1>4, <1>5

\* Whatever message comes next, a drain loop keeps the process coherent.
LEMMA DrainKeeps ==
    ASSUME NEW rt, RtInv(rt), Draining(rt), NEW msg \in Messages
    PROVE  Keeps(rt, Drain(rt, msg)) /\ Drain(rt, msg).phase = rt.phase
<1>1. CASE rt.phase = "commit"
  <2>1. Drain(rt, msg) = drain_commitment(rt, msg)
    BY <1>1 DEF Drain
  <2> QED  BY <1>1, <2>1, DrainCommitmentKeeps
<1>2. CASE rt.phase = "proposal"
  <2>1. Drain(rt, msg) = drain_proposal(rt, msg)
    BY <1>2 DEF Drain
  <2> QED  BY <1>2, <2>1, DrainProposalKeeps
<1>3. CASE rt.phase = "proof"
  <2>1. Drain(rt, msg) = drain_proof(rt, msg)
    BY <1>3 DEF Drain
  <2> QED  BY <1>3, <2>1, DrainProofKeeps
<1>4. CASE rt.phase = "receipt"
  <2>1. Drain(rt, msg) = drain_receipt(rt, msg)
    BY <1>4 DEF Drain
  <2> QED  BY <1>4, <2>1, DrainReceiptKeeps
<1> QED  BY <1>1, <1>2, <1>3, <1>4 DEF Draining

\* A step that moves the process to another phase of the same round.
LEMMA PhaseChangeKeeps ==
    ASSUME NEW rt, RtInv(rt), Draining(rt), rt.phase # "receipt",
           NEW next \in {"proposal", "proof", "receipt"},
           next \in {"proof", "receipt"} => rt.round_machine.proposal # None,
           next = "receipt" => HasBothProofs(rt, rt.round_machine.proposal)
    PROVE  Keeps(rt, [rt EXCEPT !.phase = next]) /\ [rt EXCEPT !.phase = next].phase = next
<1> DEFINE rt2 == [rt EXCEPT !.phase = next]
<1>1. rt \in Runtimes /\ PhaseCoherent(rt)
  BY DEF RtInv
<1>2. /\ rt2 \in Runtimes /\ rt2.phase = next /\ rt2.log = rt.log
      /\ rt2.round_machine = rt.round_machine /\ rt2.agents = rt.agents
      /\ rt2.scenario = rt.scenario
  BY <1>1 DEF Runtimes, Phases
<1> HIDE DEF rt2
<1>3. PhaseCoherent(rt2)
  BY <1>1, <1>2 DEF PhaseCoherent, Draining, HasBothProofs
<1>4. RtInv(rt2)
  BY <1>2, <1>3 DEF RtInv
<1> QED  BY <1>2, <1>4 DEF Keeps, rt2

-----------------------------------------------------------------------------
(* Looking things up in the log.                                           *)

\* iter().find() returns the one commitment a coherent log has of a node and
\* a round; of the active round it is the machine's.
LEMMA LookupCommitment ==
    ASSUME NEW m \in Machine, NEW log \in Logs, CommitmentsCoherent(m, log)
    PROVE  /\ \A i \in DOMAIN log.commitments :
                  LoggedCommitment(log, log.commitments[i].node_id, log.commitments[i].round)
                      = log.commitments[i]
           /\ \A n \in Nodes : LoggedCommitment(log, n, m.current) = m.commitments[n]
<1> DEFINE Hits(n, r) == {i \in DOMAIN log.commitments :
                             log.commitments[i].node_id = n /\ log.commitments[i].round = r}
<1>1. \A n, r : LoggedCommitment(log, n, r)
                    = IF Hits(n, r) = {} THEN None ELSE log.commitments[Min(Hits(n, r))]
  BY DEF LoggedCommitment
<1>2. ASSUME NEW i \in DOMAIN log.commitments, NEW n, NEW r,
             log.commitments[i].node_id = n, log.commitments[i].round = r
      PROVE  LoggedCommitment(log, n, r) = log.commitments[i]
  <2>1. Hits(n, r) = {i}
    BY <1>2 DEF CommitmentsCoherent, reindex
  <2> HIDE DEF Hits
  <2>2. Min({i}) = i
    <3>1. i \in Nat
      <4>1. log.commitments \in Seq(SentCommitments)
        BY DEF Logs
      <4> QED  BY <4>1
    <3> QED  BY <3>1, MinIsLeast
  <2> QED  BY <1>1, <2>1, <2>2
<1>3. ASSUME NEW n \in Nodes PROVE LoggedCommitment(log, n, m.current) = m.commitments[n]
  <2>1. CASE m.commitments[n] = None
    <3>1. Hits(n, m.current) = {}
      <4>1. \A i \in DOMAIN log.commitments : log.commitments[i] \in CommitmentRecord
        BY LogEntries
      <4>2. \A i \in Hits(n, m.current) : m.commitments[n] = log.commitments[i]
        BY DEF CommitmentsCoherent
      <4> QED  BY <2>1, <4>1, <4>2, NoneAssumption DEF NoneAssumption
    <3> HIDE DEF Hits
    <3> QED  BY <1>1, <2>1, <3>1
  <2>2. CASE m.commitments[n] # None
    <3>1. PICK i \in DOMAIN log.commitments : log.commitments[i] = m.commitments[n]
      BY <2>2 DEF CommitmentsCoherent
    <3>2. log.commitments[i].node_id = n /\ log.commitments[i].round = m.current
      BY <2>2, <3>1 DEF CommitmentsCoherent
    <3> QED  BY <1>2, <3>1, <3>2
  <2> QED  BY <2>1, <2>2
<1> QED  BY <1>2, <1>3

\* iter().rev().find() returns the one proposal a coherent log has of a
\* round; of the active round it is the machine's.
LEMMA LookupProposal ==
    ASSUME NEW m \in Machine, NEW log \in Logs, ProposalsCoherent(m, log)
    PROVE  /\ \A i \in DOMAIN log.proposals :
                  LoggedProposal(log, log.proposals[i].round) = log.proposals[i]
           /\ LoggedProposal(log, m.current) = m.proposal
<1> DEFINE Hits(r) == {i \in DOMAIN log.proposals : log.proposals[i].round = r}
<1>1. \A r : LoggedProposal(log, r)
                 = IF Hits(r) = {} THEN None ELSE log.proposals[Max(Hits(r))]
  BY DEF LoggedProposal
<1>2. ASSUME NEW i \in DOMAIN log.proposals, NEW r, log.proposals[i].round = r
      PROVE  LoggedProposal(log, r) = log.proposals[i]
  <2>1. Hits(r) = {i}
    BY <1>2 DEF ProposalsCoherent
  <2> HIDE DEF Hits
  <2>2. Max({i}) = i
    <3>1. i \in Nat
      <4>1. log.proposals \in Seq(ProposalRecord)
        BY DEF Logs
      <4> QED  BY <4>1
    <3> QED  BY <3>1 DEF Max
  <2> QED  BY <1>1, <2>1, <2>2
<1>3. LoggedProposal(log, m.current) = m.proposal
  <2>1. CASE m.proposal = None
    <3>1. Hits(m.current) = {}
      <4>1. \A i \in DOMAIN log.proposals : log.proposals[i] \in ProposalRecord
        BY LogEntries
      <4>2. \A i \in Hits(m.current) : m.proposal = log.proposals[i]
        BY DEF ProposalsCoherent
      <4> QED  BY <2>1, <4>1, <4>2, NoneAssumption DEF NoneAssumption
    <3> HIDE DEF Hits
    <3> QED  BY <1>1, <2>1, <3>1
  <2>2. CASE m.proposal # None
    <3>1. PICK i \in DOMAIN log.proposals : log.proposals[i] = m.proposal
      BY <2>2 DEF ProposalsCoherent
    <3> QED  BY <1>2, <2>2, <3>1 DEF ProposalsCoherent
  <2> QED  BY <2>1, <2>2
<1> QED  BY <1>2, <1>3

\* The accepted proposal of the active round is grounded, and the machine
\* has the commitments of both its parties.
LEMMA AcceptedProposal ==
    ASSUME NEW m \in Machine, NEW log \in Logs, CommitmentsCoherent(m, log),
           ProposalsCoherent(m, log), m.proposal # None
    PROVE  /\ m.proposal \in ProposalRecord /\ Grounded(log, m.proposal)
           /\ m.proposal.round = m.current
           /\ HasCommitment(m, Requester) /\ HasCommitment(m, m.proposal.candidate_provider)
<1>1. PICK i \in DOMAIN log.proposals : log.proposals[i] = m.proposal
  BY DEF ProposalsCoherent
<1>2. m.proposal \in ProposalRecord /\ Grounded(log, m.proposal) /\ m.proposal.round = m.current
  BY <1>1, LogEntries DEF ProposalsCoherent
<1>3. ASSUME NEW n \in Nodes, LogHasCommitment(log, n, m.current) PROVE HasCommitment(m, n)
  <2>1. PICK j \in DOMAIN log.commitments :
            log.commitments[j].node_id = n /\ log.commitments[j].round = m.current
    BY <1>3 DEF LogHasCommitment
  <2>2. m.commitments[n] = log.commitments[j]
    BY <2>1 DEF CommitmentsCoherent
  <2>3. log.commitments[j] # None
    BY LogEntries, NoneAssumption DEF NoneAssumption
  <2> QED  BY <2>2, <2>3 DEF HasCommitment
<1> QED  BY <1>2, <1>3, NodeFacts DEF Grounded

-----------------------------------------------------------------------------
(* What a process sends.                                                   *)

\* What the nodes of A contribute, in key order.
Gathered(A, f) ==
    FlattenSeq([i \in DOMAIN NodeOrder |->
                    IF NodeOrder[i] \in A THEN f[NodeOrder[i]] ELSE <<>>])

HoldsPart(all, A, f) == \A n \in A : \A j \in DOMAIN f[n] : \E k \in DOMAIN all : all[k] = f[n][j]

\* Walking the agents in key order collects every agent's part.
LEMMA KeyOrderCollects ==
    ASSUME NEW S, NEW A, A \subseteq Nodes, NEW f \in [Nodes -> Seq(S)]
    PROVE  Gathered(A, f) \in Seq(S) /\ HoldsPart(Gathered(A, f), A, f)
<1> DEFINE s == [i \in DOMAIN NodeOrder |->
                    IF NodeOrder[i] \in A THEN f[NodeOrder[i]] ELSE <<>>]
<1>1. PICK l \in Nat : /\ DOMAIN NodeOrder = 1..l /\ l > 0
                       /\ \A i \in 1..l : NodeOrder[i] \in Nodes
  <2>1. Len(NodeOrder) \in Nat /\ DOMAIN NodeOrder = 1..Len(NodeOrder) /\ Len(NodeOrder) > 0
        /\ \A i \in 1..Len(NodeOrder) : NodeOrder[i] \in Nodes
    BY NodeOrderLists
  <2> QED  BY <2>1
<1>2. s \in [1..l -> Seq(S)]
  <2>1. <<>> \in Seq(S)
    OBVIOUS
  <2> QED  BY <1>1, <2>1
<1>3. s \in Seq(Seq(S)) /\ Len(s) = l /\ DOMAIN s = 1..l
  BY <1>1, <1>2
<1>4. \A n \in A : \E i \in DOMAIN s : s[i] = f[n]
  BY <1>1, NodeOrderLists
<1> HIDE DEF s
<1>5. /\ FlattenSeq(s) \in Seq(S)
      /\ \A i \in DOMAIN s : \A j \in DOMAIN s[i] :
             \E k \in DOMAIN FlattenSeq(s) : FlattenSeq(s)[k] = s[i][j]
  BY <1>1, <1>3, FlattenHolds
<1>6. \A n \in A : \A j \in DOMAIN f[n] : \E k \in DOMAIN FlattenSeq(s) : FlattenSeq(s)[k] = f[n][j]
  BY <1>4, <1>5
<1>7. Gathered(A, f) = FlattenSeq(s)
  BY Zenon DEF s, Gathered
<1> QED  BY <1>5, <1>6, <1>7 DEF HoldsPart

\* What an agent sends in a round are commitments under its own name.
LEMMA AgentMessagesTyped ==
    ASSUME NEW rt \in Runtimes, NEW n \in Nodes, NEW r \in RoundIds
    PROVE  AgentMessages(rt, n, r) \in Seq(CommitmentMessages)
<1> DEFINE events   == events_for_round(rt.scenario, n, r)
           replayed == {h \in rt.historical_commitments :
                           \E e \in events : /\ e.kind = "replay_prior_commitment"
                                             /\ h.node_id = n
                                             /\ h.round = e.from_round}
           msgs     == {message(n, "commitment", relabel(h, r)) : h \in replayed}
           own      == <<message(n, "commitment", build_commitment(n, r))>>
           doubled  == \E e \in events : e.kind = "double_commit"
           rest     == IF has_dropped(rt.scenario, n, r) THEN <<>>
                       ELSE own \o (IF doubled THEN own ELSE <<>>)
<1>1. AgentMessages(rt, n, r) = SetToSeq(msgs) \o rest
  BY Zenon DEF AgentMessages
<1>2. replayed \subseteq SentCommitments
  BY DEF Runtimes
<1> HIDE DEF replayed
<1>3. msgs \subseteq CommitmentMessages
  BY <1>2, RelabelledIsSent DEF message, CommitmentMessages
<1> HIDE DEF msgs
<1>4. IsFiniteSet(msgs)
  BY <1>3, CommitmentMessagesFinite, FS_Subset
<1>5. SetToSeq(msgs) \in Seq(CommitmentMessages)
  <2>1. SetToSeq(msgs) \in Seq(msgs)
    BY <1>4, SetToSeqLists
  <2> DEFINE q == SetToSeq(msgs)
  <2> HIDE DEF q
  <2>2. q \in Seq(msgs)
    BY <2>1 DEF q
  <2>3. q \in Seq(CommitmentMessages)
    BY <1>3, <2>2
  <2> QED  BY <2>3 DEF q
<1>6. own \in Seq(CommitmentMessages)
  <2>1. message(n, "commitment", build_commitment(n, r)) \in CommitmentMessages
    BY BuiltIsSent DEF message, CommitmentMessages
  <2> QED  BY <2>1
<1> HIDE DEF own, doubled
<1>7. rest \in Seq(CommitmentMessages)
  BY <1>6
<1> HIDE DEF rest
<1>8. SetToSeq(msgs) \o rest \in Seq(CommitmentMessages)
  BY <1>5, <1>7, ConcatProperties
<1> QED  BY <1>1, <1>8

\* A step keeps the process coherent and sends messages of the known kinds.
Sound(rt, step) == Keeps(rt, step.rt) /\ step.out \in Seq(Messages)

\* The start of a round.
LEMMA BroadcastCommitmentsSound ==
    ASSUME NEW rt, RtInv(rt), rt.phase = "loop", ~LoopExhausted(rt)
    PROVE  LET res == broadcast_commitments(rt)
           IN  /\ Sound(rt, res) /\ res.out \in Seq(CommitmentMessages)
               /\ res.rt.phase = "commit" /\ res.rt.round_machine = rt.round_machine
               /\ res.rt.log.proposals = rt.log.proposals /\ res.rt.log.proofs = rt.log.proofs
<1> DEFINE m == rt.round_machine
           r == m.current
           Silent(n) == has_dropped(rt.scenario, n, r)
           Dropped(n) == IF Silent(n) THEN <<rejection(r, n, "commitment", "node_dropped")>>
                         ELSE <<>>
           Sent(n)   == AgentMessages(rt, n, r)
           spoken    == {n \in rt.agents : ~Silent(n)}
           drops     == InKeyOrder(rt, Dropped)
           out       == InKeyOrder(rt, Sent)
           hist      == rt.historical_commitments \cup {build_commitment(n, r) : n \in spoken}
           rt2       == [rt EXCEPT !.log.rejections = @ \o drops,
                                   !.historical_commitments = hist, !.phase = "commit"]
<1>1. broadcast_commitments(rt).rt = rt2 /\ broadcast_commitments(rt).out = out
  BY DEF broadcast_commitments
<1>2. /\ rt \in Runtimes /\ CommitmentsCoherent(m, rt.log) /\ ProposalsCoherent(m, rt.log)
      /\ ProofsGrounded(rt.log) /\ SignedReceipts(rt.log) /\ PhaseCoherent(rt)
  BY DEF RtInv
<1>3. m \in Machine /\ rt.log \in Logs /\ rt.agents \subseteq Nodes
  BY <1>2 DEF Runtimes
<1>4. r \in Nat /\ r < MaxRounds /\ r \in RoundIds
  <2>1. r \in Nat
    BY <1>3 DEF Machine
  <2> QED  BY <2>1, MaxRoundsAssumption DEF LoopExhausted, RoundIds, MaxRoundsAssumption
<1>5. out \in Seq(CommitmentMessages)
  <2> DEFINE f == [n \in Nodes |-> Sent(n)]
  <2>1. f \in [Nodes -> Seq(CommitmentMessages)]
    <3>1. \A n \in Nodes : Sent(n) \in Seq(CommitmentMessages)
      BY <1>2, <1>4, AgentMessagesTyped
    <3> HIDE DEF Sent
    <3> QED  BY <3>1
  <2>2. out = Gathered(rt.agents, f)
    <3>1. \A i \in DOMAIN NodeOrder : NodeOrder[i] \in Nodes
      BY NodeOrderLists
    <3> HIDE DEF Sent
    <3>2. \A i \in DOMAIN NodeOrder : f[NodeOrder[i]] = Sent(NodeOrder[i])
      BY <3>1
    <3>3. [i \in DOMAIN NodeOrder |-> IF NodeOrder[i] \in rt.agents THEN f[NodeOrder[i]] ELSE <<>>]
          = [i \in DOMAIN NodeOrder |->
                IF NodeOrder[i] \in rt.agents THEN Sent(NodeOrder[i]) ELSE <<>>]
      BY <3>2
    <3>4. out = FlattenSeq([i \in DOMAIN NodeOrder |->
                    IF NodeOrder[i] \in rt.agents THEN Sent(NodeOrder[i]) ELSE <<>>])
      BY Zenon DEF InKeyOrder
    <3> QED  BY <3>3, <3>4, Zenon DEF Gathered
  <2> HIDE DEF f, out
  <2> QED  BY <1>3, <2>1, <2>2, KeyOrderCollects
<1>6. drops \in Seq(Rejections) /\ \A i \in DOMAIN drops : drops[i].round = r
  <2> DEFINE D == {x \in Rejections : x.round = r}
             f == [n \in Nodes |-> Dropped(n)]
  <2>1. f \in [Nodes -> Seq(D)]
    <3>1. \A n \in Nodes : rejection(r, n, "commitment", "node_dropped") \in D
      BY <1>4, NodeFacts DEF rejection, Rejections, Kinds, Codes
    <3>2. \A n \in Nodes : Dropped(n) \in Seq(D)
      <4> HIDE DEF D
      <4> QED  BY <3>1
    <3> HIDE DEF Dropped, D
    <3> QED  BY <3>2
  <2>2. drops = Gathered(rt.agents, f)
    <3>1. \A i \in DOMAIN NodeOrder : NodeOrder[i] \in Nodes
      BY NodeOrderLists
    <3> HIDE DEF Dropped
    <3>2. \A i \in DOMAIN NodeOrder : f[NodeOrder[i]] = Dropped(NodeOrder[i])
      BY <3>1
    <3>3. [i \in DOMAIN NodeOrder |-> IF NodeOrder[i] \in rt.agents THEN f[NodeOrder[i]] ELSE <<>>]
          = [i \in DOMAIN NodeOrder |->
                IF NodeOrder[i] \in rt.agents THEN Dropped(NodeOrder[i]) ELSE <<>>]
      BY <3>2
    <3>4. drops = FlattenSeq([i \in DOMAIN NodeOrder |->
                      IF NodeOrder[i] \in rt.agents THEN Dropped(NodeOrder[i]) ELSE <<>>])
      BY Zenon DEF InKeyOrder
    <3> QED  BY <3>3, <3>4, Zenon DEF Gathered
  <2> HIDE DEF f, drops, D
  <2>3. drops \in Seq(D)
    BY <1>3, <2>1, <2>2, KeyOrderCollects
  <2>4. \A i \in DOMAIN drops : drops[i] \in D
    BY <2>3
  <2>5. D \subseteq Rejections /\ \A x \in D : x.round = r
    BY DEF D
  <2> QED  BY <2>3, <2>4, <2>5
<1> HIDE DEF drops, out
<1>7. hist \subseteq SentCommitments
  <2>1. \A n \in rt.agents : build_commitment(n, r) \in SentCommitments
    BY <1>3, <1>4, BuiltIsSent
  <2>2. rt.historical_commitments \subseteq SentCommitments
    BY <1>2 DEF Runtimes
  <2> HIDE DEF Silent
  <2> QED  BY <2>1, <2>2
<1> HIDE DEF hist
<1> DEFINE log2 == [rt.log EXCEPT !.rejections = @ \o drops]
<1>8. rt2 = [rt EXCEPT !.log = log2, !.historical_commitments = hist, !.phase = "commit"]
  BY <1>2 DEF Runtimes
<1>9. /\ log2 \in Logs /\ log2.commitments = rt.log.commitments
      /\ log2.proposals = rt.log.proposals /\ log2.proofs = rt.log.proofs
      /\ log2.receipts = rt.log.receipts /\ log2.rejections = rt.log.rejections \o drops
  <2>1. rt.log.rejections \in Seq(Rejections)
    BY <1>3 DEF Logs
  <2>2. rt.log.rejections \o drops \in Seq(Rejections)
    BY <1>6, <2>1, ConcatProperties
  <2> QED  BY <1>3, <2>2 DEF Logs
<1> HIDE DEF log2
<1>10. /\ rt2 \in Runtimes /\ rt2.log = log2 /\ rt2.round_machine = m /\ rt2.phase = "commit"
       /\ rt2.agents = rt.agents /\ rt2.scenario = rt.scenario
  BY <1>2, <1>7, <1>8, <1>9 DEF Runtimes, Phases
<1> HIDE DEF rt2
<1>11. CommitmentsCoherent(m, log2) /\ ProposalsCoherent(m, log2) /\ ProofsGrounded(log2)
  BY <1>2, <1>9, SameEvidence
<1>12. RejectedBy(log2, r)
  <2> DEFINE s == rt.log.rejections
  <2>1. s \in Seq(Rejections) /\ \A i \in DOMAIN s : s[i].round <= r
    BY <1>2, <1>3 DEF Logs, PhaseCoherent, RejectedBy
  <2> HIDE DEF s
  <2>2. \A i \in DOMAIN (s \o drops) : \/ \E j \in DOMAIN s : (s \o drops)[i] = s[j]
                                       \/ \E j \in DOMAIN drops : (s \o drops)[i] = drops[j]
    BY <1>6, <2>1
  <2>3. r <= r
    BY <1>4
  <2>4. \A i \in DOMAIN (s \o drops) : (s \o drops)[i].round <= r
    BY <1>6, <2>1, <2>2, <2>3
  <2> QED  BY <1>9, <2>4 DEF RejectedBy, s
<1>13. PhaseCoherent(rt2)
  BY <1>2, <1>4, <1>9, <1>10, <1>12 DEF PhaseCoherent, Draining
<1>14. SignedReceipts(log2)
  BY <1>2, <1>9 DEF SignedReceipts
<1>15. out \in Seq(Messages)
  BY <1>5 DEF Messages
<1> QED  BY <1>1, <1>5, <1>9, <1>10, <1>11, <1>13, <1>14, <1>15 DEF Sound, Keeps, RtInv

\* The candidate a proposer derives names two nodes and a capability tag.
LEMMA CandidateTyped ==
    ASSUME NEW m \in Machine, NEW log \in Logs, CommitmentsCoherent(m, log),
           m.commitments[Requester] # None,
           derive_candidate(m.current, m.commitments[Requester], ProvidersSnapshot(m)).result = "some"
    PROVE  LET c == derive_candidate(m.current, m.commitments[Requester], ProvidersSnapshot(m))
           IN  /\ c.requester \in NodeIds /\ c.provider \in NodeIds
               /\ c.matched_capability \in Tags
<1> DEFINE c == derive_candidate(m.current, m.commitments[Requester], ProvidersSnapshot(m))
           intent == m.commitments[Requester].public_intent
           feasible == Feasible(m.current, m.commitments[Requester], ProvidersSnapshot(m))
           least == CHOOSE n \in feasible : \A k \in feasible : n <= k
<1>1. /\ m.commitments[Requester].node_id = Requester
      /\ intent.required_capability = Required
  BY NodeFacts, StoredCommitment
<1>2. /\ feasible # {} /\ c.requester = m.commitments[Requester].node_id
      /\ c.provider = least
      /\ c.matched_capability = intent.required_capability
  BY DEF derive_candidate
<1>3. feasible \subseteq Nodes
  <2>1. \A n \in Nodes : m.commitments[n] # None => m.commitments[n].node_id = n
    BY DEF CommitmentsCoherent
  <2> QED  BY <2>1 DEF Feasible, ProvidersSnapshot
<1> HIDE DEF feasible
<1>4. least \in feasible
  BY <1>2, <1>3, NodeFacts, SmallestNat
<1> QED  BY <1>1, <1>2, <1>3, <1>4, NodeFacts, CapabilityAssumption DEF CapabilityAssumption

\* The end of drain_commitments, with broadcast_proposal.
LEMMA EndCommitSound ==
    ASSUME NEW rt, RtInv(rt), rt.phase = "commit" PROVE Sound(rt, end_commit_phase(rt))
<1> DEFINE m == rt.round_machine
           proposer == current_proposer(m)
           candidate == derive_candidate(m.current, m.commitments[Requester], ProvidersSnapshot(m))
           Failed(n, kind, code) == [rt |-> Fallback(reject(rt, n, kind, code)), out |-> <<>>]
           waiting == [rt EXCEPT !.phase = "proposal"]
           p == [proposer |-> proposer, round |-> m.current,
                 candidate_requester |-> candidate.requester,
                 candidate_provider |-> candidate.provider,
                 matched_capability |-> candidate.matched_capability]
           Res == end_commit_phase(rt)
<1>0. Draining(rt)
  BY DEF Draining
<1>1. /\ rt \in Runtimes /\ CommitmentsCoherent(m, rt.log) /\ ProposalsCoherent(m, rt.log)
  BY DEF RtInv
<1>2. m \in Machine /\ rt.log \in Logs /\ m.current \in Nat
  BY <1>1 DEF Runtimes, Machine
<1>3. ASSUME NEW n \in Nodes, NEW kind \in Kinds, NEW code \in Codes
      PROVE  Sound(rt, Failed(n, kind, code))
  <2> DEFINE rt1 == reject(rt, n, kind, code)
  <2>1. /\ RtInv(rt1) /\ rt1.phase = "commit" /\ rt1.agents = rt.agents
        /\ rt1.scenario = rt.scenario
    BY <1>0, NodeFacts, RejectKeeps
  <2> HIDE DEF rt1
  <2>2. Draining(rt1)
    BY <2>1 DEF Draining
  <2>3. Keeps(rt, Fallback(rt1))
    BY <2>1, <2>2, FallbackKeeps DEF Keeps
  <2> QED  BY <2>3 DEF Sound, rt1
<1>4. proposer \in Nodes
  BY <1>2, NodeFacts DEF current_proposer
<1>5. Keeps(rt, waiting)
  BY <1>0, PhaseChangeKeeps
<1>6. CASE ~HasCommitment(m, Requester)
  <2>1. Res = Failed(Requester, "round", "requester_missing")
    BY <1>6 DEF end_commit_phase
  <2> QED  BY <1>3, <2>1, NodeFacts DEF Kinds, Codes
<1>7. CASE HasCommitment(m, Requester)
  <2>0. Res = broadcast_proposal(rt)
    BY <1>7 DEF end_commit_phase
  <2>1. CASE ~HoldsProposer(rt)
    <3>1. Res = [rt |-> waiting, out |-> <<>>]
      BY <2>0, <2>1 DEF broadcast_proposal
    <3> QED  BY <1>5, <3>1 DEF Sound
  <2>2. CASE HoldsProposer(rt) /\ candidate.result # "some"
    <3>1. \/ Res = Failed(proposer, "proposal", "no_feasible_provider")
          \/ Res = Failed(proposer, "proposal", "candidate_error")
      BY <1>7, <2>0, <2>2 DEF broadcast_proposal
    <3> QED  BY <1>3, <1>4, <3>1 DEF Kinds, Codes
  <2>3. CASE HoldsProposer(rt) /\ candidate.result = "some"
    <3>1. Res = [rt |-> waiting, out |-> <<message(proposer, "proposal", p)>>]
      <4>1. Res.rt = waiting /\ Res.out = <<message(proposer, "proposal", p)>>
        BY <1>7, <2>0, <2>3 DEF broadcast_proposal
      <4> QED  BY <1>7, <2>0, <2>3, Zenon DEF broadcast_proposal
    <3>2. p \in ProposalRecord
      <4>1. candidate.requester \in NodeIds /\ candidate.provider \in NodeIds
            /\ candidate.matched_capability \in Tags
        BY <1>1, <1>2, <1>7, <2>3, CandidateTyped DEF HasCommitment
      <4> HIDE DEF candidate, proposer
      <4> QED  BY <1>2, <1>4, <4>1, NodeFacts DEF ProposalRecord
    <3> HIDE DEF p, proposer
    <3>3. message(proposer, "proposal", p) \in Messages
      BY <1>4, <3>2 DEF message, Messages
    <3>4. <<message(proposer, "proposal", p)>> \in Seq(Messages)
      BY <3>3
    <3> QED  BY <1>5, <3>1, <3>4 DEF Sound
  <2> QED  BY <2>1, <2>2, <2>3
<1> QED  BY <1>6, <1>7

\* A proof of the active round embeds the accepted hash unless it is sabotaged.
LEMMA ProofMessageShape ==
    ASSUME NEW rt, RtInv(rt), NEW n \in Nodes, HasCommitment(rt.round_machine, n)
    PROVE  LET msg == ProofMessage(rt, n, rt.round_machine.current)
           IN  /\ msg \in Messages /\ msg.type = "proof" /\ msg.origin = n
               /\ msg.rec \in SentProofs /\ msg.rec.node_id = n
               /\ msg.rec.round = rt.round_machine.current
               /\ msg.rec.public_inputs.commitment = rt.round_machine.commitments[n].commitment_hex
                  <=> ~ProofIsSabotaged(rt.scenario, n, rt.round_machine.current)
<1> DEFINE m == rt.round_machine
           r == m.current
           c == m.commitments[n]
           Proof(h) == [node_id |-> n, round |-> r,
                        public_inputs |-> [round |-> r, node_id |-> n, commitment |-> h,
                                           role |-> role(n)],
                        marker |-> 1]
           honest == build_proof_artifact(c, n, r)
<1>1. m \in Machine /\ rt.log \in Logs /\ CommitmentsCoherent(m, rt.log)
  BY DEF RtInv, Runtimes
<1>2. c \in SentCommitments /\ r \in RoundIds /\ c.public_intent.role = role(n) /\ c.node_id = n
  BY <1>1, StoredCommitment DEF HasCommitment
<1>3. honest = Proof(c.commitment_hex)
  BY <1>2 DEF build_proof_artifact
<1>4. PICK f \in RoundIds : c.commitment_hex = HashOf(n, f)
  BY <1>2 DEF SentCommitments
<1> DEFINE bad == [node |-> n, round |-> f, flipped |-> TRUE]
<1>5. tamper_public_inputs(Proof(HashOf(n, f))) = Proof(bad)
  <2> DEFINE x == Proof(HashOf(n, f))
             inputs == x.public_inputs
             hash == inputs.commitment
  <2>1. tamper_public_inputs(x) = [x EXCEPT !.public_inputs =
            [inputs EXCEPT !.commitment = [hash EXCEPT !.flipped = ~hash.flipped]]]
    <3> HIDE DEF x
    <3> QED  BY DEF tamper_public_inputs
  <2>2. [hash EXCEPT !.flipped = ~hash.flipped] = bad
    <3> DEFINE y == ~hash.flipped
    <3>1. hash = [node |-> n, round |-> f, flipped |-> FALSE] /\ y = TRUE
      BY DEF HashOf
    <3>2. \A z : [[node |-> n, round |-> f, flipped |-> FALSE] EXCEPT !.flipped = z]
                     = [node |-> n, round |-> f, flipped |-> z]
      OBVIOUS
    <3> HIDE DEF hash, y
    <3>3. [hash EXCEPT !.flipped = y] = bad
      BY <3>1, <3>2, Zenon
    <3> QED  BY <3>3 DEF y
  <2>3. [inputs EXCEPT !.commitment = bad] = Proof(bad).public_inputs
    <3> HIDE DEF bad
    <3> QED  OBVIOUS
  <2>4. [x EXCEPT !.public_inputs = Proof(bad).public_inputs] = Proof(bad)
    <3> HIDE DEF bad
    <3> QED  OBVIOUS
  <2> HIDE DEF x, inputs, hash, bad, Proof
  <2>5. tamper_public_inputs(x) = Proof(bad)
    BY <2>1, <2>2, <2>3, <2>4, Zenon
  <2> QED  BY <2>5 DEF x
<1>6. HashOf(n, f) \in Hexes /\ bad \in Hexes
  BY HexesAssumption DEF HexesAssumption, HashOf, RoundIds
<1>7. \A h \in Hexes : Proof(h) \in SentProofs
  BY <1>2 DEF SentProofs, role
<1>8. /\ honest \in SentProofs
      /\ tamper_public_inputs(honest) \in SentProofs
  BY <1>3, <1>4, <1>5, <1>6, <1>7, Zenon
<1> HIDE DEF honest
<1>9. ASSUME NEW q \in SentProofs
      PROVE  LET msg == message(n, "proof", q)
             IN  msg \in Messages /\ msg.type = "proof" /\ msg.origin = n /\ msg.rec = q
  BY DEF message, Messages
<1>10. \A h : /\ Proof(h).node_id = n /\ Proof(h).round = r
              /\ Proof(h).public_inputs.commitment = h
  OBVIOUS
<1>11. HashOf(n, f) # bad
  <2>1. HashOf(n, f).flipped = FALSE /\ bad.flipped = TRUE
    BY DEF HashOf
  <2> QED  BY <2>1
<1>12. honest = Proof(HashOf(n, f)) /\ tamper_public_inputs(honest) = Proof(bad)
  BY <1>3, <1>4, <1>5, Zenon
<1> HIDE DEF honest, Proof, bad
<1>13. CASE ProofIsSabotaged(rt.scenario, n, r)
  <2>1. ProofMessage(rt, n, r) = message(n, "proof", Proof(bad))
    BY <1>12, <1>13 DEF ProofMessage, honest
  <2> QED  BY <1>4, <1>8, <1>9, <1>10, <1>11, <1>12, <1>13, <2>1
<1>14. CASE ~ProofIsSabotaged(rt.scenario, n, r)
  <2>1. ProofMessage(rt, n, r) = message(n, "proof", Proof(HashOf(n, f)))
    BY <1>12, <1>14 DEF ProofMessage, honest
  <2> QED  BY <1>4, <1>8, <1>9, <1>10, <1>12, <1>14, <2>1
<1> QED  BY <1>13, <1>14

\* The end of drain_proposal, with broadcast_proofs: the .expect does not fire.
LEMMA EndProposalSound ==
    ASSUME NEW rt, RtInv(rt), rt.phase = "proposal" PROVE Sound(rt, end_proposal_phase(rt))
<1> DEFINE m == rt.round_machine
           p == m.proposal
           Mine(n) == IF n \in rt.agents THEN <<n>> ELSE <<>>
           local == Mine(p.candidate_requester) \o Mine(p.candidate_provider)
           Res == end_proposal_phase(rt)
<1>0. Draining(rt)
  BY DEF Draining
<1>1. /\ rt \in Runtimes /\ CommitmentsCoherent(m, rt.log) /\ ProposalsCoherent(m, rt.log)
  BY DEF RtInv
<1>2. m \in Machine /\ rt.log \in Logs
  BY <1>1 DEF Runtimes
<1>3. LoggedProposal(rt.log, m.current) = p
  BY <1>1, <1>2, LookupProposal
<1>4. CASE p = None
  <2>1. Res = [rt |-> Fallback(rt), out |-> <<>>]
    BY <1>3, <1>4 DEF end_proposal_phase
  <2>2. Keeps(rt, Fallback(rt))
    BY <1>0, FallbackKeeps DEF Keeps
  <2> QED  BY <2>1, <2>2 DEF Sound
<1>5. CASE p # None
  <2>1. /\ p.candidate_requester = Requester /\ p.candidate_provider \in Providers
        /\ HasCommitment(m, Requester) /\ HasCommitment(m, p.candidate_provider)
    BY <1>1, <1>2, <1>5, AcceptedProposal DEF Grounded
  <2> DEFINE parties == {k \in Nodes : HasCommitment(m, k)}
  <2>2. local \in Seq(parties)
    <3>1. p.candidate_requester \in parties /\ p.candidate_provider \in parties
      BY <2>1, NodeFacts
    <3> HIDE DEF parties
    <3>2. Mine(p.candidate_requester) \in Seq(parties)
      BY <3>1
    <3>3. Mine(p.candidate_provider) \in Seq(parties)
      BY <3>1
    <3> HIDE DEF Mine
    <3> QED  BY <3>2, <3>3, ConcatProperties
  <2>3. Res = broadcast_proofs(rt, p)
    BY <1>3, <1>5 DEF end_proposal_phase
  <2> HIDE DEF local
  <2>4. DOMAIN local = 1..Len(local) /\ Len(local) \in Nat
        /\ \A i \in DOMAIN local : local[i] \in Nodes /\ HasCommitment(m, local[i])
    <3>1. \A i \in DOMAIN local : local[i] \in parties
      BY <2>2
    <3> QED  BY <2>2, <3>1
  <2> DEFINE out == [i \in DOMAIN local |-> ProofMessage(rt, local[i], m.current)]
  <2>5. Res = [rt |-> [rt EXCEPT !.phase = "proof"], out |-> out]
    <3>1. ~\E i \in DOMAIN local : ~HasCommitment(m, local[i])
      BY <2>4
    <3> QED  BY <2>3, <3>1, Zenon DEF broadcast_proofs, local
  <2>6. out \in Seq(Messages)
    <3>1. \A i \in DOMAIN local : ProofMessage(rt, local[i], m.current) \in Messages
      BY <2>4, ProofMessageShape
    <3> QED  BY <2>4, <3>1
  <2>7. Keeps(rt, [rt EXCEPT !.phase = "proof"])
    BY <1>0, <1>5, PhaseChangeKeeps
  <2> HIDE DEF out
  <2> QED  BY <2>5, <2>6, <2>7 DEF Sound
<1> QED  BY <1>4, <1>5

\* A receipt the matched provider signs is of the expected kind.
LEMMA SignedIsSent ==
    ASSUME NEW n \in Providers, NEW k \in RoundIds
    PROVE  [provider |-> n, round |-> k, signature |-> sign_receipt(n, k, Required)]
               \in SentReceipts
<1>1. n \in NodeIds /\ k \in Nat /\ Required \in Tags
  BY NodeFacts, MaxRoundsAssumption, CapabilityAssumption
     DEF RoundIds, MaxRoundsAssumption, CapabilityAssumption
<1>2. sign_receipt(n, k, Required)
          \in [scheme : Schemes,
               message : [provider : NodeIds, round : Nat, capability : Tags]]
  BY <1>1 DEF sign_receipt, receipt_message, Schemes
<1> DEFINE x == [provider |-> n, round |-> k, signature |-> sign_receipt(n, k, Required)]
<1>3. x \in CompletionReceipt
  BY <1>1, <1>2 DEF CompletionReceipt
<1>4. x.provider = n /\ x.round = k /\ x.signature = sign_receipt(n, k, Required)
  OBVIOUS
<1> HIDE DEF x
<1>5. x \in SentReceipts
  BY <1>3, <1>4 DEF SentReceipts
<1> QED  BY <1>5 DEF x

\* The end of drain_proofs, with broadcast_receipt.
LEMMA EndProofSound ==
    ASSUME NEW rt, RtInv(rt), rt.phase = "proof" PROVE Sound(rt, end_proof_phase(rt))
<1> DEFINE m == rt.round_machine
           p == m.proposal
           provider == p.candidate_provider
           rec == [provider |-> provider, round |-> m.current,
                   signature |-> sign_receipt(provider, m.current, p.matched_capability)]
           Res == end_proof_phase(rt)
<1>0. Draining(rt)
  BY DEF Draining
<1>1. /\ rt \in Runtimes /\ CommitmentsCoherent(m, rt.log) /\ ProposalsCoherent(m, rt.log)
      /\ PhaseCoherent(rt)
  BY DEF RtInv
<1>2. m \in Machine /\ rt.log \in Logs /\ m.current \in RoundIds
  BY <1>1, MaxRoundsAssumption
     DEF Runtimes, Machine, PhaseCoherent, RoundIds, MaxRoundsAssumption
<1>3. LoggedProposal(rt.log, m.current) = p /\ p # None
  BY <1>1, <1>2, LookupProposal DEF PhaseCoherent
<1>4. provider \in Providers /\ p.matched_capability = Required
  BY <1>1, <1>2, <1>3, AcceptedProposal DEF Grounded
<1>5. CASE ~HasBothProofs(rt, p)
  <2>1. Res = [rt |-> Fallback(rt), out |-> <<>>]
    BY <1>3, <1>5 DEF end_proof_phase
  <2>2. Keeps(rt, Fallback(rt))
    BY <1>0, FallbackKeeps DEF Keeps
  <2> QED  BY <2>1, <2>2 DEF Sound
<1>6. CASE HasBothProofs(rt, p)
  <2>1. Res.rt = [rt EXCEPT !.phase = "receipt"]
        /\ Res.out = IF provider \notin rt.agents THEN <<>>
                     ELSE <<message(provider, "receipt", rec)>>
    BY <1>3, <1>6 DEF end_proof_phase, broadcast_receipt
  <2>2. rec \in SentReceipts
    <3>1. rec = [provider |-> provider, round |-> m.current,
                 signature |-> sign_receipt(provider, m.current, Required)]
      BY <1>4
    <3> HIDE DEF rec, provider
    <3> QED  BY <1>2, <1>4, <3>1, SignedIsSent
  <2> HIDE DEF rec
  <2>3. message(provider, "receipt", rec) \in Messages
    BY <1>4, <2>2, NodeFacts DEF message, Messages
  <2>4. <<message(provider, "receipt", rec)>> \in Seq(Messages) /\ <<>> \in Seq(Messages)
    BY <2>3
  <2>5. Keeps(rt, [rt EXCEPT !.phase = "receipt"])
    BY <1>0, <1>3, <1>6, PhaseChangeKeeps
  <2> QED  BY <2>1, <2>4, <2>5 DEF Sound
<1> QED  BY <1>5, <1>6

\* The end of drain_receipts: the round is final.
LEMMA EndReceiptSound ==
    ASSUME NEW rt, RtInv(rt), rt.phase = "receipt"
    PROVE  Sound(rt, end_receipt_phase(rt)) /\ end_receipt_phase(rt).rt.phase = "done"
<1> DEFINE m == rt.round_machine
           log2 == [rt.log EXCEPT !.final_round = m.current, !.finalized = TRUE]
           rt2 == [rt EXCEPT !.phase = "done", !.log = log2]
<1>1. /\ rt \in Runtimes /\ CommitmentsCoherent(m, rt.log) /\ ProposalsCoherent(m, rt.log)
      /\ ProofsGrounded(rt.log) /\ SignedReceipts(rt.log) /\ PhaseCoherent(rt)
  BY DEF RtInv
<1>2. m \in Machine /\ rt.log \in Logs /\ m.current \in Nat
  BY <1>1 DEF Runtimes, Machine
<1>3. end_receipt_phase(rt).rt = rt2 /\ end_receipt_phase(rt).out = <<>>
  BY DEF end_receipt_phase, set_final_round
<1>4. /\ log2 \in Logs /\ log2.commitments = rt.log.commitments
      /\ log2.proposals = rt.log.proposals /\ log2.proofs = rt.log.proofs
      /\ log2.receipts = rt.log.receipts /\ log2.rejections = rt.log.rejections
      /\ log2.final_round = m.current /\ log2.finalized = TRUE
  BY <1>2 DEF Logs
<1> HIDE DEF log2
<1>5. /\ rt2 \in Runtimes /\ rt2.log = log2 /\ rt2.round_machine = m /\ rt2.phase = "done"
      /\ rt2.agents = rt.agents /\ rt2.scenario = rt.scenario
  BY <1>1, <1>4 DEF Runtimes, Phases
<1> HIDE DEF rt2
<1>6. CommitmentsCoherent(m, log2) /\ ProposalsCoherent(m, log2) /\ ProofsGrounded(log2)
  BY <1>1, <1>4, SameEvidence
<1>7. PhaseCoherent(rt2)
  BY <1>1, <1>4, <1>5 DEF PhaseCoherent, RejectedBy, Draining, HasBothProofs, HasProof
<1>8. SignedReceipts(log2)
  BY <1>1, <1>4 DEF SignedReceipts
<1> QED  BY <1>3, <1>5, <1>6, <1>7, <1>8 DEF Sound, Keeps, RtInv

\* The providers whose stored commitment the match predicate lets through.
StoredFeasible(m) == {n \in Providers : m.commitments[n] # None /\ Required \in Claims[n]}

\* derive_candidate on the commitments of a coherent machine: the lowest
\* stored provider that claims the capability, for the requester.
LEMMA DerivedCandidate ==
    ASSUME NEW m \in Machine, NEW log \in Logs, CommitmentsCoherent(m, log),
           m.commitments[Requester] # None
    PROVE  derive_candidate(m.current, m.commitments[Requester], ProvidersSnapshot(m))
               = IF StoredFeasible(m) = {} THEN [result |-> "none"]
                 ELSE [result |-> "some", requester |-> Requester,
                       provider |-> Min(StoredFeasible(m)), matched_capability |-> Required]
<1> DEFINE req == m.commitments[Requester]
           feasible == Feasible(m.current, req, ProvidersSnapshot(m))
<1>1. /\ req.node_id = Requester /\ req.public_intent.role = "requester"
      /\ req.public_intent.round = m.current
      /\ req.public_intent.required_capability = Required
  BY NodeFacts, StoredCommitment DEF role
<1>2. ASSUME NEW n \in Nodes, n # Requester, m.commitments[n] # None
      PROVE  /\ m.commitments[n].node_id = n
             /\ match_predicate(req.public_intent, m.commitments[n].public_intent, m.current) = "ok"
                <=> Required \in Claims[n]
  <2>1. LET c == m.commitments[n]
        IN  /\ c.node_id = n /\ c.public_intent.role = "provider"
            /\ c.public_intent.round = m.current /\ c.public_intent.capability_claims = Claims[n]
    BY <1>2, StoredCommitment DEF role
  <2> QED  BY <1>1, <2>1 DEF match_predicate
<1>3. feasible = StoredFeasible(m)
  <2>1. ASSUME NEW n \in feasible PROVE n \in StoredFeasible(m)
    <3>1. PICK d \in ProvidersSnapshot(m) :
              /\ match_predicate(req.public_intent, d.public_intent, m.current) = "ok"
              /\ n = d.node_id
      BY <2>1 DEF Feasible
    <3>2. PICK k \in Nodes : k # Requester /\ m.commitments[k] # None /\ d = m.commitments[k]
      BY <3>1 DEF ProvidersSnapshot
    <3>3. n = k /\ Required \in Claims[k] /\ k \in Providers
      BY <1>2, <3>1, <3>2, NodeFacts
    <3> QED  BY <3>2, <3>3 DEF StoredFeasible
  <2>2. ASSUME NEW n \in StoredFeasible(m) PROVE n \in feasible
    <3>1. /\ n \in Nodes /\ n # Requester /\ m.commitments[n] # None /\ Required \in Claims[n]
      BY <2>2, NodeFacts DEF StoredFeasible
    <3>2. m.commitments[n] \in ProvidersSnapshot(m)
      BY <3>1 DEF ProvidersSnapshot
    <3>3. /\ m.commitments[n].node_id = n
          /\ match_predicate(req.public_intent, m.commitments[n].public_intent, m.current) = "ok"
      BY <1>2, <3>1
    <3> QED  BY <3>2, <3>3 DEF Feasible
  <2> QED  BY <2>1, <2>2
<1> HIDE DEF feasible
<1>4. derive_candidate(m.current, req, ProvidersSnapshot(m))
          = IF feasible = {} THEN [result |-> "none"]
            ELSE [result |-> "some", requester |-> req.node_id,
                  provider |-> CHOOSE n \in feasible : \A k \in feasible : n <= k,
                  matched_capability |-> req.public_intent.required_capability]
  <2>1. ~(req.public_intent.role # "requester") /\ ~(req.public_intent.round # m.current)
        /\ ~(req.public_intent.required_capability = EmptyTag)
    BY <1>1, CapabilityAssumption DEF CapabilityAssumption
  <2> QED  BY <2>1, Zenon DEF derive_candidate, feasible
<1> QED  BY <1>1, <1>3, <1>4, Zenon DEF Min

\* The proposal a proposer derives from a machine.
DerivedProposal(m) ==
    [proposer |-> current_proposer(m), round |-> m.current, candidate_requester |-> Requester,
     candidate_provider |-> Min(StoredFeasible(m)), matched_capability |-> Required]

\* Without a requester or, where the proposer is, without a candidate, the
\* round fails when the commitments are in.
LEMMA EndCommitShape ==
    ASSUME NEW rt, RtInv(rt), rt.phase = "commit"
    PROVE  LET m     == rt.round_machine
               res   == end_commit_phase(rt)
               fails == \/ ~HasCommitment(m, Requester)
                        \/ HoldsProposer(rt) /\ StoredFeasible(m) = {}
           IN  /\ fails => /\ res.out = <<>>
                           /\ \E n \in NodeIds, kind \in Kinds, code \in Codes :
                                  res.rt = Fallback(reject(rt, n, kind, code))
               /\ ~fails => /\ res.rt = [rt EXCEPT !.phase = "proposal"]
                            /\ res.out = IF HoldsProposer(rt)
                                         THEN <<message(current_proposer(m), "proposal",
                                                        DerivedProposal(m))>>
                                         ELSE <<>>
<1> DEFINE m == rt.round_machine
           proposer == current_proposer(m)
           candidate == derive_candidate(m.current, m.commitments[Requester], ProvidersSnapshot(m))
           res == end_commit_phase(rt)
<1>1. m \in Machine /\ rt.log \in Logs /\ CommitmentsCoherent(m, rt.log) /\ m.current \in Nat
  BY DEF RtInv, Runtimes, Machine
<1>2. proposer \in NodeIds /\ Requester \in NodeIds
  BY <1>1, NodeFacts DEF current_proposer
<1>3. CASE ~HasCommitment(m, Requester)
  <2>1. res.out = <<>> /\ res.rt = Fallback(reject(rt, Requester, "round", "requester_missing"))
    BY <1>3 DEF end_commit_phase
  <2>2. "round" \in Kinds /\ "requester_missing" \in Codes
    BY DEF Kinds, Codes
  <2> QED  BY <1>2, <1>3, <2>1, <2>2
<1>4. CASE HasCommitment(m, Requester) /\ ~HoldsProposer(rt)
  <2>1. res.out = <<>> /\ res.rt = [rt EXCEPT !.phase = "proposal"]
    BY <1>4 DEF end_commit_phase, broadcast_proposal
  <2> QED  BY <1>4, <2>1
<1>5. CASE HasCommitment(m, Requester) /\ HoldsProposer(rt) /\ StoredFeasible(m) = {}
  <2>0. m.commitments[Requester] # None
    BY <1>5 DEF HasCommitment
  <2>1. candidate.result = "none"
    <3>1. candidate = [result |-> "none"]
      BY <1>1, <1>5, <2>0, DerivedCandidate, Zenon
    <3> QED  BY <3>1
  <2> HIDE DEF candidate
  <2>2. /\ res.out = <<>>
        /\ res.rt = Fallback(reject(rt, proposer, "proposal", "no_feasible_provider"))
    BY <1>5, <2>1 DEF end_commit_phase, broadcast_proposal, candidate
  <2>3. "proposal" \in Kinds /\ "no_feasible_provider" \in Codes
    BY DEF Kinds, Codes
  <2> QED  BY <1>2, <1>5, <2>2, <2>3
<1>6. CASE HasCommitment(m, Requester) /\ HoldsProposer(rt) /\ StoredFeasible(m) # {}
  <2>0. m.commitments[Requester] # None
    BY <1>6 DEF HasCommitment
  <2>1. /\ candidate.result = "some" /\ candidate.requester = Requester
        /\ candidate.provider = Min(StoredFeasible(m)) /\ candidate.matched_capability = Required
    <3>1. candidate = [result |-> "some", requester |-> Requester,
                       provider |-> Min(StoredFeasible(m)), matched_capability |-> Required]
      BY <1>1, <1>6, <2>0, DerivedCandidate, Zenon
    <3> HIDE DEF candidate
    <3> QED  BY <3>1
  <2> DEFINE p == [proposer |-> proposer, round |-> m.current,
                   candidate_requester |-> candidate.requester,
                   candidate_provider |-> candidate.provider,
                   matched_capability |-> candidate.matched_capability]
  <2>2. res.rt = [rt EXCEPT !.phase = "proposal"] /\ res.out = <<message(proposer, "proposal", p)>>
    <3>1. candidate.result = "some"
      BY <2>1
    <3> QED  BY <1>6, <3>1 DEF end_commit_phase, broadcast_proposal
  <2> HIDE DEF candidate
  <2>3. p = DerivedProposal(m)
    BY <2>1 DEF DerivedProposal
  <2> HIDE DEF p
  <2> QED  BY <1>6, <2>2, <2>3
<1> QED  BY <1>3, <1>4, <1>5, <1>6, Zenon

\* Without a proposal the round fails; with one, the parties of this process
\* send their proofs.
LEMMA EndProposalShape ==
    ASSUME NEW rt, RtInv(rt), rt.phase = "proposal"
    PROVE  LET m   == rt.round_machine
               res == end_proposal_phase(rt)
               parties == {Requester, m.proposal.candidate_provider} \cap rt.agents
           IN  /\ m.proposal = None => res.out = <<>> /\ res.rt = Fallback(rt)
               /\ m.proposal # None =>
                      /\ res.rt = [rt EXCEPT !.phase = "proof"]
                      /\ \A i \in DOMAIN res.out : \E n \in parties :
                             res.out[i] = ProofMessage(rt, n, m.current)
                      /\ \A n \in parties : \E i \in DOMAIN res.out :
                             res.out[i] = ProofMessage(rt, n, m.current)
                      /\ rt.agents = Nodes =>
                             res.out = <<ProofMessage(rt, Requester, m.current),
                                         ProofMessage(rt, m.proposal.candidate_provider, m.current)>>
<1> DEFINE m == rt.round_machine
           p == m.proposal
           Mine(n) == IF n \in rt.agents THEN <<n>> ELSE <<>>
           local == Mine(p.candidate_requester) \o Mine(p.candidate_provider)
           res == end_proposal_phase(rt)
           parties == {Requester, p.candidate_provider} \cap rt.agents
<1>1. /\ m \in Machine /\ rt.log \in Logs /\ rt.agents \subseteq Nodes
      /\ CommitmentsCoherent(m, rt.log) /\ ProposalsCoherent(m, rt.log)
  BY DEF RtInv, Runtimes
<1>2. LoggedProposal(rt.log, m.current) = p
  BY <1>1, LookupProposal
<1>3. CASE p = None
  BY <1>2, <1>3 DEF end_proposal_phase
<1>4. CASE p # None
  <2>1. /\ p.candidate_requester = Requester /\ p.candidate_provider \in Providers
        /\ HasCommitment(m, Requester) /\ HasCommitment(m, p.candidate_provider)
    BY <1>1, <1>4, AcceptedProposal DEF Grounded
  <2>2. res = broadcast_proofs(rt, p)
    BY <1>2, <1>4 DEF end_proposal_phase
  <2>3. /\ \A i \in DOMAIN local : local[i] \in parties /\ HasCommitment(m, local[i])
        /\ \A n \in parties : \E i \in DOMAIN local : local[i] = n
        /\ rt.agents = Nodes => local = <<Requester, p.candidate_provider>>
    <3>0. /\ \A x, y : <<x>> \o <<y>> = <<x, y>>
          /\ \A x : <<x>> \o <<>> = <<x>> /\ <<>> \o <<x>> = <<x>>
          /\ <<>> \o <<>> = <<>>
      <4>1. ASSUME NEW x, NEW y PROVE <<x>> \o <<y>> = <<x, y>>
        <5>1. <<x>> \in Seq({x, y}) /\ y \in {x, y}
          OBVIOUS
        <5>2. Append(<<x>>, y) = <<x>> \o <<y>>
          BY <5>1, AppendIsConcat
        <5> DEFINE a == Append(<<x>>, y)
                   b == <<x, y>>
        <5>3. a \in Seq({x, y}) /\ Len(a) = 2 /\ a[1] = x /\ a[2] = y
          BY <5>1
        <5>4. b \in Seq({x, y}) /\ Len(b) = 2 /\ b[1] = x /\ b[2] = y
          OBVIOUS
        <5> HIDE DEF a, b
        <5>5. a = b
          <6>1. \A i \in 1..2 : a[i] = b[i]
            BY <5>3, <5>4
          <6> QED  BY <5>3, <5>4, <6>1, SeqEqual
        <5> QED  BY <5>2, <5>5 DEF a, b
      <4>2. ASSUME NEW x PROVE <<x>> \o <<>> = <<x>> /\ <<>> \o <<x>> = <<x>>
        <5>1. <<x>> \in Seq({x})
          OBVIOUS
        <5> QED  BY <5>1, ConcatEmptySeq
      <4>3. <<>> \o <<>> = <<>>
        <5>1. <<>> \in Seq({})
          OBVIOUS
        <5> QED  BY <5>1, ConcatEmptySeq
      <4> QED  BY <4>1, <4>2, <4>3
    <3>1. CASE p.candidate_requester \in rt.agents /\ p.candidate_provider \in rt.agents
      <4>1. local = <<Requester, p.candidate_provider>>
        BY <2>1, <3>0, <3>1, Zenon
      <4> HIDE DEF local
      <4> QED  BY <2>1, <3>1, <4>1
    <3>2. CASE p.candidate_requester \in rt.agents /\ p.candidate_provider \notin rt.agents
      <4>1. local = <<Requester>>
        <5>1. Mine(p.candidate_requester) = <<Requester>> /\ Mine(p.candidate_provider) = <<>>
          BY <2>1, <3>2
        <5> QED  BY <3>0, <5>1, Zenon
      <4>2. rt.agents # Nodes /\ HasCommitment(m, Requester) /\ Requester \in rt.agents
        BY <2>1, <3>2, NodeFacts
      <4> HIDE DEF local
      <4> QED  BY <2>1, <3>2, <4>1, <4>2
    <3>3. CASE p.candidate_requester \notin rt.agents /\ p.candidate_provider \in rt.agents
      <4>1. local = <<p.candidate_provider>>
        BY <2>1, <3>0, <3>3, Zenon
      <4> HIDE DEF local
      <4> QED  BY <2>1, <3>3, <4>1, NodeFacts
    <3>4. CASE p.candidate_requester \notin rt.agents /\ p.candidate_provider \notin rt.agents
      <4>1. local = <<>>
        BY <2>1, <3>0, <3>4, Zenon
      <4> HIDE DEF local
      <4> QED  BY <2>1, <3>4, <4>1, NodeFacts
    <3> QED  BY <3>1, <3>2, <3>3, <3>4
  <2> HIDE DEF local
  <2> DEFINE out == [i \in DOMAIN local |-> ProofMessage(rt, local[i], m.current)]
  <2>4. res = [rt |-> [rt EXCEPT !.phase = "proof"], out |-> out]
    <3>1. ~\E i \in DOMAIN local : ~HasCommitment(m, local[i])
      BY <2>3
    <3> QED  BY <2>2, <3>1, Zenon DEF broadcast_proofs, local
  <2>5. /\ \A i \in DOMAIN out : \E n \in parties : out[i] = ProofMessage(rt, n, m.current)
        /\ \A n \in parties : \E i \in DOMAIN out : out[i] = ProofMessage(rt, n, m.current)
    BY <2>3
  <2>6. ASSUME rt.agents = Nodes
        PROVE  out = <<ProofMessage(rt, Requester, m.current),
                       ProofMessage(rt, p.candidate_provider, m.current)>>
    <3>1. local = <<Requester, p.candidate_provider>>
      BY <2>3, <2>6
    <3> QED  BY <3>1
  <2> HIDE DEF out
  <2> QED  BY <1>4, <2>4, <2>5, <2>6
<1> QED  BY <1>3, <1>4

\* Without both proofs the round fails; with them, the provider's process
\* signs the receipt.
LEMMA EndProofShape ==
    ASSUME NEW rt, RtInv(rt), rt.phase = "proof"
    PROVE  LET m        == rt.round_machine
               res      == end_proof_phase(rt)
               provider == m.proposal.candidate_provider
           IN  /\ ~HasBothProofs(rt, m.proposal) => res.out = <<>> /\ res.rt = Fallback(rt)
               /\ HasBothProofs(rt, m.proposal) =>
                      /\ res.rt = [rt EXCEPT !.phase = "receipt"]
                      /\ res.out = IF provider \notin rt.agents THEN <<>>
                                   ELSE <<message(provider, "receipt",
                                            [provider |-> provider, round |-> m.current,
                                             signature |-> sign_receipt(provider, m.current, Required)])>>
<1> DEFINE m == rt.round_machine
           p == m.proposal
<1>1. /\ m \in Machine /\ rt.log \in Logs /\ m.proposal # None
      /\ CommitmentsCoherent(m, rt.log) /\ ProposalsCoherent(m, rt.log)
  BY DEF RtInv, Runtimes, PhaseCoherent
<1>2. LoggedProposal(rt.log, m.current) = p
  BY <1>1, LookupProposal
<1>3. p.matched_capability = Required
  BY <1>1, AcceptedProposal DEF Grounded
<1> QED  BY <1>2, <1>3 DEF end_proof_phase, broadcast_receipt

\* The end of the loop: the run aborts.
LEMMA EndRunKeeps ==
    ASSUME NEW rt, RtInv(rt), LoopExhausted(rt)
    PROVE  Keeps(rt, end_run(rt)) /\ end_run(rt).phase = "done"
<1> DEFINE m == rt.round_machine
           last == IF m.current = 0 THEN 0 ELSE m.current - 1
           log2 == [rt.log EXCEPT !.final_round = last, !.finalized = FALSE,
                                  !.abort_reason = "max_rounds_exceeded"]
           rt2 == [rt EXCEPT !.phase = "done", !.log = log2]
<1>1. /\ rt \in Runtimes /\ CommitmentsCoherent(m, rt.log) /\ ProposalsCoherent(m, rt.log)
      /\ ProofsGrounded(rt.log) /\ SignedReceipts(rt.log) /\ PhaseCoherent(rt)
  BY DEF RtInv
<1>2. m \in Machine /\ rt.log \in Logs /\ m.current \in Nat /\ last \in Nat
  BY <1>1 DEF Runtimes, Machine
<1>3. end_run(rt) = rt2
  <2>1. set_abort_reason(set_final_round(rt.log, last, FALSE), "max_rounds_exceeded") = log2
    BY <1>2 DEF set_abort_reason, set_final_round, Logs
  <2>2. end_run(rt) = [rt EXCEPT !.phase = "done",
            !.log = set_abort_reason(set_final_round(rt.log, last, FALSE), "max_rounds_exceeded")]
    BY DEF end_run
  <2> QED  BY <2>1, <2>2, Zenon
<1>4. \A i \in DOMAIN rt.log.rejections :
          /\ rt.log.rejections[i].round <= last /\ rt.log.rejections[i].round <= m.current
  <2>1. \A i \in DOMAIN rt.log.rejections :
            rt.log.rejections[i].round \in Nat /\ rt.log.rejections[i].round < m.current
    BY <1>1, <1>2, LogEntries DEF PhaseCoherent, LoopExhausted
  <2> QED  BY <1>2, <2>1
<1> HIDE DEF last
<1>5. /\ log2 \in Logs /\ log2.commitments = rt.log.commitments
      /\ log2.proposals = rt.log.proposals /\ log2.proofs = rt.log.proofs
      /\ log2.receipts = rt.log.receipts /\ log2.rejections = rt.log.rejections
      /\ log2.final_round = last /\ log2.finalized = FALSE
  BY <1>2 DEF Logs
<1> HIDE DEF log2
<1>6. /\ rt2 \in Runtimes /\ rt2.log = log2 /\ rt2.round_machine = m /\ rt2.phase = "done"
      /\ rt2.agents = rt.agents /\ rt2.scenario = rt.scenario
  BY <1>1, <1>5 DEF Runtimes, Phases
<1> HIDE DEF rt2
<1>7. CommitmentsCoherent(m, log2) /\ ProposalsCoherent(m, log2) /\ ProofsGrounded(log2)
  BY <1>1, <1>5, SameEvidence
<1>8. rt.log.receipts = <<>> /\ m.current <= MaxRounds
  BY <1>1 DEF PhaseCoherent, LoopExhausted
<1>9. PhaseCoherent(rt2)
  BY <1>4, <1>5, <1>6, <1>8 DEF PhaseCoherent, RejectedBy, Draining
<1>10. SignedReceipts(log2)
  BY <1>1, <1>5 DEF SignedReceipts
<1> QED  BY <1>3, <1>6, <1>7, <1>9, <1>10 DEF Keeps, RtInv

\* The end of any drain loop.
LEMMA EndPhaseSound ==
    ASSUME NEW rt, RtInv(rt), Draining(rt) PROVE Sound(rt, EndPhase(rt))
<1>1. CASE rt.phase = "commit"
  <2>1. EndPhase(rt) = end_commit_phase(rt)
    BY <1>1 DEF EndPhase
  <2> QED  BY <1>1, <2>1, EndCommitSound
<1>2. CASE rt.phase = "proposal"
  <2>1. EndPhase(rt) = end_proposal_phase(rt)
    BY <1>2 DEF EndPhase
  <2> QED  BY <1>2, <2>1, EndProposalSound
<1>3. CASE rt.phase = "proof"
  <2>1. EndPhase(rt) = end_proof_phase(rt)
    BY <1>3 DEF EndPhase
  <2> QED  BY <1>3, <2>1, EndProofSound
<1>4. CASE rt.phase = "receipt"
  <2>1. EndPhase(rt) = end_receipt_phase(rt)
    BY <1>4 DEF EndPhase
  <2> QED  BY <1>4, <2>1, EndReceiptSound
<1> QED  BY <1>1, <1>2, <1>3, <1>4 DEF Draining

\* A new process is coherent.
LEMMA NewRuntimeInv ==
    ASSUME NEW agents \in SUBSET Nodes, NEW scenario \in SUBSET ScenarioEvents
    PROVE  LET rt == new_runtime(agents, scenario)
           IN  RtInv(rt) /\ rt.agents = agents /\ rt.scenario = scenario /\ rt.phase = "loop"
<1> DEFINE rt == new_runtime(agents, scenario)
<1>1. /\ rt.agents = agents /\ rt.scenario = scenario /\ rt.phase = "loop"
      /\ rt.round_machine = new(0) /\ rt.log = new_log
  BY DEF new_runtime
<1>2. /\ new(0) \in Machine /\ new(0).current = 0 /\ new(0).proposal = None
      /\ new(0).commitments = [n \in Nodes |-> None]
  BY DEF new, Machine, NoCommitments, CommitmentMap
<1>3. /\ new_log \in Logs /\ new_log.commitments = <<>> /\ new_log.proposals = <<>>
      /\ new_log.proofs = <<>> /\ new_log.receipts = <<>> /\ new_log.rejections = <<>>
  BY DEF new_log, Logs
<1>4. rt \in Runtimes
  <2>1. rt = [agents |-> agents, scenario |-> scenario, round_machine |-> new(0),
              log |-> new_log, historical_commitments |-> {}, phase |-> "loop"]
    BY DEF new_runtime
  <2> HIDE DEF rt
  <2> QED  BY <1>2, <1>3, <2>1 DEF Runtimes, Phases
<1> HIDE DEF rt
<1>5. CommitmentsCoherent(new(0), new_log)
  BY <1>2, <1>3 DEF CommitmentsCoherent, reindex
<1>6. ProposalsCoherent(new(0), new_log) /\ ProofsGrounded(new_log) /\ SignedReceipts(new_log)
  BY <1>2, <1>3 DEF ProposalsCoherent, ProofsGrounded, SignedReceipts
<1>7. PhaseCoherent(rt)
  BY <1>1, <1>2, <1>3, MaxRoundsAssumption
     DEF PhaseCoherent, RejectedBy, Draining, MaxRoundsAssumption
<1>8. RtInv(rt)
  BY <1>1, <1>4, <1>5, <1>6, <1>7 DEF RtInv
<1> QED  BY <1>1, <1>8 DEF rt

-----------------------------------------------------------------------------
(* What coherence means for the log.                                       *)

\* Log and round machine agree about the active round, no log_duplicate is
\* ever recorded, and the .expect of broadcast_proofs has not fired.
LEMMA CoherentRuntime ==
    ASSUME NEW rt, RtInv(rt)
    PROVE  MirrorsMachine(rt) /\ "log_duplicate" \notin RejectionCodes(rt) /\ rt.phase # "panicked"
<1>1. rt.round_machine \in Machine /\ rt.log \in Logs /\ rt.phase # "panicked"
  BY DEF RtInv, Runtimes, Phases
<1>2. MirrorsMachine(rt)
  BY <1>1, LookupCommitment DEF RtInv, MirrorsMachine
<1>3. \A i \in DOMAIN rt.log.rejections : rt.log.rejections[i].reason_code # "log_duplicate"
  <2>1. \A x \in Rejections : x.reason_code # "log_duplicate"
    BY DEF Rejections, Codes
  <2> QED  BY <1>1, <2>1, LogEntries
<1> QED  BY <1>1, <1>2, <1>3 DEF RejectionCodes

\* The record found for a node that committed is the node's own.
LEMMA LoggedFacts ==
    ASSUME NEW m \in Machine, NEW log \in Logs, CommitmentsCoherent(m, log), NEW n \in Nodes,
           NEW r, LogHasCommitment(log, n, r)
    PROVE  LET c == LoggedCommitment(log, n, r)
           IN  /\ c # None /\ c.node_id = n
               /\ c.public_intent.role = role(n) /\ c.public_intent.node_id = n
               /\ c.public_intent.round = r
               /\ n = Requester => c.public_intent.required_capability = Required
               /\ n # Requester => c.public_intent.capability_claims = Claims[n]
<1> DEFINE c == LoggedCommitment(log, n, r)
<1>1. PICK i \in DOMAIN log.commitments :
          log.commitments[i].node_id = n /\ log.commitments[i].round = r
  BY DEF LogHasCommitment
<1>2. c = log.commitments[i]
  BY <1>1, LookupCommitment
<1>3. c \in SentCommitments /\ c \in CommitmentRecord
  BY <1>2, LogEntries
<1>4. c # None
  BY <1>3, NoneAssumption DEF NoneAssumption
<1>5. c.public_intent = build_commitment(n, r).public_intent
  BY <1>1, <1>2, <1>3 DEF SentCommitments
<1>6. /\ build_commitment(n, r).public_intent.role = role(n)
      /\ build_commitment(n, r).public_intent.node_id = n
      /\ build_commitment(n, r).public_intent.round = r
      /\ n = Requester => build_commitment(n, r).public_intent.required_capability = Required
      /\ n # Requester => build_commitment(n, r).public_intent.capability_claims = Claims[n]
  BY DEF build_commitment, role
<1> HIDE DEF c
<1> QED  BY <1>1, <1>2, <1>4, <1>5, <1>6 DEF c

\* The verifier has nothing to say against the commitments of a coherent log.
LEMMA CommitmentsPass ==
    ASSUME NEW m \in Machine, NEW log \in Logs, CommitmentsCoherent(m, log)
    PROVE  commitment_reasons(log) = {}
<1> DEFINE s == log.commitments
           Reasons(i) ==
               LET c == s[i] IN
               IF c.node_id \notin Nodes THEN {"commitment_from_unknown_node"}
               ELSE Require(c.public_intent.role = role(c.node_id), "commitment_role_mismatch")
               \cup Require(c.public_intent.node_id = c.node_id,
                            "commitment_public_intent_node_mismatch")
               \cup Require(c.public_intent.round = c.round, "commitment_round_mismatch")
               \cup Require(\A j \in 1..(i - 1) :
                                s[j].node_id # c.node_id \/ s[j].round # c.round,
                            "duplicate_commitment")
<1>1. commitment_reasons(log) = UNION {Reasons(i) : i \in DOMAIN s}
  BY Zenon DEF commitment_reasons
<1>2. ASSUME NEW i \in DOMAIN s PROVE Reasons(i) = {}
  <2>1. s[i] \in SentCommitments /\ s[i].node_id \in Nodes /\ s[i].round \in RoundIds
    BY LogEntries DEF SentCommitments
  <2>2. /\ s[i].public_intent.role = role(s[i].node_id)
        /\ s[i].public_intent.node_id = s[i].node_id
        /\ s[i].public_intent.round = s[i].round
    <3>1. s[i].public_intent = build_commitment(s[i].node_id, s[i].round).public_intent
      BY <2>1 DEF SentCommitments
    <3>2. \A n, r : /\ build_commitment(n, r).public_intent.role = role(n)
                    /\ build_commitment(n, r).public_intent.node_id = n
                    /\ build_commitment(n, r).public_intent.round = r
      BY DEF build_commitment, role
    <3> QED  BY <3>1, <3>2
  <2>3. \A j \in 1..(i - 1) : s[j].node_id # s[i].node_id \/ s[j].round # s[i].round
    <3>1. s \in Seq(SentCommitments)
      BY DEF Logs
    <3>2. i \in Nat /\ \A j \in 1..(i - 1) : j \in DOMAIN s /\ j # i
      BY <3>1
    <3> QED  BY <3>2 DEF CommitmentsCoherent, reindex
  <2> QED  BY <2>1, <2>2, <2>3 DEF Require
<1> HIDE DEF Reasons
<1> QED  BY <1>1, <1>2

\* Nor against its proposals.
LEMMA ProposalsPass ==
    ASSUME NEW m \in Machine, NEW log \in Logs, CommitmentsCoherent(m, log),
           ProposalsCoherent(m, log)
    PROVE  proposal_reasons(log) = {}
<1> DEFINE s == log.proposals
           Req(p) == LoggedCommitment(log, p.candidate_requester, p.round)
           Prov(p) == LoggedCommitment(log, p.candidate_provider, p.round)
           Reasons(p) ==
               Require(p.proposer = proposer_for_round(p.round), "proposal_wrong_proposer")
               \cup
               (IF Req(p) = None \/ Prov(p) = None THEN {"proposal_unknown_commitment"}
                ELSE Require(validate_proposal_annotation(p, Req(p).public_intent,
                                                          Prov(p).public_intent) = "ok",
                             "proposal_annotation_tampered")
                \cup Require(Prov(p).public_intent.role = "provider" =>
                                 p.matched_capability \in Prov(p).public_intent.capability_claims,
                             "proposal_provider_lacks_capability"))
<1>1. proposal_reasons(log) = UNION {Reasons(s[i]) : i \in DOMAIN s}
  BY Zenon DEF proposal_reasons
<1>2. ASSUME NEW i \in DOMAIN s PROVE Reasons(s[i]) = {}
  <2> DEFINE p == s[i]
  <2>1. Grounded(log, p)
    BY DEF ProposalsCoherent
  <2> HIDE DEF p
  <2>2. /\ Req(p) # None /\ Req(p).node_id = Requester
        /\ Req(p).public_intent.role = "requester"
        /\ Req(p).public_intent.node_id = Requester
        /\ Req(p).public_intent.required_capability = Required
    BY <2>1, NodeFacts, LoggedFacts DEF Grounded, role
  <2>3. /\ Prov(p) # None /\ Prov(p).public_intent.node_id = p.candidate_provider
        /\ Prov(p).public_intent.capability_claims = Claims[p.candidate_provider]
    <3> DEFINE n == p.candidate_provider
    <3>1. n \in Nodes /\ n # Requester /\ LogHasCommitment(log, n, p.round)
      BY <2>1, NodeFacts DEF Grounded
    <3> HIDE DEF n
    <3>2. LET c == LoggedCommitment(log, n, p.round)
          IN  /\ c # None /\ c.public_intent.node_id = n
              /\ c.public_intent.capability_claims = Claims[n]
      BY <3>1, LoggedFacts
    <3> QED  BY <3>2 DEF n
  <2> HIDE DEF Req, Prov
  <2>4. validate_proposal_annotation(p, Req(p).public_intent, Prov(p).public_intent) = "ok"
    BY <2>1, <2>2, <2>3 DEF Grounded, validate_proposal_annotation
  <2>5. Reasons(p) = {}
    BY <2>1, <2>2, <2>3, <2>4 DEF Grounded, Require
  <2> QED  BY <2>5 DEF p
<1> HIDE DEF Reasons
<1> QED  BY <1>1, <1>2

\* Nor against its proofs.
LEMMA ProofsPass ==
    ASSUME NEW m \in Machine, NEW log \in Logs, CommitmentsCoherent(m, log),
           ProofsGrounded(log)
    PROVE  proof_reasons(log) = {}
<1> DEFINE s == log.proofs
           Com(q) == LoggedCommitment(log, q.node_id, q.round)
           Reasons(q) ==
               IF q.public_inputs = None THEN {"proof_malformed_public_inputs"}
               ELSE Require(q.public_inputs.round = q.round, "proof_public_inputs_round_mismatch")
               \cup Require(q.public_inputs.node_id = q.node_id,
                            "proof_public_inputs_node_mismatch")
               \cup
               (IF Com(q) = None THEN {"proof_no_matching_commitment"}
                ELSE Require(q.public_inputs.commitment = Com(q).commitment_hex,
                             "proof_public_inputs_commitment_mismatch")
                \cup Require(q.public_inputs.role = Com(q).public_intent.role,
                             "proof_role_byte_mismatch")
                \cup Require(q.marker \in {1, 2}, "proof_marker_unexpected"))
<1>1. proof_reasons(log) = UNION {Reasons(s[i]) : i \in DOMAIN s}
  BY Zenon DEF proof_reasons
<1>2. ASSUME NEW i \in DOMAIN s PROVE Reasons(s[i]) = {}
  <2> DEFINE q == s[i]
  <2>1. q \in SentProofs
    BY LogEntries
  <2>2. PICK j \in DOMAIN log.commitments :
            /\ log.commitments[j].node_id = q.node_id
            /\ log.commitments[j].round = q.round
            /\ log.commitments[j].commitment_hex = q.public_inputs.commitment
    BY DEF ProofsGrounded
  <2> HIDE DEF q
  <2>3. /\ q.node_id \in Nodes /\ q.marker = 1 /\ q.public_inputs.round = q.round
        /\ q.public_inputs.node_id = q.node_id /\ q.public_inputs.role = role(q.node_id)
    BY <2>1 DEF SentProofs
  <2>4. Com(q) = log.commitments[j]
    BY <2>2, LookupCommitment
  <2>5. Com(q) # None /\ Com(q).public_intent.role = role(q.node_id)
    BY <2>2, <2>3, LoggedFacts DEF LogHasCommitment
  <2>6. q.public_inputs # None
    <3>1. q.public_inputs \in PublicInputs
      <4>1. q.public_inputs \in [round : RoundIds, node_id : Nodes, commitment : Hexes,
                                  role : {"requester", "provider"}]
        BY <2>1 DEF SentProofs
      <4>2. RoundIds \subseteq Nat /\ Nodes \subseteq NodeIds
        BY NodeFacts, MaxRoundsAssumption DEF RoundIds, MaxRoundsAssumption
      <4> QED  BY <4>1, <4>2 DEF PublicInputs
    <3> QED  BY <3>1, RecordsAssumption DEF RecordsAssumption
  <2> HIDE DEF Com
  <2>7. Reasons(q) = {}
    BY <2>2, <2>3, <2>4, <2>5, <2>6 DEF Require
  <2> QED  BY <2>7 DEF q
<1> HIDE DEF Reasons
<1> QED  BY <1>1, <1>2

\* Signing keys in the topology and in the private intents go together.  The
\* loaders do not enforce it (see the run that loses a receipt without it).
KeysMatch == SigningKeys = SigningSecrets

\* The log of a run that is over passes the verifier, but for the receipt the
\* process may not have seen before it finalized.
LEMMA DoneVerifies ==
    ASSUME NEW rt, RtInv(rt), rt.phase = "done", KeysMatch
    PROVE  /\ verify_log(rt.log) \subseteq {"final_round_missing_receipt"}
           /\ ~rt.log.finalized => verify_log(rt.log) = {}
           /\ (\E i \in DOMAIN rt.log.receipts :
                  /\ rt.log.receipts[i].round = rt.log.final_round
                  /\ rt.log.receipts[i].provider = rt.round_machine.proposal.candidate_provider)
              => verify_log(rt.log) = {}
<1> DEFINE m == rt.round_machine
           log == rt.log
           p == LoggedProposal(log, log.final_round)
           r == IF p = None THEN None ELSE MatchedReceipt(log, log.final_round, p.candidate_provider)
           body == commitment_reasons(log) \cup proposal_reasons(log) \cup proof_reasons(log)
           agreed == predicate_holds_for_log(log, log.final_round, p.candidate_requester,
                                             p.candidate_provider)
<1>1. /\ rt \in Runtimes /\ CommitmentsCoherent(m, log) /\ ProposalsCoherent(m, log)
      /\ ProofsGrounded(log) /\ SignedReceipts(log) /\ PhaseCoherent(rt)
  BY DEF RtInv
<1>2. m \in Machine /\ log \in Logs /\ m.current \in Nat
  BY <1>1 DEF Runtimes, Machine
<1>3. body = {}
  BY <1>1, <1>2, CommitmentsPass, ProposalsPass, ProofsPass
<1> HIDE DEF body
<1>4. verify_log(log) =
          IF log.finalized /\ p = None THEN body \cup {"final_round_missing_proposal"}
          ELSE IF log.finalized /\ r = None
          THEN body \cup Require(agreed, "final_round_predicate_failed")
                    \cup {"final_round_missing_receipt"}
          ELSE IF log.finalized
          THEN body \cup final_round_reasons(log, p, r) \cup rejection_reasons(log)
          ELSE body \cup aborted_reasons(log) \cup rejection_reasons(log)
  BY Zenon DEF verify_log, body
<1>5. CASE ~log.finalized
  <2>1. log.receipts = <<>> /\ RejectedBy(log, log.final_round)
    BY <1>1, <1>5 DEF PhaseCoherent
  <2>2. aborted_reasons(log) = {} /\ rejection_reasons(log) = {}
    BY <2>1 DEF aborted_reasons, rejection_reasons, Require, RejectedBy
  <2>3. verify_log(log) = {}
    BY <1>3, <1>4, <1>5, <2>2
  <2> QED  BY <2>3
<1>6. CASE log.finalized
  <2>1. /\ log.final_round = m.current /\ m.proposal # None /\ HasBothProofs(rt, m.proposal)
        /\ RejectedBy(log, log.final_round)
    BY <1>1, <1>6 DEF PhaseCoherent
  <2>2. p = m.proposal
    BY <1>1, <1>2, <2>1, LookupProposal
  <2>3. p # None /\ Grounded(log, p) /\ p.round = log.final_round
    BY <1>1, <1>2, <2>1, <2>2, AcceptedProposal
  <2> HIDE DEF p
  <2>4. agreed
    <3> DEFINE req == LoggedCommitment(log, p.candidate_requester, log.final_round)
               prov == LoggedCommitment(log, p.candidate_provider, log.final_round)
    <3>1. /\ req # None /\ req.public_intent.role = "requester"
          /\ req.public_intent.round = log.final_round
          /\ req.public_intent.required_capability = Required
      BY <1>1, <1>2, <2>3, NodeFacts, LoggedFacts DEF Grounded, role
    <3>2. /\ prov # None /\ prov.public_intent.role = "provider"
          /\ prov.public_intent.round = log.final_round
          /\ prov.public_intent.capability_claims = Claims[p.candidate_provider]
      <4> DEFINE n == p.candidate_provider
      <4>1. n \in Nodes /\ n # Requester /\ LogHasCommitment(log, n, log.final_round)
        BY <2>3, NodeFacts DEF Grounded
      <4> HIDE DEF n
      <4>2. LET c == LoggedCommitment(log, n, log.final_round)
            IN  /\ c # None /\ c.public_intent.role = "provider"
                /\ c.public_intent.round = log.final_round
                /\ c.public_intent.capability_claims = Claims[n]
        BY <1>1, <1>2, <4>1, LoggedFacts DEF role
      <4> QED  BY <4>2 DEF n
    <3>3. Required \in Claims[p.candidate_provider]
      BY <2>3 DEF Grounded
    <3> HIDE DEF req, prov
    <3>4. match_predicate(req.public_intent, prov.public_intent, log.final_round) = "ok"
      BY <3>1, <3>2, <3>3 DEF match_predicate
    <3> QED  BY <3>1, <3>2, <3>4 DEF predicate_holds_for_log, req, prov
  <2>5. rejection_reasons(log) = {}
    BY <2>1 DEF rejection_reasons, Require, RejectedBy
  <2> HIDE DEF agreed
  <2> DEFINE hits == {i \in DOMAIN log.receipts :
                         /\ log.receipts[i].round = log.final_round
                         /\ log.receipts[i].provider = p.candidate_provider}
  <2>6. r = IF hits = {} THEN None ELSE log.receipts[Min(hits)]
    BY <2>3 DEF MatchedReceipt
  <2>7. CASE r = None
    <3>1. verify_log(log) = {"final_round_missing_receipt"}
      BY <1>3, <1>4, <1>6, <2>3, <2>4, <2>7 DEF Require
    <3>2. hits = {}
      <4>1. hits \subseteq Nat
        <5>1. log.receipts \in Seq(SentReceipts)
          BY <1>2 DEF Logs
        <5> QED  BY <5>1
      <4>2. ASSUME hits # {} PROVE FALSE
        <5>1. Min(hits) \in hits
          BY <4>1, <4>2, MinIsLeast
        <5>2. log.receipts[Min(hits)] \in SentReceipts
          BY <1>2, <5>1, LogEntries
        <5> HIDE DEF hits
        <5>3. r \in SentReceipts
          BY <2>6, <4>2, <5>2
        <5> QED  BY <2>7, <5>3, RecordsAssumption DEF RecordsAssumption, SentReceipts
      <4> QED  BY <4>2
    <3> QED  BY <1>6, <2>2, <3>1, <3>2
  <2>8. CASE r # None
    <3>1. hits \subseteq Nat /\ hits # {}
      <4>1. log.receipts \in Seq(SentReceipts)
        BY <1>2 DEF Logs
      <4> QED  BY <2>6, <2>8, <4>1
    <3>2. Min(hits) \in hits
      BY <3>1, MinIsLeast
    <3>3. /\ r = log.receipts[Min(hits)] /\ r \in SentReceipts /\ r.signature # NoSignature
          /\ r.round = log.final_round /\ r.provider = p.candidate_provider
      BY <1>1, <1>2, <2>6, <3>1, <3>2, LogEntries DEF SignedReceipts
    <3>4. r.signature = expected_signature(p.candidate_provider, log.final_round,
                                           p.matched_capability)
      <4>1. r.signature = sign_receipt(p.candidate_provider, log.final_round, Required)
        BY <3>3 DEF SentReceipts
      <4>2. p.matched_capability = Required
        BY <2>3 DEF Grounded
      <4> QED  BY <4>1, <4>2 DEF sign_receipt, expected_signature, KeysMatch
    <3>5. HasProof(log, p.candidate_requester, log.final_round)
          /\ HasProof(log, p.candidate_provider, log.final_round)
      BY <2>1, <2>2 DEF HasBothProofs
    <3> HIDE DEF r
    <3>6. final_round_reasons(log, p, r) = {}
      BY <2>4, <3>3, <3>4, <3>5 DEF final_round_reasons, Require, agreed
    <3>7. verify_log(log) = {}
      BY <1>3, <1>4, <1>6, <2>3, <2>5, <2>8, <3>6
    <3> QED  BY <3>7
  <2> QED  BY <2>7, <2>8
<1> QED  BY <1>5, <1>6

-----------------------------------------------------------------------------
(* What a round comes to when its messages arrive: the definitions and the *)
(* steps that the in-process run and the processes of a cluster that keep  *)
(* step have in common.                                                    *)

Speaks(r, n, k) == ~has_dropped(r.scenario, n, k)
Round(r) == r.round_machine.current
Accepted(r, n) == r.round_machine.commitments[n] # None
Sabotaged(r, n) == ProofIsSabotaged(r.scenario, n, Round(r))
Proved(r, n) == HasProof(r.log, n, Round(r))

\* The one proposal an honest proposer makes in the active round, and the
\* receipt that goes with it.
Claimants(r) == SpeakingFeasible(r.scenario, Round(r))
Best(r) == Min(Claimants(r))
TheProposal(r) ==
    [proposer |-> proposer_for_round(Round(r)), round |-> Round(r),
     candidate_requester |-> Requester, candidate_provider |-> Best(r),
     matched_capability |-> Required]
TheReceipt(r) ==
    [provider |-> Best(r), round |-> Round(r),
     signature |-> sign_receipt(Best(r), Round(r), Required)]

\* Every round before the active one had no chance.
EarlierRoundsFailed(r) == \A k \in RoundIds : k < Round(r) => ~RoundSucceeds(r.scenario, k)

\* The hashes the machine has seen are those of the earlier rounds' speakers,
\* and of the nodes it has accepted in this one.
HistoryIsKnown(r) ==
    \A n \in Nodes, k \in RoundIds :
        HashOf(n, k) \in r.round_machine.history_hex
        <=> (k < Round(r) /\ Speaks(r, n, k)) \/ (k = Round(r) /\ Accepted(r, n))

\* What an agent can replay is what it said in an earlier round, or says now.
ReplaysAreOld(r) ==
    \A h \in r.historical_commitments : \E n \in Nodes, k \in RoundIds :
        /\ h = build_commitment(n, k) /\ Speaks(r, n, k)
        /\ k < Round(r) \/ (k = Round(r) /\ r.phase # "loop")

\* Only a node that speaks is accepted, with what it built for this round.
OwnRecords(r) ==
    \A n \in Nodes : Accepted(r, n) =>
        Speaks(r, n, Round(r)) /\ r.round_machine.commitments[n] = build_commitment(n, Round(r))

Known(r) == EarlierRoundsFailed(r) /\ HistoryIsKnown(r) /\ ReplaysAreOld(r) /\ OwnRecords(r)

\* Whoever speaks is accepted.
AllSpoke(r) == \A n \in Nodes : Speaks(r, n, Round(r)) => Accepted(r, n)

\* The round got past its commitments.
Complete(r) == AllSpoke(r) /\ Speaks(r, Requester, Round(r)) /\ Claimants(r) # {}

\* A commitment of this round that was built now or in an earlier round.
Offered(r) ==
    {msg \in CommitmentMessages : \E n \in Nodes, k \in RoundIds :
        /\ msg.origin = n /\ msg.rec.node_id = n /\ msg.rec.round = Round(r)
        /\ msg.rec.commitment_hex = HashOf(n, k)
        /\ k <= Round(r) /\ Speaks(r, n, k)}

OwnMessage(r, n) == message(n, "commitment", build_commitment(n, Round(r)))

\* The offers of one node.
Offers(r, n) == {msg \in Offered(r) : msg.origin = n}

ReceiptLogged(r) == \E i \in DOMAIN r.log.receipts : r.log.receipts[i] = TheReceipt(r)

-----------------------------------------------------------------------------
(* What the definitions stand for.                                         *)

\* The parts of a coherent runtime.
LEMMA RuntimeFacts ==
    ASSUME NEW r, RtInv(r)
    PROVE  /\ r \in Runtimes /\ r.round_machine \in Machine /\ r.log \in Logs
           /\ CommitmentsCoherent(r.round_machine, r.log)
           /\ ProposalsCoherent(r.round_machine, r.log)
           /\ ProofsGrounded(r.log) /\ PhaseCoherent(r)
           /\ Round(r) \in Nat /\ Round(r) \in RoundIds /\ Round(r) <= MaxRounds
           /\ Draining(r) => Round(r) < MaxRounds
<1>1. r \in Runtimes
  BY DEF RtInv
<1>2. r.round_machine \in Machine /\ r.log \in Logs /\ PhaseCoherent(r)
  BY <1>1 DEF Runtimes, RtInv
<1>3. Round(r) \in Nat /\ Round(r) <= MaxRounds /\ (Draining(r) => Round(r) < MaxRounds)
  BY <1>2 DEF Machine, PhaseCoherent, Round
<1>4. Round(r) \in RoundIds
  BY <1>3, MaxRoundsAssumption DEF RoundIds, MaxRoundsAssumption
<1> QED  BY <1>1, <1>2, <1>3, <1>4 DEF RtInv

\* The provider an honest proposer picks speaks and claims the capability.
LEMMA BestFacts ==
    ASSUME NEW r, Claimants(r) # {}
    PROVE  /\ Best(r) \in Providers /\ Best(r) \in Nodes /\ Best(r) # Requester
           /\ Best(r) \in Claimants(r)
           /\ Required \in Claims[Best(r)] /\ Speaks(r, Best(r), Round(r))
<1>1. Claimants(r) \subseteq Providers /\ Claimants(r) \subseteq Nat
  BY NodeFacts DEF Claimants, SpeakingFeasible
<1>2. Best(r) \in Claimants(r)
  BY <1>1, MinIsLeast DEF Best
<1> QED  BY <1>1, <1>2, NodeFacts DEF Claimants, SpeakingFeasible, Speaks

\* A round succeeds when the requester and the best claimant speak and prove
\* honestly.
LEMMA RoundSucceedsMeans ==
    ASSUME NEW r
    PROVE  RoundSucceeds(r.scenario, Round(r))
           <=> /\ Speaks(r, Requester, Round(r)) /\ Claimants(r) # {}
               /\ ~Sabotaged(r, Requester) /\ ~Sabotaged(r, Best(r))
  BY DEF RoundSucceeds, Speaks, Claimants, Sabotaged, Best

\* Hashes of different nodes or rounds differ.
LEMMA HashesDiffer ==
    ASSUME NEW n, NEW k, NEW n2, NEW k2, HashOf(n, k) = HashOf(n2, k2)
    PROVE  n = n2 /\ k = k2
<1>1. HashOf(n, k).node = n /\ HashOf(n, k).round = k
  BY DEF HashOf
<1>2. HashOf(n2, k2).node = n2 /\ HashOf(n2, k2).round = k2
  BY DEF HashOf
<1> QED  BY <1>1, <1>2

\* A step that leaves the round, its commitments, the scenario and what can
\* be replayed alone keeps what is known.
LEMMA SameRoundKnown ==
    ASSUME NEW r, NEW r2, Known(r),
           r2.round_machine.current = r.round_machine.current,
           r2.round_machine.commitments = r.round_machine.commitments,
           r2.round_machine.history_hex = r.round_machine.history_hex,
           r2.scenario = r.scenario, r2.historical_commitments = r.historical_commitments,
           r2.phase # "loop"
    PROVE  Known(r2)
<1>1. Round(r2) = Round(r) /\ \A n : Accepted(r2, n) <=> Accepted(r, n)
  BY DEF Round, Accepted
<1>2. \A n, k : Speaks(r2, n, k) <=> Speaks(r, n, k)
  BY DEF Speaks
<1>3. EarlierRoundsFailed(r2)
  BY <1>1 DEF Known, EarlierRoundsFailed
<1>4. HistoryIsKnown(r2)
  BY <1>1, <1>2 DEF Known, HistoryIsKnown
<1>5. ReplaysAreOld(r2)
  BY <1>1, <1>2 DEF Known, ReplaysAreOld
<1>6. OwnRecords(r2)
  BY <1>1, <1>2 DEF Known, OwnRecords
<1> QED  BY <1>3, <1>4, <1>5, <1>6 DEF Known

\* No proof is on the log for a round that has not begun.
LEMMA NoProofAhead ==
    ASSUME NEW r, RtInv(r), NEW n \in Nodes, NEW k \in Nat, k > Round(r)
    PROVE  ~HasProof(r.log, n, k)
<1> SUFFICES ASSUME NEW i \in DOMAIN r.log.proofs, r.log.proofs[i].round = k
             PROVE  FALSE
  BY DEF HasProof
<1>1. PICK j \in DOMAIN r.log.commitments : r.log.commitments[j].round = k
  BY RuntimeFacts DEF ProofsGrounded
<1>2. r.log.commitments[j].round <= Round(r)
  BY <1>1, RuntimeFacts DEF CommitmentsCoherent, Round
<1> QED  BY <1>1, <1>2, RuntimeFacts

\* A refused message leaves nothing but a rejection.
LEMMA RejectLeaves ==
    ASSUME NEW r \in Runtimes, NEW n, NEW kind, NEW code
    PROVE  LET r2 == reject(r, n, kind, code)
           IN  /\ r2.round_machine = r.round_machine /\ r2.phase = r.phase
               /\ r2.agents = r.agents /\ r2.scenario = r.scenario
               /\ r2.historical_commitments = r.historical_commitments
               /\ r2.log.proofs = r.log.proofs /\ r2.log.receipts = r.log.receipts
<1>1. r.log \in Logs
  BY DEF Runtimes
<1>2. PICK log2 : log2 = append_rejection(r.log, r.round_machine.current, n, kind, code)
  OBVIOUS
<1>3. log2.proofs = r.log.proofs /\ log2.receipts = r.log.receipts
  BY <1>1, <1>2 DEF append_rejection, Logs
<1>4. reject(r, n, kind, code) = [r EXCEPT !.log = log2]
  BY <1>2 DEF reject
<1> QED  BY <1>3, <1>4 DEF Runtimes

\* What a step that leaves the round, its commitments and the scenario alone
\* keeps.
LEMMA SameRound ==
    ASSUME NEW r, NEW r2, r2.round_machine.current = r.round_machine.current,
           r2.round_machine.commitments = r.round_machine.commitments,
           r2.scenario = r.scenario
    PROVE  /\ Round(r2) = Round(r) /\ Claimants(r2) = Claimants(r) /\ Best(r2) = Best(r)
           /\ TheProposal(r2) = TheProposal(r) /\ TheReceipt(r2) = TheReceipt(r)
           /\ AllSpoke(r2) <=> AllSpoke(r)
           /\ Complete(r2) <=> Complete(r)
           /\ \A n : Sabotaged(r2, n) <=> Sabotaged(r, n)
           /\ \A n : Accepted(r2, n) <=> Accepted(r, n)
           /\ \A n : ProofMessage(r2, n, Round(r)) = ProofMessage(r, n, Round(r))
<1>1. Round(r2) = Round(r) /\ \A n : Accepted(r2, n) <=> Accepted(r, n)
  BY DEF Round, Accepted
<1>2. Claimants(r2) = Claimants(r)
  BY <1>1 DEF Claimants
<1>3. Best(r2) = Best(r)
  BY <1>2 DEF Best
<1>4. \A n, k : Speaks(r2, n, k) <=> Speaks(r, n, k)
  BY DEF Speaks
<1>5. AllSpoke(r2) <=> AllSpoke(r)
  BY <1>1, <1>4 DEF AllSpoke
<1>6. \A n : Sabotaged(r2, n) <=> Sabotaged(r, n)
  BY <1>1 DEF Sabotaged
<1>7. \A n : ProofMessage(r2, n, Round(r)) = ProofMessage(r, n, Round(r))
  BY DEF ProofMessage
<1> QED  BY <1>1, <1>2, <1>3, <1>4, <1>5, <1>6, <1>7 DEF TheProposal, TheReceipt, Complete

\* A prior record of a node, relabelled for this round, is an offer and not
\* the node's own.
LEMMA ReplayIsOffer ==
    ASSUME NEW r, RtInv(r), Known(r), r.phase = "loop", NEW n \in Nodes,
           NEW h \in r.historical_commitments, h.node_id = n
    PROVE  LET msg == message(n, "commitment", relabel(h, Round(r)))
           IN  msg \in Offered(r) /\ msg.origin = n /\ msg # OwnMessage(r, n)
<1> DEFINE k == Round(r)
           rec == relabel(h, k)
           msg == message(n, "commitment", rec)
<1>1. h \in SentCommitments /\ k \in RoundIds /\ k \in Nat
  BY RuntimeFacts DEF Runtimes
<1>2. rec \in SentCommitments /\ rec.node_id = n
  BY <1>1, RelabelledIsSent
<1>3. PICK n2 \in Nodes, k2 \in RoundIds :
          h = build_commitment(n2, k2) /\ Speaks(r, n2, k2) /\ k2 < k
  BY DEF Known, ReplaysAreOld
<1>4. h.commitment_hex = HashOf(n2, k2) /\ h.node_id = n2
  BY <1>3 DEF build_commitment
<1>5. rec.commitment_hex = h.commitment_hex /\ rec.round = k
  BY <1>1 DEF relabel, SentCommitments, CommitmentRecord
<1> HIDE DEF rec
<1>6. msg \in CommitmentMessages /\ msg.origin = n /\ msg.rec = rec
  BY <1>2 DEF message, CommitmentMessages
<1>7. k2 <= k /\ n2 = n /\ k2 # k
  BY <1>1, <1>3, <1>4 DEF RoundIds
<1>8. msg \in Offered(r)
  BY <1>2, <1>3, <1>4, <1>5, <1>6, <1>7 DEF Offered
<1>9. msg # OwnMessage(r, n)
  <2>1. OwnMessage(r, n).rec.commitment_hex = HashOf(n, k)
    BY DEF OwnMessage, message, build_commitment
  <2> QED  BY <1>4, <1>5, <1>6, <1>7, <2>1, HashesDiffer
<1> QED  BY <1>6, <1>8, <1>9 DEF rec

\* A node's messages at the start of a round are of that round, were built
\* now or in an earlier round, and contain its own if it speaks.
LEMMA AgentOffers ==
    ASSUME NEW r, RtInv(r), Known(r), r.phase = "loop", NEW n \in Nodes
    PROVE  LET s == AgentMessages(r, n, Round(r))
           IN  /\ s \in Seq(Offers(r, n))
               /\ Speaks(r, n, Round(r)) => \E j \in DOMAIN s : s[j] = OwnMessage(r, n)
<1> DEFINE k        == Round(r)
           events   == events_for_round(r.scenario, n, k)
           replayed == {h \in r.historical_commitments :
                           \E e \in events : /\ e.kind = "replay_prior_commitment"
                                             /\ h.node_id = n
                                             /\ h.round = e.from_round}
           msgs     == {message(n, "commitment", relabel(h, k)) : h \in replayed}
           own      == <<message(n, "commitment", build_commitment(n, k))>>
           doubled  == \E e \in events : e.kind = "double_commit"
           more     == IF doubled THEN own ELSE <<>>
           rest     == IF has_dropped(r.scenario, n, k) THEN <<>> ELSE own \o more
<1>1. AgentMessages(r, n, k) = SetToSeq(msgs) \o rest
  BY Zenon DEF AgentMessages
<1>2. /\ replayed \subseteq SentCommitments /\ k \in RoundIds /\ k \in Nat
      /\ \A h \in replayed : h \in r.historical_commitments /\ h.node_id = n
  BY RuntimeFacts DEF Runtimes
<1> HIDE DEF replayed
<1>3. ASSUME NEW h \in replayed PROVE message(n, "commitment", relabel(h, k)) \in Offers(r, n)
  BY <1>2, ReplayIsOffer DEF Offers
<1>4. msgs \subseteq Offers(r, n)
  BY <1>3
<1> HIDE DEF msgs
<1>5. SetToSeq(msgs) \in Seq(Offers(r, n))
  <2>1. IsFiniteSet(msgs)
    BY <1>4, CommitmentMessagesFinite, FS_Subset DEF Offered, Offers
  <2>2. PICK q : q = SetToSeq(msgs)
    OBVIOUS
  <2>3. q \in Seq(msgs)
    BY <2>1, <2>2, SetToSeqLists
  <2>4. q \in Seq(Offers(r, n))
    BY <1>4, <2>3
  <2> QED  BY <2>2, <2>4
<1>6. ASSUME Speaks(r, n, k) PROVE OwnMessage(r, n) \in Offers(r, n)
  <2> DEFINE rec == build_commitment(n, k)
             msg == message(n, "commitment", rec)
  <2>1. rec \in SentCommitments
    BY <1>2, BuiltIsSent
  <2>2. rec.commitment_hex = HashOf(n, k) /\ rec.node_id = n /\ rec.round = k
    BY DEF build_commitment
  <2>3. msg \in CommitmentMessages /\ msg.origin = n /\ msg.rec = rec
    BY <2>1 DEF message, CommitmentMessages
  <2> QED  BY <1>2, <1>6, <2>2, <2>3 DEF Offered, OwnMessage, Offers
<1>7. own = <<OwnMessage(r, n)>>
  BY DEF OwnMessage
<1> HIDE DEF own, doubled
<1>8. CASE ~Speaks(r, n, k)
  <2>1. rest = <<>>
    BY <1>8 DEF Speaks
  <2>2. SetToSeq(msgs) \o rest = SetToSeq(msgs)
    BY <1>5, <2>1, ConcatEmptySeq
  <2> QED  BY <1>1, <1>5, <1>8, <2>2
<1>9. CASE Speaks(r, n, k)
  <2>1. rest = own \o more
    BY <1>9 DEF Speaks
  <2>2. PICK x \in Offers(r, n) : x = OwnMessage(r, n)
    BY <1>6, <1>9
  <2>3. own = <<x>>
    BY <1>7, <2>2
  <2>4. more \in Seq(Offers(r, n))
    BY <2>3
  <2> HIDE DEF more
  <2>5. PICK q : q = SetToSeq(msgs)
    OBVIOUS
  <2>6. q \in Seq(Offers(r, n))
    BY <1>5, <2>5
  <2>7. /\ <<x>> \o more \in Seq(Offers(r, n))
        /\ (<<x>> \o more)[1] = x /\ Len(<<x>> \o more) > 0
    BY <2>4
  <2> DEFINE t == <<x>> \o more
  <2> HIDE DEF t
  <2>8. t \in Seq(Offers(r, n)) /\ t[1] = x /\ Len(t) > 0
    BY <2>7 DEF t
  <2>9. /\ q \o t \in Seq(Offers(r, n))
        /\ Len(q) + 1 \in DOMAIN (q \o t) /\ (q \o t)[Len(q) + 1] = x
    BY <2>6, <2>8
  <2>10. AgentMessages(r, n, k) = q \o t
    BY <1>1, <2>1, <2>3, <2>5, Zenon DEF t
  <2> QED  BY <2>2, <2>9, <2>10
<1> QED  BY <1>8, <1>9

\* A round begins with an offer from every agent that speaks.
LEMMA BeginRoundKnown ==
    ASSUME NEW r, RtInv(r), Known(r), r.phase = "loop", ~LoopExhausted(r)
    PROVE  LET res == broadcast_commitments(r)
           IN  /\ Keeps(r, res.rt) /\ Known(res.rt)
               /\ res.rt.phase = "commit" /\ res.rt.round_machine = r.round_machine
               /\ res.rt.log.proofs = r.log.proofs
               /\ res.out \in Seq({msg \in Offered(r) : msg.origin \in r.agents})
               /\ \A n \in r.agents : Speaks(r, n, Round(r)) =>
                      \E i \in DOMAIN res.out : res.out[i] = OwnMessage(r, n)
<1> DEFINE k     == Round(r)
           Sent(n) == AgentMessages(r, n, k)
           spoken == {n \in r.agents : ~has_dropped(r.scenario, n, k)}
           out   == InKeyOrder(r, Sent)
           res   == broadcast_commitments(r)
<1>1. PICK r2 : r2 = res.rt
  OBVIOUS
<1>2. /\ Keeps(r, r2) /\ r2.agents = r.agents /\ r2.scenario = r.scenario
      /\ r2.phase = "commit" /\ r2.round_machine = r.round_machine
      /\ r2.log.proofs = r.log.proofs /\ r.agents \subseteq Nodes
  BY <1>1, BroadcastCommitmentsSound, RuntimeFacts DEF Sound, Keeps, Runtimes
<1>3. r2.historical_commitments
          = r.historical_commitments \cup {build_commitment(n, k) : n \in spoken}
  <2>1. r \in Runtimes
    BY RuntimeFacts
  <2> QED  BY <1>1, <2>1 DEF broadcast_commitments, Runtimes, Round
<1>4. res.out = out
  BY DEF broadcast_commitments, Round
<1>5. /\ Round(r2) = k /\ \A n : Accepted(r2, n) <=> Accepted(r, n)
      /\ \A n, j : Speaks(r2, n, j) <=> Speaks(r, n, j)
  BY <1>2 DEF Round, Accepted, Speaks
<1> DEFINE S == {msg \in Offered(r) : msg.origin \in r.agents}
<1>6. /\ out \in Seq(S)
      /\ \A n \in r.agents : Speaks(r, n, k) => \E i \in DOMAIN out : out[i] = OwnMessage(r, n)
  <2> DEFINE f == [n \in Nodes |-> IF n \in r.agents THEN Sent(n) ELSE <<>>]
  <2>1. \A n \in r.agents : Sent(n) \in Seq(Offers(r, n))
    BY <1>2, AgentOffers
  <2>2. \A n \in r.agents : Speaks(r, n, k) => \E j \in DOMAIN Sent(n) : Sent(n)[j] = OwnMessage(r, n)
    BY <1>2, AgentOffers
  <2> HIDE DEF Sent
  <2>3. f \in [Nodes -> Seq(S)]
    <3>1. \A n \in r.agents : Offers(r, n) \subseteq S
      BY DEF Offers
    <3> HIDE DEF S
    <3>2. ASSUME NEW n \in Nodes PROVE f[n] \in Seq(S)
      <4>1. CASE n \in r.agents
        <5>1. PICK s : s = Sent(n)
          OBVIOUS
        <5>2. s \in Seq(Offers(r, n)) /\ Offers(r, n) \subseteq S
          BY <2>1, <3>1, <4>1, <5>1
        <5>3. s \in Seq(S)
          BY <5>2
        <5> QED  BY <4>1, <5>1, <5>3
      <4>2. CASE n \notin r.agents
        BY <4>2
      <4> QED  BY <4>1, <4>2
    <3> QED  BY <3>2
  <2>4. out = Gathered(r.agents, f)
    <3>1. \A i \in DOMAIN NodeOrder : NodeOrder[i] \in Nodes
      BY NodeOrderLists
    <3>2. \A i \in DOMAIN NodeOrder :
              NodeOrder[i] \in r.agents => f[NodeOrder[i]] = Sent(NodeOrder[i])
      BY <3>1
    <3>4. [i \in DOMAIN NodeOrder |-> IF NodeOrder[i] \in r.agents THEN f[NodeOrder[i]] ELSE <<>>]
          = [i \in DOMAIN NodeOrder |->
                IF NodeOrder[i] \in r.agents THEN Sent(NodeOrder[i]) ELSE <<>>]
      BY <3>2
    <3>5. out = FlattenSeq([i \in DOMAIN NodeOrder |->
                    IF NodeOrder[i] \in r.agents THEN Sent(NodeOrder[i]) ELSE <<>>])
      BY Zenon DEF InKeyOrder
    <3> QED  BY <3>4, <3>5, Zenon DEF Gathered
  <2>5. \A n \in r.agents : f[n] = Sent(n)
    BY <1>2
  <2> HIDE DEF f, out, S
  <2>6. /\ out \in Seq(S)
        /\ \A n \in r.agents : \A j \in DOMAIN f[n] : \E i \in DOMAIN out : out[i] = f[n][j]
    <3>2. Gathered(r.agents, f) \in Seq(S)
      BY <1>2, <2>3, KeyOrderCollects
    <3>3. HoldsPart(Gathered(r.agents, f), r.agents, f)
      BY <1>2, <2>3, KeyOrderCollects
    <3> QED  BY <2>4, <3>2, <3>3, Zenon DEF HoldsPart
  <2> QED  BY <2>2, <2>5, <2>6
<1> HIDE DEF out
<1>9. Known(r2)
  <2>1. EarlierRoundsFailed(r2)
    BY <1>2, <1>5 DEF Known, EarlierRoundsFailed
  <2>2. HistoryIsKnown(r2)
    BY <1>2, <1>5 DEF Known, HistoryIsKnown
  <2>3. OwnRecords(r2)
    BY <1>2, <1>5 DEF Known, OwnRecords
  <2>4. ReplaysAreOld(r2)
    <3> SUFFICES ASSUME NEW h \in r2.historical_commitments
                 PROVE  \E n \in Nodes, j \in RoundIds :
                            /\ h = build_commitment(n, j) /\ Speaks(r, n, j)
                            /\ j < k \/ j = k
      BY <1>2, <1>5 DEF ReplaysAreOld
    <3>1. CASE h \in r.historical_commitments
      BY <3>1 DEF Known, ReplaysAreOld
    <3>2. CASE h \in {build_commitment(n, k) : n \in spoken}
      BY <1>2, <3>2, RuntimeFacts DEF Speaks
    <3> QED  BY <1>3, <3>1, <3>2
  <2> QED  BY <2>1, <2>2, <2>3, <2>4 DEF Known
<1> QED  BY <1>1, <1>2, <1>4, <1>6, <1>9

-----------------------------------------------------------------------------
(* A message arrives.                                                      *)

\* Replay or second copy: whatever a node accepted before is refused, and of
\* an offer it has not accepted the own commitment of this round is accepted.
LEMMA OfferResult ==
    ASSUME NEW r, RtInv(r), Known(r), r.round_machine.proposal = None,
           NEW msg \in Offered(r)
    PROVE  LET n      == msg.origin
               result == commitment_result(r.round_machine, msg.rec)
           IN  /\ n \in Nodes /\ msg.rec.node_id = n /\ msg.type = "commitment"
               /\ Accepted(r, n) => result = "duplicate_commitment"
               /\ (~Accepted(r, n) /\ msg # OwnMessage(r, n)) => result = "replay_detected"
               /\ (~Accepted(r, n) /\ msg = OwnMessage(r, n)) =>
                      result = "ok" /\ Speaks(r, n, Round(r))
<1> DEFINE m == r.round_machine
           rec == msg.rec
           n == msg.origin
           k == Round(r)
<1>1. PICK n2 \in Nodes, j \in RoundIds :
          /\ n = n2 /\ rec.node_id = n2 /\ rec.round = k
          /\ rec.commitment_hex = HashOf(n2, j) /\ j <= k /\ Speaks(r, n2, j)
  BY DEF Offered
<1>2. rec \in SentCommitments /\ msg.type = "commitment" /\ msg \in CommitmentMessages
  BY DEF Offered, CommitmentMessages
<1>3. k \in RoundIds /\ k \in Nat /\ m.current = k
  BY RuntimeFacts DEF Round
<1>4. /\ rec.public_intent = build_commitment(n, k).public_intent
      /\ rec.public_intent.role = role(n) /\ rec.public_intent.node_id = n
      /\ rec.public_intent.round = k
      /\ n = Requester => rec.public_intent.required_capability = Required
  <2>1. rec.public_intent = build_commitment(n, k).public_intent
    BY <1>1, <1>2 DEF SentCommitments
  <2>2. ASSUME NEW x \in Nodes, NEW f \in RoundIds
        PROVE  /\ build_commitment(x, f).public_intent.role = role(x)
               /\ build_commitment(x, f).public_intent.node_id = x
               /\ build_commitment(x, f).public_intent.round = f
               /\ x = Requester =>
                      build_commitment(x, f).public_intent.required_capability = Required
    BY DEF build_commitment, role
  <2> QED  BY <1>1, <1>3, <2>1, <2>2
<1>5. ~(rec.public_intent.role = "requester" /\ rec.public_intent.required_capability = EmptyTag)
  BY <1>4, CapabilityAssumption DEF role, CapabilityAssumption
<1>6. commitment_result(m, rec)
        = IF HasCommitment(m, n) THEN "duplicate_commitment"
          ELSE IF rec.commitment_hex \in m.history_hex THEN "replay_detected"
          ELSE "ok"
  BY <1>1, <1>3, <1>4, <1>5 DEF commitment_result
<1>7. HasCommitment(m, n) <=> Accepted(r, n)
  BY <1>1 DEF HasCommitment, Accepted
<1>8. rec.commitment_hex \in m.history_hex <=> j < k \/ (j = k /\ Accepted(r, n))
  BY <1>1 DEF Known, HistoryIsKnown
<1>9. msg = OwnMessage(r, n) => j = k
  BY <1>1, HashesDiffer DEF OwnMessage, message, build_commitment
<1>10. j = k => msg = OwnMessage(r, n)
  <2> HAVE j = k
  <2>1. rec = [node_id |-> n, round |-> k, commitment_hex |-> HashOf(n, k),
               public_intent |-> build_commitment(n, k).public_intent]
    BY <1>1, <1>2, <1>4 DEF SentCommitments, CommitmentRecord
  <2>2. build_commitment(n, k)
          = [node_id |-> n, round |-> k, commitment_hex |-> HashOf(n, k),
             public_intent |-> build_commitment(n, k).public_intent]
    BY DEF build_commitment
  <2>3. msg = [origin |-> n, type |-> "commitment", rec |-> rec]
    BY <1>2 DEF CommitmentMessages
  <2> QED  BY <2>1, <2>2, <2>3 DEF OwnMessage, message
<1>11. j < k \/ j = k
  BY <1>1, <1>3 DEF RoundIds
<1>12. j < k => j # k
  BY <1>3 DEF RoundIds
<1> QED  BY <1>1, <1>2, <1>6, <1>7, <1>8, <1>9, <1>10, <1>11, <1>12

\* An offer is drained: it is accepted when it is the node's own and first,
\* otherwise refused.
LEMMA DrainOffer ==
    ASSUME NEW r, RtInv(r), Known(r), r.phase = "commit", r.round_machine.proposal = None,
           NEW msg \in Offered(r)
    PROVE  LET r2 == drain_commitment(r, msg)
           IN  /\ Keeps(r, r2) /\ Known(r2) /\ r2.phase = "commit" /\ Round(r2) = Round(r)
               /\ r2.scenario = r.scenario /\ r2.round_machine.proposal = None
               /\ r2.log.proofs = r.log.proofs
               /\ \A n \in Nodes : Accepted(r2, n) <=> Accepted(r, n) \/ msg = OwnMessage(r, n)
<1> DEFINE m == r.round_machine
           rec == msg.rec
           o == msg.origin
           k == Round(r)
           result == commitment_result(m, rec)
<1>1. PICK r2 : r2 = drain_commitment(r, msg)
  OBVIOUS
<1>2. msg \in Messages /\ rec \in SentCommitments /\ rec \in CommitmentRecord
  BY DEF Offered, Messages, CommitmentMessages, SentCommitments
<1>3. Keeps(r, r2) /\ r2.phase = "commit" /\ r2.scenario = r.scenario
  BY <1>1, <1>2, DrainCommitmentKeeps, RuntimeFacts DEF Keeps
<1>4. /\ o \in Nodes /\ rec.node_id = o /\ msg.type = "commitment"
      /\ Accepted(r, o) => result = "duplicate_commitment"
      /\ (~Accepted(r, o) /\ msg # OwnMessage(r, o)) => result = "replay_detected"
      /\ (~Accepted(r, o) /\ msg = OwnMessage(r, o)) => result = "ok" /\ Speaks(r, o, k)
  BY OfferResult
<1>5. \A n : msg = OwnMessage(r, n) => n = o
  BY DEF OwnMessage, message
<1>6. /\ r \in Runtimes /\ m \in Machine /\ r.log \in Logs /\ CommitmentsCoherent(m, r.log)
      /\ m.current = k
  BY RuntimeFacts DEF Round
<1>7. CASE result # "ok"
  <2>1. r2 = reject(r, o, "commitment", result)
    BY <1>1, <1>4, <1>7 DEF drain_commitment
  <2>2. /\ r2.round_machine = m /\ r2.log.proofs = r.log.proofs
        /\ r2.historical_commitments = r.historical_commitments
    BY <1>6, <2>1, RejectLeaves
  <2>3. Known(r2)
    BY <1>3, <2>2, SameRoundKnown
  <2>4. \A n \in Nodes : Accepted(r2, n) <=> Accepted(r, n) \/ msg = OwnMessage(r, n)
    BY <1>4, <1>5, <1>7, <2>2 DEF Accepted
  <2> QED  BY <1>1, <1>3, <2>2, <2>3, <2>4 DEF Round
<1>8. CASE result = "ok"
  <2>1. ~Accepted(r, o) /\ msg = OwnMessage(r, o) /\ Speaks(r, o, k)
    BY <1>4, <1>8
  <2>2. rec = build_commitment(o, k) /\ rec.commitment_hex = HashOf(o, k)
    BY <2>1 DEF OwnMessage, message, build_commitment
  <2> DEFINE m2 == accept_commitment(m, rec)
             log2 == append_commitment(r.log, rec)
  <2>3. r2 = [r EXCEPT !.round_machine = m2, !.log = log2]
    <3>1. ~LogHasCommitment(r.log, rec.node_id, rec.round)
      BY <1>2, <1>6, <1>8, NeverLogDuplicate
    <3>2. r2 = [[r EXCEPT !.round_machine = accept_commitment(@, rec)]
                    EXCEPT !.log = append_commitment(@, rec)]
      BY <1>1, <1>4, <1>8, <3>1, Zenon DEF drain_commitment
    <3> QED  BY <3>2
  <2>4. m2 = [m EXCEPT !.history_hex = @ \cup {rec.commitment_hex}, !.commitments[o] = rec]
    <3>1. rec \in CommitmentRecord /\ rec.node_id = o /\ o \in Nodes
      BY <1>2, <1>4, <1>6, <1>8, CommitmentChecks
    <3>2. rec.node_id \in Nodes
      BY <3>1
    <3>3. insert_commitment(m, rec)
              = [m EXCEPT !.history_hex = @ \cup {rec.commitment_hex},
                          !.commitments[rec.node_id] = rec]
      BY <1>6, <3>1, <3>2, InsertIsUpdate
    <3> QED  BY <1>8, <3>1, <3>3 DEF accept_commitment
  <2>5. /\ m2.current = k /\ m2.proposal = m.proposal
        /\ m2.history_hex = m.history_hex \cup {HashOf(o, k)}
        /\ m2.commitments = [m.commitments EXCEPT ![o] = rec]
    BY <1>6, <2>2, <2>4 DEF Machine
  <2>6. /\ m2.commitments[o] = rec
        /\ \A n \in Nodes : n # o => m2.commitments[n] = m.commitments[n]
    BY <1>4, <1>6, <2>5 DEF Machine, CommitmentMap
  <2>7. log2.proofs = r.log.proofs
    BY <1>6 DEF append_commitment, Logs
  <2> HIDE DEF m2, log2
  <2>8. /\ r2.round_machine = m2 /\ r2.log = log2
        /\ r2.historical_commitments = r.historical_commitments
    BY <1>6, <2>3 DEF Runtimes
  <2>9. Round(r2) = k /\ \A n, j : Speaks(r2, n, j) <=> Speaks(r, n, j)
    BY <1>3, <2>5, <2>8 DEF Round, Speaks
  <2>10. \A n \in Nodes : Accepted(r2, n) <=> Accepted(r, n) \/ n = o
    BY <1>2, <2>6, <2>8, NoneAssumption DEF Accepted, NoneAssumption
  <2>11. EarlierRoundsFailed(r2)
    BY <1>3, <2>9 DEF Known, EarlierRoundsFailed
  <2>12. HistoryIsKnown(r2)
    <3> SUFFICES ASSUME NEW n \in Nodes, NEW j \in RoundIds
                 PROVE  HashOf(n, j) \in r2.round_machine.history_hex
                        <=> (j < k /\ Speaks(r, n, j)) \/ (j = k /\ Accepted(r2, n))
      BY <2>9 DEF HistoryIsKnown
    <3>1. HashOf(n, j) \in m.history_hex
          <=> (j < k /\ Speaks(r, n, j)) \/ (j = k /\ Accepted(r, n))
      BY DEF Known, HistoryIsKnown
    <3>2. HashOf(n, j) \in r2.round_machine.history_hex
          <=> HashOf(n, j) \in m.history_hex \/ HashOf(n, j) = HashOf(o, k)
      BY <2>5, <2>8
    <3>3. HashOf(n, j) = HashOf(o, k) <=> n = o /\ j = k
      BY HashesDiffer
    <3> QED  BY <2>10, <3>1, <3>2, <3>3
  <2>13. ReplaysAreOld(r2)
    BY <1>3, <2>8, <2>9 DEF Known, ReplaysAreOld
  <2>14. OwnRecords(r2)
    BY <2>1, <2>2, <2>6, <2>8, <2>9, <2>10 DEF Known, OwnRecords
  <2>15. \A n \in Nodes : Accepted(r2, n) <=> Accepted(r, n) \/ msg = OwnMessage(r, n)
    BY <1>5, <2>1, <2>10
  <2> QED  BY <1>1, <1>3, <2>5, <2>7, <2>8, <2>9, <2>11, <2>12, <2>13, <2>14, <2>15 DEF Known
<1> QED  BY <1>7, <1>8

\* The honest proposal is a record the round machine lets through.
LEMMA TheProposalPasses ==
    ASSUME NEW r, RtInv(r), Complete(r), r.round_machine.proposal = None
    PROVE  /\ TheProposal(r) \in ProposalRecord
           /\ proposal_result(r.round_machine, TheProposal(r)) = "ok"
<1> DEFINE m == r.round_machine
           p == TheProposal(r)
           req == m.commitments[Requester].public_intent
           prov == m.commitments[Best(r)].public_intent
<1>1. /\ Best(r) \in Providers /\ Best(r) \in Nodes /\ Best(r) # Requester
      /\ Required \in Claims[Best(r)] /\ Speaks(r, Best(r), Round(r))
  BY BestFacts DEF Complete
<1>2. m.commitments[Requester] # None /\ m.commitments[Best(r)] # None /\ Requester \in Nodes
  BY <1>1, NodeFacts DEF Complete, AllSpoke, Accepted
<1>3. /\ m \in Machine /\ r.log \in Logs /\ CommitmentsCoherent(m, r.log)
      /\ Round(r) \in Nat /\ m.current = Round(r)
  BY RuntimeFacts DEF Round
<1>4. /\ req.node_id = Requester /\ req.role = "requester"
      /\ req.required_capability = Required
  BY <1>2, <1>3, StoredCommitment DEF role
<1>5. /\ prov.node_id = Best(r) /\ prov.role = "provider"
      /\ prov.capability_claims = Claims[Best(r)]
  BY <1>1, <1>2, <1>3, StoredCommitment DEF role
<1>6. /\ p.proposer = current_proposer(m) /\ p.round = m.current
      /\ p.candidate_requester = Requester /\ p.candidate_provider = Best(r)
      /\ p.matched_capability = Required
  BY <1>3 DEF TheProposal, current_proposer
<1>7. p \in ProposalRecord
  BY <1>1, <1>2, <1>3, NodeFacts, CapabilityAssumption
     DEF TheProposal, ProposalRecord, CapabilityAssumption
<1>8. validate_proposal_annotation(p, req, prov) = "ok"
  BY <1>4, <1>5, <1>6 DEF validate_proposal_annotation
<1>9. HasCommitment(m, p.candidate_requester) /\ HasCommitment(m, p.candidate_provider)
  BY <1>1, <1>2, <1>6 DEF HasCommitment
<1> HIDE DEF p
<1>10. proposal_result(m, p) = "ok"
  BY <1>1, <1>4, <1>5, <1>6, <1>8, <1>9, <1>2 DEF proposal_result
<1> QED  BY <1>7, <1>10 DEF p

\* The honest proposal is accepted.
LEMMA DrainTheProposal ==
    ASSUME NEW r, RtInv(r), Known(r), r.phase = "proposal", Complete(r),
           r.round_machine.proposal = None
    PROVE  LET msg == message(proposer_for_round(Round(r)), "proposal", TheProposal(r))
               r2  == drain_proposal(r, msg)
           IN  /\ msg \in Messages /\ Keeps(r, r2) /\ Known(r2) /\ r2.phase = "proposal"
               /\ r2.round_machine.proposal = TheProposal(r)
               /\ r2.round_machine.current = r.round_machine.current
               /\ r2.round_machine.commitments = r.round_machine.commitments
               /\ r2.log.proofs = r.log.proofs
<1> DEFINE m == r.round_machine
           p == TheProposal(r)
           msg == message(proposer_for_round(Round(r)), "proposal", p)
<1>1. PICK r2 : r2 = drain_proposal(r, msg)
  OBVIOUS
<1>3. p \in ProposalRecord /\ proposal_result(m, p) = "ok"
  BY TheProposalPasses
<1>5. /\ msg.type = "proposal" /\ msg.rec = p /\ msg.origin = p.proposer
      /\ msg \in Messages
  <2>1. proposer_for_round(Round(r)) \in Nodes
    BY NodeFacts, RuntimeFacts
  <2>2. p.proposer = proposer_for_round(Round(r))
    BY DEF TheProposal
  <2> HIDE DEF p
  <2> QED  BY <1>3, <2>1, <2>2 DEF message, Messages
<1> HIDE DEF msg, p
<1>6. Keeps(r, r2) /\ r2.phase = "proposal" /\ r2.scenario = r.scenario
  BY <1>1, <1>5, DrainProposalKeeps, RuntimeFacts DEF Keeps
<1>7. r \in Runtimes /\ m \in Machine /\ r.log \in Logs
  BY RuntimeFacts
<1> DEFINE m2 == accept_proposal(m, p)
           log2 == append_proposal(r.log, p)
<1>8. r2 = [r EXCEPT !.round_machine = m2, !.log = log2]
  BY <1>1, <1>3, <1>5 DEF drain_proposal
<1>9. /\ m2.proposal = p /\ m2.current = m.current
      /\ m2.commitments = m.commitments /\ m2.history_hex = m.history_hex
      /\ log2.proofs = r.log.proofs
  BY <1>3, <1>7 DEF accept_proposal, append_proposal, Machine, Logs
<1> HIDE DEF m2, log2
<1>10. /\ r2.round_machine = m2 /\ r2.log = log2
       /\ r2.historical_commitments = r.historical_commitments
  BY <1>7, <1>8 DEF Runtimes
<1>11. Known(r2)
  BY <1>6, <1>9, <1>10, SameRoundKnown
<1> QED  BY <1>1, <1>5, <1>6, <1>9, <1>10, <1>11 DEF msg, p

\* A proof message is drained: the node has proved afterwards exactly if its
\* proof was not sabotaged, and nobody else's standing changes.
LEMMA DrainOwnProof ==
    ASSUME NEW r, RtInv(r), r.phase = "proof", NEW n \in Nodes, Accepted(r, n)
    PROVE  LET r2 == drain_proof(r, ProofMessage(r, n, Round(r)))
           IN  /\ Keeps(r, r2) /\ r2.phase = "proof" /\ r2.round_machine = r.round_machine
               /\ r2.scenario = r.scenario
               /\ r2.historical_commitments = r.historical_commitments
               /\ \A k \in Nodes : Proved(r2, k) <=> Proved(r, k) \/ (k = n /\ ~Sabotaged(r, n))
               /\ Sabotaged(r, n) => r2 = reject(r, n, "proof", "public_inputs_mismatch")
<1> DEFINE m == r.round_machine
<1>1. PICK msg : msg = ProofMessage(r, n, Round(r))
  OBVIOUS
<1>2. PICK r2 : r2 = drain_proof(r, msg)
  OBVIOUS
<1>3. /\ RtInv(r) /\ r \in Runtimes /\ m \in Machine /\ r.log \in Logs /\ m.current = Round(r)
      /\ CommitmentsCoherent(m, r.log)
  BY RuntimeFacts DEF Round
<1>4. HasCommitment(m, n)
  BY DEF Accepted, HasCommitment
<1> DEFINE rec == msg.rec
<1>5. /\ msg \in Messages /\ msg.type = "proof" /\ msg.origin = n
      /\ rec \in SentProofs /\ rec.node_id = n /\ rec.round = Round(r)
      /\ rec.public_inputs.commitment = m.commitments[n].commitment_hex <=> ~Sabotaged(r, n)
  BY <1>1, <1>3, <1>4, ProofMessageShape DEF Sabotaged
<1>6. Keeps(r, r2) /\ r2.phase = "proof" /\ r2.scenario = r.scenario
  BY <1>2, <1>5, DrainProofKeeps, RuntimeFacts DEF Keeps
<1>7. rec.public_inputs # None
  <2>1. rec.public_inputs \in PublicInputs
    BY <1>5, NodeFacts, MaxRoundsAssumption
       DEF SentProofs, PublicInputs, RoundIds, MaxRoundsAssumption
  <2> QED  BY <2>1, RecordsAssumption DEF RecordsAssumption
<1>8. ProofBinds(r, rec) <=> ~Sabotaged(r, n)
  BY <1>5, <1>7 DEF ProofBinds, extract_commitment_hash
<1>9. CASE Sabotaged(r, n)
  <2>1. r2 = reject(r, n, "proof", "public_inputs_mismatch")
    BY <1>2, <1>3, <1>4, <1>5, <1>8, <1>9 DEF drain_proof
  <2>2. /\ r2.round_machine = m /\ r2.log.proofs = r.log.proofs
        /\ r2.historical_commitments = r.historical_commitments
    BY <1>3, <2>1, RejectLeaves
  <2> QED  BY <1>1, <1>2, <1>6, <1>9, <2>1, <2>2 DEF Proved, HasProof, Round
<1>10. CASE ~Sabotaged(r, n)
  <2> DEFINE log2 == append_proof(r.log, rec)
             s == r.log.proofs
             s2 == Append(s, rec)
  <2>1. r2 = [r EXCEPT !.log = log2]
    BY <1>2, <1>3, <1>4, <1>5, <1>8, <1>10 DEF drain_proof
  <2>2. log2.proofs = s2 /\ s \in Seq(SentProofs)
    BY <1>3 DEF append_proof, Logs
  <2>3. /\ \A i \in DOMAIN s : i \in DOMAIN s2 /\ s2[i] = s[i]
        /\ \A i \in DOMAIN s2 : s2[i] = rec \/ \E j \in DOMAIN s : s2[i] = s[j]
        /\ \E i \in DOMAIN s2 : s2[i] = rec
    <3>1. /\ \A i \in DOMAIN s : i \in DOMAIN s2 /\ s2[i] = s[i]
          /\ \A i \in DOMAIN s2 : s2[i] = rec \/ (i \in DOMAIN s /\ s2[i] = s[i])
          /\ Len(s) + 1 \in DOMAIN s2 /\ s2[Len(s) + 1] = rec
      BY <1>5, <2>2
    <3> QED  BY <3>1
  <2> HIDE DEF log2, s, s2
  <2>4. /\ r2.round_machine = m /\ r2.log = log2
        /\ r2.historical_commitments = r.historical_commitments
    BY <1>3, <2>1 DEF Runtimes
  <2>5. \A k : Proved(r2, k) <=> \E i \in DOMAIN s2 : s2[i].round = Round(r) /\ s2[i].node_id = k
    BY <2>2, <2>4 DEF Proved, HasProof, Round
  <2>6. \A k : Proved(r, k) <=> \E i \in DOMAIN s : s[i].round = Round(r) /\ s[i].node_id = k
    BY DEF Proved, HasProof, s
  <2>7. \A k \in Nodes : Proved(r2, k) <=> Proved(r, k) \/ k = n
    BY <1>5, <2>3, <2>5, <2>6
  <2> QED  BY <1>1, <1>2, <1>6, <1>10, <2>4, <2>7
<1> QED  BY <1>9, <1>10

\* The receipt is signed, and logged.
LEMMA DrainTheReceipt ==
    ASSUME NEW r, RtInv(r), Known(r), r.phase = "receipt", Complete(r)
    PROVE  LET msg == message(Best(r), "receipt", TheReceipt(r))
               r2  == drain_receipt(r, msg)
           IN  /\ msg \in Messages /\ Keeps(r, r2) /\ Known(r2) /\ r2.phase = "receipt"
               /\ r2.round_machine = r.round_machine /\ ReceiptLogged(r2)
<1> DEFINE m == r.round_machine
           rec == TheReceipt(r)
           msg == message(Best(r), "receipt", rec)
<1>1. PICK r2 : r2 = drain_receipt(r, msg)
  OBVIOUS
<1>4. /\ r \in Runtimes /\ m \in Machine /\ r.log \in Logs /\ m.current = Round(r)
      /\ Round(r) \in RoundIds
  BY RuntimeFacts DEF Round
<1>5. Best(r) \in Nodes /\ Best(r) \in Providers
  BY BestFacts DEF Complete
<1>6. rec \in SentReceipts
  BY <1>4, <1>5, SignedIsSent DEF TheReceipt
<1>7. rec.signature # NoSignature
  <2>1. rec.signature.scheme \in Schemes
    BY DEF TheReceipt, sign_receipt, Schemes
  <2>2. NoSignature.scheme = None
    BY DEF NoSignature
  <2> QED  BY <2>1, <2>2, RecordsAssumption DEF RecordsAssumption
<1>8. rec.provider = Best(r) /\ rec.round = Round(r)
  BY DEF TheReceipt
<1>9. /\ msg.type = "receipt" /\ msg.rec = rec /\ msg.origin = Best(r) /\ msg \in Messages
  <2> HIDE DEF rec
  <2> QED  BY <1>5, <1>6 DEF message, Messages
<1> HIDE DEF msg, rec
<1>10. Keeps(r, r2) /\ r2.phase = "receipt" /\ r2.scenario = r.scenario
  BY <1>1, <1>9, DrainReceiptKeeps, RuntimeFacts DEF Keeps
<1> DEFINE log2 == append_receipt(r.log, rec)
<1>11. r2 = [r EXCEPT !.log = log2]
  BY <1>1, <1>4, <1>7, <1>8, <1>9 DEF drain_receipt
<1>12. \E i \in DOMAIN log2.receipts : log2.receipts[i] = rec
  <2> DEFINE s == r.log.receipts
  <2>1. s \in Seq(SentReceipts) /\ log2.receipts = Append(s, rec)
    BY <1>4 DEF append_receipt, Logs
  <2> HIDE DEF s
  <2>2. Len(s) + 1 \in DOMAIN Append(s, rec) /\ Append(s, rec)[Len(s) + 1] = rec
    BY <1>6, <2>1
  <2> QED  BY <2>1, <2>2
<1> HIDE DEF log2
<1>13. /\ r2.round_machine = m /\ r2.log = log2
       /\ r2.historical_commitments = r.historical_commitments
  BY <1>4, <1>11 DEF Runtimes
<1>14. Known(r2)
  BY <1>10, <1>13, SameRoundKnown
<1>15. TheReceipt(r2) = rec
  BY <1>10, <1>13, SameRound DEF rec
<1>16. ReceiptLogged(r2)
  BY <1>12, <1>13, <1>15 DEF ReceiptLogged
<1> QED  BY <1>1, <1>9, <1>10, <1>13, <1>14, <1>16 DEF msg, rec

\* A drained message does not move the round.
LEMMA DrainKeepsRound ==
    ASSUME NEW r, RtInv(r), Draining(r), NEW msg \in Messages
    PROVE  Round(Drain(r, msg)) = Round(r)
<1> DEFINE m == r.round_machine
           rec == msg.rec
<1>1. r \in Runtimes /\ m \in Machine
  BY DEF RtInv, Runtimes
<1>2. \A n, kind, code : Round(reject(r, n, kind, code)) = Round(r)
  BY <1>1, RejectLeaves DEF Round
<1>3. ASSUME r.phase = "commit" PROVE Round(drain_commitment(r, msg)) = Round(r)
  <2> DEFINE m2 == accept_commitment(m, rec)
             r1 == [r EXCEPT !.round_machine = m2]
  <2>1. m2.current = m.current
    BY <1>1 DEF accept_commitment, insert_commitment, Machine
  <2> HIDE DEF m2
  <2>2. r1.round_machine = m2 /\ [r1 EXCEPT !.log = append_commitment(@, rec)].round_machine = m2
        /\ \A n, kind, code : reject(r1, n, kind, code).round_machine = m2
    BY <1>1 DEF reject, Runtimes
  <2> HIDE DEF r1
  <2>3. \/ \E n, kind, code : drain_commitment(r, msg) = reject(r, n, kind, code)
        \/ \E n, kind, code : drain_commitment(r, msg) = reject(r1, n, kind, code)
        \/ drain_commitment(r, msg) = [r1 EXCEPT !.log = append_commitment(@, rec)]
    BY Zenon DEF drain_commitment, r1, m2
  <2> QED  BY <1>2, <2>1, <2>2, <2>3 DEF Round
<1>4. Round(drain_proposal(r, msg)) = Round(r)
  <2>1. accept_proposal(m, rec).current = m.current
    BY <1>1 DEF accept_proposal, Machine
  <2>2. [r EXCEPT !.round_machine = accept_proposal(@, rec),
                  !.log = append_proposal(@, rec)].round_machine = accept_proposal(m, rec)
    BY <1>1 DEF Runtimes
  <2> QED  BY <1>2, <2>1, <2>2 DEF drain_proposal, Round
<1>5. Round(drain_proof(r, msg)) = Round(r)
  BY <1>1, <1>2 DEF drain_proof, Round, Runtimes
<1>6. Round(drain_receipt(r, msg)) = Round(r)
  BY <1>1, <1>2 DEF drain_receipt, Round, Runtimes
<1> QED  BY <1>3, <1>4, <1>5, <1>6 DEF Drain, Draining

-----------------------------------------------------------------------------
(* The end of a phase.                                                     *)

\* A round that failed leaves a fresh one; otherwise the phase alone changes.
FallenBack(r, r2) ==
    /\ Keeps(r, r2) /\ Known(r2) /\ r2.phase = "loop" /\ Round(r2) = Round(r) + 1
    /\ r2.round_machine.commitments = NoCommitments /\ r2.round_machine.proposal = None
    /\ \A n \in Nodes : ~Proved(r2, n)
MovedOn(r, r2, next) ==
    /\ Keeps(r, r2) /\ Known(r2) /\ r2.phase = next
    /\ r2.round_machine = r.round_machine /\ r2.log = r.log
    /\ r2.scenario = r.scenario /\ r2.agents = r.agents

\* A round that could not succeed and in which whoever spoke was accepted
\* falls back to a fresh one.
LEMMA FallbackKnown ==
    ASSUME NEW r, RtInv(r), Known(r), Draining(r), r.phase # "receipt", AllSpoke(r),
           ~RoundSucceeds(r.scenario, Round(r))
    PROVE  FallenBack(r, Fallback(r))
<1> DEFINE m == r.round_machine
           k == Round(r)
           m2 == advance_fallback(m)
<1>1. PICK r2 : r2 = Fallback(r)
  OBVIOUS
<1>2. /\ m \in Machine /\ r \in Runtimes /\ k \in Nat /\ k \in RoundIds /\ m.current = k
      /\ k < MaxRounds
  BY RuntimeFacts DEF Round
<1>3. /\ RtInv(r2) /\ r2.phase = "loop" /\ r2.agents = r.agents /\ r2.scenario = r.scenario
      /\ Round(r2) = k + 1 /\ r2.log = r.log
  BY <1>1, <1>2, FallbackKeeps, RuntimeFacts DEF Round
<1>4. /\ r2.round_machine = m2 /\ r2.historical_commitments = r.historical_commitments
  BY <1>1, <1>2 DEF Fallback, Runtimes
<1>5. m2.history_hex = m.history_hex
  BY <1>2 DEF advance_fallback, advance_to, close_round
<1>6. m2.commitments = NoCommitments /\ m2.proposal = None
  BY <1>2, FallbackMachine
<1> HIDE DEF m2
<1>7. \A n \in Nodes : ~Accepted(r2, n)
  BY <1>4, <1>6 DEF Accepted, NoCommitments
<1>8. \A n, j : Speaks(r2, n, j) <=> Speaks(r, n, j)
  BY <1>3 DEF Speaks
<1>9. \A j \in RoundIds : (j < k + 1 <=> j < k \/ j = k)
  BY <1>2 DEF RoundIds
<1>10. EarlierRoundsFailed(r2)
  BY <1>3, <1>9 DEF EarlierRoundsFailed, Known
<1>11. HistoryIsKnown(r2)
  <2> SUFFICES ASSUME NEW n \in Nodes, NEW j \in RoundIds
               PROVE  HashOf(n, j) \in m.history_hex <=> j < k + 1 /\ Speaks(r, n, j)
    BY <1>3, <1>4, <1>5, <1>7, <1>8 DEF HistoryIsKnown
  <2>1. HashOf(n, j) \in m.history_hex
        <=> (j < k /\ Speaks(r, n, j)) \/ (j = k /\ Accepted(r, n))
    BY DEF Known, HistoryIsKnown
  <2>2. Accepted(r, n) <=> Speaks(r, n, k)
    BY DEF Known, OwnRecords, AllSpoke
  <2> QED  BY <1>9, <2>1, <2>2
<1>12. ReplaysAreOld(r2)
  BY <1>3, <1>4, <1>8, <1>9 DEF Known, ReplaysAreOld
<1>13. OwnRecords(r2)
  BY <1>7 DEF OwnRecords
<1>14. \A n \in Nodes : ~Proved(r2, n)
  BY <1>2, <1>3, NoProofAhead DEF Proved
<1> QED  BY <1>1, <1>3, <1>4, <1>6, <1>10, <1>11, <1>12, <1>13, <1>14
         DEF Keeps, Known, FallenBack

\* The commitments are in: the proposer proposes the best claimant; without a
\* requester, or where the proposer is without a claimant, the round fails.
LEMMA EndCommitKnown ==
    ASSUME NEW r, RtInv(r), Known(r), r.phase = "commit", AllSpoke(r)
    PROVE  LET res   == end_commit_phase(r)
               holds == proposer_for_round(Round(r)) \in r.agents
               fails == ~Speaks(r, Requester, Round(r)) \/ (holds /\ Claimants(r) = {})
           IN  /\ fails => res.out = <<>> /\ FallenBack(r, res.rt)
               /\ ~fails => /\ MovedOn(r, res.rt, "proposal")
                            /\ holds => Complete(r)
                            /\ res.out = IF holds
                                         THEN <<message(proposer_for_round(Round(r)), "proposal",
                                                        TheProposal(r))>>
                                         ELSE <<>>
<1> DEFINE m == r.round_machine
           res == end_commit_phase(r)
           holds == proposer_for_round(Round(r)) \in r.agents
           fails == ~HasCommitment(m, Requester) \/ (HoldsProposer(r) /\ StoredFeasible(m) = {})
<1>1. /\ r \in Runtimes /\ m.current = Round(r) /\ Round(r) \in Nat
  BY RuntimeFacts DEF Round
<1>2. HoldsProposer(r) <=> holds
  BY <1>1 DEF HoldsProposer, current_proposer
<1>21. current_proposer(m) = proposer_for_round(Round(r))
  BY <1>1 DEF current_proposer
<1>4. \A n \in Nodes : Accepted(r, n) <=> Speaks(r, n, Round(r))
  BY DEF AllSpoke, Known, OwnRecords
<1>5. StoredFeasible(m) = Claimants(r)
  BY <1>4, NodeFacts DEF StoredFeasible, Claimants, SpeakingFeasible, Accepted, Speaks
<1>6. HasCommitment(m, Requester) <=> Speaks(r, Requester, Round(r))
  BY <1>4, NodeFacts DEF HasCommitment, Accepted
<1>7. /\ fails => /\ res.out = <<>>
                  /\ \E n \in NodeIds, kind \in Kinds, code \in Codes :
                         res.rt = Fallback(reject(r, n, kind, code))
      /\ ~fails => /\ res.rt = [r EXCEPT !.phase = "proposal"]
                   /\ res.out = IF holds THEN <<message(current_proposer(m), "proposal", DerivedProposal(m))>>
                                ELSE <<>>
  BY <1>1, <1>2, EndCommitShape
<1>71. fails <=> ~Speaks(r, Requester, Round(r)) \/ (holds /\ Claimants(r) = {})
  BY <1>2, <1>5, <1>6
<1>8. CASE fails
  <2>1. PICK n \in NodeIds, kind \in Kinds, code \in Codes :
            res.rt = Fallback(reject(r, n, kind, code))
    BY <1>7, <1>8
  <2>2. PICK r1 : r1 = reject(r, n, kind, code)
    OBVIOUS
  <2>3. /\ RtInv(r1) /\ r1.phase = "commit" /\ r1.round_machine = m
        /\ r1.agents = r.agents /\ r1.scenario = r.scenario
    BY <1>1, <2>2, RejectKeeps DEF Draining
  <2>4. r1.historical_commitments = r.historical_commitments
    BY <1>1, <2>2, RejectLeaves
  <2>5. Known(r1)
    BY <2>3, <2>4, SameRoundKnown
  <2>6. AllSpoke(r1) /\ Round(r1) = Round(r)
    BY <2>3, SameRound
  <2>7. ~RoundSucceeds(r1.scenario, Round(r1))
    BY <1>5, <1>6, <1>8, <2>3, <2>6, RoundSucceedsMeans
  <2>8. FallenBack(r1, Fallback(r1))
    BY <2>3, <2>5, <2>6, <2>7, FallbackKnown DEF Draining
  <2>9. FallenBack(r, Fallback(r1))
    BY <2>3, <2>6, <2>8 DEF FallenBack, Keeps
  <2> HIDE DEF fails
  <2> QED  BY <1>7, <1>71, <1>8, <2>1, <2>2, <2>9
<1>9. CASE ~fails
  <2>1. PICK r2 : r2 = res.rt
    OBVIOUS
  <2>2. r2 = [r EXCEPT !.phase = "proposal"]
    BY <1>7, <1>9, <2>1
  <2>3. /\ r2.phase = "proposal" /\ r2.round_machine = m /\ r2.scenario = r.scenario
        /\ r2.log = r.log /\ r2.historical_commitments = r.historical_commitments
        /\ r2.agents = r.agents
    BY <1>1, <2>2 DEF Runtimes
  <2>4. Keeps(r, r2)
    BY <2>1, EndCommitSound DEF Sound
  <2>5. Known(r2)
    BY <2>3, SameRoundKnown
  <2>6. holds => Complete(r)
    BY <1>2, <1>5, <1>6, <1>9 DEF Complete
  <2>8. DerivedProposal(m) = TheProposal(r)
    BY <1>1, <1>21, <1>5 DEF DerivedProposal, TheProposal, Best
  <2>9. MovedOn(r, r2, "proposal")
    BY <2>3, <2>4, <2>5 DEF MovedOn
  <2> HIDE DEF fails, holds
  <2> QED  BY <1>21, <1>7, <1>71, <1>9, <2>1, <2>6, <2>8, <2>9 DEF holds
<1> QED  BY <1>8, <1>9

\* The proposal is in: requester and provider send their proofs.
LEMMA EndProposalKnown ==
    ASSUME NEW r, RtInv(r), Known(r), r.phase = "proposal", Complete(r),
           r.round_machine.proposal = TheProposal(r)
    PROVE  LET res     == end_proposal_phase(r)
               parties == {Requester, Best(r)} \cap r.agents
           IN  /\ MovedOn(r, res.rt, "proof")
               /\ \A i \in DOMAIN res.out : \E n \in parties :
                      res.out[i] = ProofMessage(r, n, Round(r))
               /\ \A n \in parties : \E i \in DOMAIN res.out :
                      res.out[i] = ProofMessage(r, n, Round(r))
               /\ r.agents = Nodes => res.out = <<ProofMessage(r, Requester, Round(r)),
                                                  ProofMessage(r, Best(r), Round(r))>>
<1> DEFINE m == r.round_machine
           p == TheProposal(r)
           res == end_proposal_phase(r)
           parties == {Requester, Best(r)} \cap r.agents
<1>1. PICK r2 : r2 = res.rt
  OBVIOUS
<1>3. /\ r \in Runtimes /\ m \in Machine /\ Round(r) = m.current /\ Round(r) \in Nat
  BY RuntimeFacts DEF Round
<1>4. m.proposal # None /\ m.proposal.candidate_provider = Best(r)
  <2>1. /\ Best(r) \in Nodes /\ Best(r) \in Providers
    BY BestFacts DEF Complete
  <2>2. p \in ProposalRecord
    BY <1>3, <2>1, NodeFacts, CapabilityAssumption
       DEF TheProposal, ProposalRecord, CapabilityAssumption
  <2> QED  BY <2>2, NoneAssumption DEF NoneAssumption, TheProposal
<1>5. /\ r2 = [r EXCEPT !.phase = "proof"]
      /\ \A i \in DOMAIN res.out : \E n \in parties :
             res.out[i] = ProofMessage(r, n, Round(r))
      /\ \A n \in parties : \E i \in DOMAIN res.out :
             res.out[i] = ProofMessage(r, n, Round(r))
      /\ r.agents = Nodes => res.out = <<ProofMessage(r, Requester, Round(r)),
                                         ProofMessage(r, Best(r), Round(r))>>
  BY <1>1, <1>3, <1>4, EndProposalShape
<1>6. /\ r2.phase = "proof" /\ r2.round_machine = m /\ r2.scenario = r.scenario
      /\ r2.log = r.log /\ r2.historical_commitments = r.historical_commitments
      /\ r2.agents = r.agents
  BY <1>3, <1>5 DEF Runtimes
<1>7. Keeps(r, r2)
  BY <1>1, <1>3, EndProposalSound DEF Sound
<1>8. Known(r2)
  BY <1>6, SameRoundKnown
<1>9. MovedOn(r, r2, "proof")
  BY <1>6, <1>7, <1>8 DEF MovedOn
<1> QED  BY <1>1, <1>5, <1>9

\* The proofs are in: with both, the provider signs; without, the round had
\* no chance.
LEMMA EndProofKnown ==
    ASSUME NEW r, RtInv(r), Known(r), r.phase = "proof", Complete(r),
           r.round_machine.proposal = TheProposal(r),
           \A n \in {Requester, Best(r)} : Proved(r, n) <=> ~Sabotaged(r, n)
    PROVE  LET res == end_proof_phase(r)
           IN  /\ ~RoundSucceeds(r.scenario, Round(r)) => res.out = <<>> /\ FallenBack(r, res.rt)
               /\ RoundSucceeds(r.scenario, Round(r)) =>
                      /\ MovedOn(r, res.rt, "receipt")
                      /\ res.out = IF Best(r) \in r.agents
                                   THEN <<message(Best(r), "receipt", TheReceipt(r))>> ELSE <<>>
<1> DEFINE m == r.round_machine
           p == TheProposal(r)
           res == end_proof_phase(r)
<1>1. /\ Proved(r, Requester) <=> ~Sabotaged(r, Requester)
      /\ Proved(r, Best(r)) <=> ~Sabotaged(r, Best(r))
  OBVIOUS
<1>2. p.candidate_requester = Requester /\ p.candidate_provider = Best(r)
  BY DEF TheProposal
<1>3. /\ r \in Runtimes /\ m \in Machine /\ Round(r) = m.current
  BY RuntimeFacts DEF Round
<1>4. Best(r) \in Nodes
  BY BestFacts DEF Complete
<1>5. HasBothProofs(r, m.proposal) <=> RoundSucceeds(r.scenario, Round(r))
  BY <1>1, <1>2, <1>3, RoundSucceedsMeans DEF HasBothProofs, Proved, Complete
<1>6. CASE ~RoundSucceeds(r.scenario, Round(r))
  <2>1. res.out = <<>> /\ res.rt = Fallback(r)
    BY <1>3, <1>5, <1>6, EndProofShape
  <2>2. AllSpoke(r) /\ Draining(r)
    BY DEF Complete, Draining
  <2>3. FallenBack(r, Fallback(r))
    BY <1>6, <2>2, FallbackKnown
  <2> QED  BY <1>6, <2>1, <2>3
<1>7. CASE RoundSucceeds(r.scenario, Round(r))
  <2>1. PICK r2 : r2 = res.rt
    OBVIOUS
  <2>2. /\ r2 = [r EXCEPT !.phase = "receipt"]
        /\ res.out = IF Best(r) \in r.agents
                     THEN <<message(Best(r), "receipt", TheReceipt(r))>> ELSE <<>>
    <3>1. HasBothProofs(r, m.proposal) /\ m.proposal.candidate_provider = Best(r)
      BY <1>1, <1>2, <1>5, <1>7
    <3>2. /\ res.rt = [r EXCEPT !.phase = "receipt"]
          /\ res.out = IF m.proposal.candidate_provider \notin r.agents THEN <<>>
                       ELSE <<message(m.proposal.candidate_provider, "receipt",
                                [provider |-> m.proposal.candidate_provider, round |-> m.current,
                                 signature |-> sign_receipt(m.proposal.candidate_provider,
                                                            m.current, Required)])>>
      BY <1>3, <3>1, EndProofShape
    <3> QED  BY <1>3, <1>4, <2>1, <3>1, <3>2 DEF TheReceipt
  <2>3. /\ r2.phase = "receipt" /\ r2.round_machine = m /\ r2.scenario = r.scenario
        /\ r2.historical_commitments = r.historical_commitments /\ r2.agents = r.agents
        /\ r2.log = r.log
    BY <1>3, <2>2 DEF Runtimes
  <2>4. Keeps(r, r2)
    BY <1>3, <2>1, EndProofSound DEF Sound
  <2>5. Known(r2)
    BY <2>3, SameRoundKnown
  <2>6. MovedOn(r, r2, "receipt")
    BY <2>3, <2>4, <2>5 DEF MovedOn
  <2> HIDE DEF p
  <2> QED  BY <1>7, <2>1, <2>2, <2>6
<1> QED  BY <1>6, <1>7

\* The run ended in a round that succeeded, or after its last round.
Ended(r) ==
    /\ r.log.finalized =>
           /\ Complete(r) /\ r.round_machine.proposal = TheProposal(r)
           /\ r.log.final_round = Round(r) /\ Round(r) < MaxRounds
           /\ RoundSucceeds(r.scenario, Round(r)) /\ ReceiptLogged(r)
    /\ ~r.log.finalized => /\ Round(r) = MaxRounds
                           /\ r.log.final_round = IF MaxRounds = 0 THEN 0 ELSE MaxRounds - 1

\* The receipt is in: the run ends finalized.
LEMMA EndReceiptKnown ==
    ASSUME NEW r, RtInv(r), Known(r), r.phase = "receipt", Complete(r),
           r.round_machine.proposal = TheProposal(r),
           RoundSucceeds(r.scenario, Round(r)), ReceiptLogged(r)
    PROVE  LET res == end_receipt_phase(r)
           IN  /\ Keeps(r, res.rt) /\ Known(res.rt) /\ Ended(res.rt) /\ res.out = <<>>
               /\ res.rt.phase = "done" /\ res.rt.log.finalized
               /\ res.rt.round_machine = r.round_machine
<1> DEFINE m == r.round_machine
           res == end_receipt_phase(r)
           log2 == set_final_round(r.log, m.current, TRUE)
<1>2. /\ r \in Runtimes /\ RtInv(r) /\ m \in Machine /\ r.log \in Logs /\ m.current = Round(r)
      /\ Round(r) < MaxRounds
  BY RuntimeFacts DEF Round, Draining
<1>3. PICK r2 : r2 = res.rt
  OBVIOUS
<1>4. r2 = [r EXCEPT !.phase = "done", !.log = log2] /\ res.out = <<>>
  BY <1>3 DEF end_receipt_phase
<1>5. /\ log2.finalized = TRUE /\ log2.final_round = Round(r)
      /\ log2.receipts = r.log.receipts
  BY <1>2 DEF set_final_round, Logs
<1> HIDE DEF log2
<1>6. /\ r2.phase = "done" /\ r2.log = log2 /\ r2.round_machine = m
      /\ r2.scenario = r.scenario /\ r2.historical_commitments = r.historical_commitments
  BY <1>2, <1>4 DEF Runtimes
<1>7. Keeps(r, r2)
  BY <1>2, <1>3, EndReceiptSound DEF Sound
<1>8. Known(r2)
  BY <1>6, SameRoundKnown
<1>9. /\ Complete(r2) /\ TheProposal(r2) = TheProposal(r) /\ TheReceipt(r2) = TheReceipt(r)
      /\ Round(r2) = Round(r)
  BY <1>6, SameRound
<1>10. Ended(r2)
  BY <1>2, <1>5, <1>6, <1>9 DEF Ended, ReceiptLogged
<1> QED  BY <1>3, <1>4, <1>5, <1>6, <1>7, <1>8, <1>10

\* No round is left: the run ends aborted.
LEMMA EndRunKnown ==
    ASSUME NEW r, RtInv(r), Known(r), LoopExhausted(r)
    PROVE  LET r2 == end_run(r)
           IN  /\ Keeps(r, r2) /\ Known(r2) /\ Ended(r2) /\ Round(r) = MaxRounds
               /\ r2.phase = "done" /\ ~r2.log.finalized
               /\ r2.round_machine = r.round_machine
<1> DEFINE m == r.round_machine
           last == IF m.current = 0 THEN 0 ELSE m.current - 1
           log2 == set_abort_reason(set_final_round(r.log, last, FALSE), "max_rounds_exceeded")
<1>1. /\ r \in Runtimes /\ RtInv(r) /\ m \in Machine /\ r.log \in Logs /\ m.current = Round(r)
      /\ Round(r) \in Nat /\ Round(r) <= MaxRounds
  BY RuntimeFacts DEF Round
<1>2. Round(r) = MaxRounds
  BY <1>1, MaxRoundsAssumption DEF LoopExhausted, MaxRoundsAssumption
<1>3. PICK r2 : r2 = end_run(r)
  OBVIOUS
<1>4. r2 = [r EXCEPT !.phase = "done", !.log = log2]
  BY <1>3 DEF end_run
<1>5. log2.finalized = FALSE /\ log2.final_round = last
  BY <1>1 DEF set_final_round, set_abort_reason, Logs
<1> HIDE DEF log2
<1>6. /\ r2.phase = "done" /\ r2.log = log2 /\ r2.round_machine = m
      /\ r2.scenario = r.scenario /\ r2.historical_commitments = r.historical_commitments
  BY <1>1, <1>4 DEF Runtimes
<1>7. Keeps(r, r2)
  BY <1>1, <1>3, EndRunKeeps
<1>8. Known(r2)
  BY <1>6, SameRoundKnown
<1>9. Round(r2) = Round(r)
  BY <1>6 DEF Round
<1>10. Ended(r2)
  BY <1>1, <1>2, <1>5, <1>6, <1>9 DEF Ended
<1> QED  BY <1>2, <1>3, <1>5, <1>6, <1>7, <1>8, <1>10

\* The end of a phase moves on to the next phase of the round, to the next
\* round, or out of the run.
LEMMA EndPhaseMoves ==
    ASSUME NEW r, RtInv(r), Draining(r)
    PROVE  LET r2 == EndPhase(r).rt
           IN  \/ r2.phase = "loop" /\ Round(r2) = Round(r) + 1
               \/ r2.phase \in {"proposal", "proof", "receipt"} /\ Round(r2) = Round(r)
               \/ r.phase = "receipt" /\ r2.phase = "done"
<1> DEFINE m == r.round_machine
<1>1. r \in Runtimes
  BY DEF RtInv
<1>2. PICK r2 : r2 = EndPhase(r).rt
  OBVIOUS
<1>3. ASSUME NEW next, r2 = [r EXCEPT !.phase = next]
      PROVE  r2.phase = next /\ Round(r2) = Round(r)
  BY <1>1, <1>3 DEF Runtimes, Round
<1>4. ASSUME NEW r1, RtInv(r1), r1.round_machine = m, Draining(r1), r1.phase # "receipt",
             r2 = Fallback(r1)
      PROVE  r2.phase = "loop" /\ Round(r2) = Round(r) + 1
  BY <1>4, FallbackKeeps DEF Round
<1>5. CASE r.phase = "commit"
  <2>1. r2 = end_commit_phase(r).rt
    BY <1>2, <1>5 DEF EndPhase
  <2>2. \/ r2 = [r EXCEPT !.phase = "proposal"]
        \/ \E n \in NodeIds, kind \in Kinds, code \in Codes : r2 = Fallback(reject(r, n, kind, code))
    <3> DEFINE res == end_commit_phase(r)
               fails == \/ ~HasCommitment(m, Requester)
                        \/ HoldsProposer(r) /\ StoredFeasible(m) = {}
    <3>1. /\ fails => \E n \in NodeIds, kind \in Kinds, code \in Codes :
                            res.rt = Fallback(reject(r, n, kind, code))
          /\ ~fails => res.rt = [r EXCEPT !.phase = "proposal"]
      BY <1>5, EndCommitShape
    <3> HIDE DEF fails
    <3> QED  BY <2>1, <3>1
  <2>3. ASSUME NEW n \in NodeIds, NEW kind \in Kinds, NEW code \in Codes,
               r2 = Fallback(reject(r, n, kind, code))
        PROVE  r2.phase = "loop" /\ Round(r2) = Round(r) + 1
    <3>1. PICK r1 : r1 = reject(r, n, kind, code)
      OBVIOUS
    <3>2. RtInv(r1) /\ r1.phase = r.phase /\ r1.round_machine = m
      BY <3>1, RejectKeeps
    <3> QED  BY <1>4, <1>5, <2>3, <3>1, <3>2 DEF Draining
  <2> QED  BY <1>2, <1>3, <2>2, <2>3
<1>6. CASE r.phase = "proposal"
  <2>1. r2 = end_proposal_phase(r).rt
    BY <1>2, <1>6 DEF EndPhase
  <2>2. r2 = [r EXCEPT !.phase = "proof"] \/ r2 = Fallback(r)
    BY <1>6, <2>1, EndProposalShape
  <2> QED  BY <1>2, <1>3, <1>4, <1>6, <2>2
<1>7. CASE r.phase = "proof"
  <2>1. r2 = end_proof_phase(r).rt
    BY <1>2, <1>7 DEF EndPhase
  <2>2. r2 = [r EXCEPT !.phase = "receipt"] \/ r2 = Fallback(r)
    BY <1>7, <2>1, EndProofShape
  <2> QED  BY <1>2, <1>3, <1>4, <1>7, <2>2
<1>8. CASE r.phase = "receipt"
  <2>1. r2 = end_receipt_phase(r).rt
    BY <1>2, <1>8 DEF EndPhase
  <2>2. r2.phase = "done"
    BY <1>8, <2>1, EndReceiptSound
  <2> QED  BY <1>2, <1>8, <2>2
<1> QED  BY <1>5, <1>6, <1>7, <1>8 DEF Draining

-----------------------------------------------------------------------------
(* The outcome of a run that has ended, and the abstract protocol.         *)

\* What the outcome of a run that has ended is.
LEMMA FinalOutcome ==
    ASSUME NEW r, RtInv(r), Ended(r)
    PROVE  OutcomeOf(r.log)
               = IF r.log.finalized
                 THEN [finalized |-> TRUE, round |-> Round(r), provider |-> Best(r)]
                 ELSE [finalized |-> FALSE,
                       round |-> IF MaxRounds = 0 THEN 0 ELSE MaxRounds - 1, provider |-> None]
<1>2. r.log \in Logs /\ r.round_machine \in Machine
      /\ ProposalsCoherent(r.round_machine, r.log)
  BY RuntimeFacts
<1>3. r.log.finalized \in BOOLEAN
  BY <1>2 DEF Logs
<1>4. CASE r.log.finalized
  <2>1. r.round_machine.proposal = TheProposal(r) /\ r.log.final_round = Round(r)
    BY <1>4 DEF Ended
  <2>2. LoggedProposal(r.log, Round(r)) = TheProposal(r)
    BY <1>2, <2>1, LookupProposal DEF Round
  <2>3. LoggedProposal(r.log, r.log.final_round).candidate_provider = Best(r)
    BY <2>1, <2>2 DEF TheProposal
  <2> QED  BY <1>3, <1>4, <2>1, <2>3 DEF OutcomeOf
<1>5. CASE ~r.log.finalized
  <2>1. r.log.final_round = IF MaxRounds = 0 THEN 0 ELSE MaxRounds - 1
    BY <1>5 DEF Ended
  <2> QED  BY <1>3, <1>5, <2>1 DEF OutcomeOf
<1> QED  BY <1>4, <1>5

\* It is the outcome the scenario calls for.
LEMMA EndedAsExpected ==
    ASSUME NEW r, RtInv(r), Known(r), Ended(r)
    PROVE  OutcomeOf(r.log) = ExpectedOutcome(r.scenario)
<1> DEFINE good == {j \in 0..(MaxRounds - 1) : RoundSucceeds(r.scenario, j)}
           k == Round(r)
<1>1. /\ MaxRounds \in Nat /\ k \in Nat
      /\ \A j \in 0..MaxRounds : j < k => ~RoundSucceeds(r.scenario, j)
  BY RuntimeFacts, MaxRoundsAssumption
     DEF Known, EarlierRoundsFailed, RoundIds, MaxRoundsAssumption
<1>2. CASE r.log.finalized
  <2>1. RoundSucceeds(r.scenario, k) /\ k < MaxRounds
    BY <1>2 DEF Ended
  <2>2. k \in good /\ good \subseteq Nat
    BY <1>1, <2>1
  <2>3. \A j \in good : k <= j
    BY <1>1
  <2>4. Min(good) \in good /\ Min(good) <= k
    BY <2>2, MinIsLeast
  <2>5. Min(good) = k
    <3>1. Min(good) \in Nat /\ k <= Min(good)
      BY <2>2, <2>3, <2>4
    <3> QED  BY <1>1, <2>4, <3>1
  <2>6. good # {}
    BY <2>2
  <2>7. ExpectedOutcome(r.scenario)
          = [finalized |-> TRUE, round |-> Min(good),
             provider |-> Min(SpeakingFeasible(r.scenario, Min(good)))]
    BY <2>6 DEF ExpectedOutcome
  <2> HIDE DEF good
  <2> QED  BY <1>2, <2>5, <2>7, FinalOutcome DEF Best, Claimants
<1>3. CASE ~r.log.finalized
  <2>1. k = MaxRounds
    BY <1>3 DEF Ended
  <2>2. good = {}
    BY <1>1, <2>1
  <2>3. ExpectedOutcome(r.scenario)
          = [finalized |-> FALSE, round |-> IF MaxRounds = 0 THEN 0 ELSE MaxRounds - 1,
             provider |-> None]
    BY <2>2 DEF ExpectedOutcome
  <2> QED  BY <1>3, <2>3, FinalOutcome
<1> QED  BY <1>2, <1>3

\* The log passes the verifier.
LEMMA EndedVerifies ==
    ASSUME KeysMatch, NEW r, RtInv(r), r.phase = "done", Ended(r)
    PROVE  verify_log(r.log) = {}
<1>1. CASE ~r.log.finalized
  BY <1>1, DoneVerifies
<1>2. CASE r.log.finalized
  <2>1. /\ r.round_machine.proposal = TheProposal(r) /\ r.log.final_round = Round(r)
        /\ ReceiptLogged(r)
    BY <1>2 DEF Ended
  <2>2. \E i \in DOMAIN r.log.receipts :
            /\ r.log.receipts[i].round = r.log.final_round
            /\ r.log.receipts[i].provider = r.round_machine.proposal.candidate_provider
    BY <2>1 DEF ReceiptLogged, TheReceipt, TheProposal
  <2> QED  BY <1>2, <2>2, DoneVerifies
<1> QED  BY <1>1, <1>2

Agenda(r) == [k \in 0..MaxRounds |-> Chances(r.scenario, k)]
Result(r) == IF r.phase = "done" THEN OutcomeOf(r.log) ELSE None

\* What a round may be finalized with is a provider, and nothing when the
\* round cannot succeed.
LEMMA AgendaFacts ==
    ASSUME NEW r
    PROVE  /\ Agenda(r) \in [0..MaxRounds -> SUBSET Providers]
           /\ Round(r) \in 0..MaxRounds =>
                  Agenda(r)[Round(r)] = IF RoundSucceeds(r.scenario, Round(r)) THEN {Best(r)} ELSE {}
<1>1. ASSUME NEW k \in 0..MaxRounds PROVE Chances(r.scenario, k) \subseteq Providers
  <2> DEFINE S == SpeakingFeasible(r.scenario, k)
  <2>1. S \subseteq Providers /\ S \subseteq Nat
    BY NodeFacts DEF SpeakingFeasible
  <2>2. S # {} => Min(S) \in S
    BY <2>1, MinIsLeast
  <2>3. RoundSucceeds(r.scenario, k) => S # {}
    BY DEF RoundSucceeds
  <2> HIDE DEF S
  <2>4. Chances(r.scenario, k) = IF RoundSucceeds(r.scenario, k) THEN {Min(S)} ELSE {}
    BY DEF Chances, S
  <2> QED  BY <2>1, <2>2, <2>3, <2>4
<1> QED  BY <1>1 DEF Agenda, Chances, Best, Claimants

\* What a step does to round and result, as the abstract protocol sees it.
Stays(r, r2) == Round(r2) = Round(r) /\ Result(r2) = Result(r)
FallsBack(r, r2) ==
    /\ Result(r) = None /\ Result(r2) = None /\ Round(r) < MaxRounds
    /\ Agenda(r)[Round(r)] = {} /\ Round(r2) = Round(r) + 1
Finalizes(r, r2) ==
    /\ Result(r) = None /\ Round(r) < MaxRounds /\ Round(r2) = Round(r)
    /\ \E p \in Providers :
           /\ p \in Agenda(r)[Round(r)]
           /\ Result(r2) = [finalized |-> TRUE, round |-> Round(r), provider |-> p]
Aborts(r, r2) ==
    /\ Result(r) = None /\ Round(r) = MaxRounds /\ Round(r2) = Round(r)
    /\ Result(r2) = [finalized |-> FALSE,
                     round |-> IF MaxRounds = 0 THEN 0 ELSE MaxRounds - 1, provider |-> None]
Refines(r, r2) ==
    /\ Agenda(r2) = Agenda(r)
    /\ Stays(r, r2) \/ FallsBack(r, r2) \/ Finalizes(r, r2) \/ Aborts(r, r2)

\* The end of a phase amounts to a step of the abstract protocol, or to none.
LEMMA EndPhaseRefines ==
    ASSUME NEW r, RtInv(r), Draining(r), NEW r2, r2 = EndPhase(r).rt, Known(r2),
           r2.phase = "done" =>
               /\ Ended(r2) /\ r2.log.finalized /\ r2.round_machine = r.round_machine
               /\ Complete(r) /\ RoundSucceeds(r.scenario, Round(r))
    PROVE  Refines(r, r2)
<1>2. r.phase # "done" /\ Round(r) \in RoundIds /\ Round(r) < MaxRounds /\ Round(r) \in Nat
  BY RuntimeFacts DEF Draining
<1>3. Result(r) = None
  BY <1>2 DEF Result
<1>4. RtInv(r2) /\ r2.scenario = r.scenario
  BY EndPhaseSound DEF Sound, Keeps
<1>5. Agenda(r2) = Agenda(r)
  BY <1>4 DEF Agenda
<1>6. Agenda(r)[Round(r)] = IF RoundSucceeds(r.scenario, Round(r)) THEN {Best(r)} ELSE {}
  BY <1>2, AgendaFacts DEF RoundIds
<1>7. CASE r2.phase = "loop" /\ Round(r2) = Round(r) + 1
  <2>2. ~RoundSucceeds(r.scenario, Round(r))
    BY <1>2, <1>4, <1>7 DEF Known, EarlierRoundsFailed
  <2>3. Result(r2) = None
    BY <1>7 DEF Result
  <2> QED  BY <1>2, <1>3, <1>5, <1>6, <1>7, <2>2, <2>3 DEF Refines, FallsBack
<1>8. CASE r2.phase \in {"proposal", "proof", "receipt"} /\ Round(r2) = Round(r)
  BY <1>3, <1>5, <1>8 DEF Refines, Stays, Result
<1>9. CASE r.phase = "receipt" /\ r2.phase = "done"
  <2>2. Round(r2) = Round(r) /\ Best(r2) = Best(r)
    BY <1>4, <1>9, SameRound
  <2>3. Result(r2) = [finalized |-> TRUE, round |-> Round(r), provider |-> Best(r)]
    BY <1>4, <1>9, <2>2, FinalOutcome DEF Result
  <2>4. Best(r) \in Providers
    BY <1>9, BestFacts DEF Complete
  <2> QED  BY <1>2, <1>3, <1>5, <1>6, <1>9, <2>2, <2>3, <2>4 DEF Refines, Finalizes
<1> QED  BY <1>7, <1>8, <1>9, EndPhaseMoves

\* So does the end of the loop.
LEMMA EndRunRefines ==
    ASSUME NEW r, RtInv(r), Known(r), LoopExhausted(r)
    PROVE  Refines(r, end_run(r))
<1>1. PICK r2 : r2 = end_run(r)
  OBVIOUS
<1>2. /\ Keeps(r, r2) /\ Ended(r2) /\ r2.phase = "done" /\ ~r2.log.finalized
      /\ r2.scenario = r.scenario /\ r2.round_machine = r.round_machine
      /\ Round(r) = MaxRounds /\ r.phase # "done"
  BY <1>1, EndRunKnown DEF Keeps, LoopExhausted
<1>3. Round(r2) = Round(r) /\ Result(r) = None
  BY <1>2 DEF Round, Result
<1>4. Result(r2) = [finalized |-> FALSE,
                    round |-> IF MaxRounds = 0 THEN 0 ELSE MaxRounds - 1, provider |-> None]
  BY <1>2, FinalOutcome DEF Result, Keeps
<1>5. Refines(r, r2)
  BY <1>2, <1>3, <1>4 DEF Refines, Aborts, Agenda
<1> QED  BY <1>1, <1>5

\* A step that leaves round and phase, before the end, amounts to none.
LEMMA SameStageRefines ==
    ASSUME NEW r, NEW r2, r2.scenario = r.scenario, Round(r2) = Round(r),
           r.phase # "done", r2.phase # "done"
    PROVE  Refines(r, r2)
  BY DEF Refines, Stays, Result, Agenda
=============================================================================
