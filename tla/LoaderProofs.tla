---------------------------- MODULE LoaderProofs ----------------------------
(***************************************************************************)
(* The two loaders, for every pair of input files: any ids, tags, keys and *)
(* claim lists, and any number of entries.                                 *)
(***************************************************************************)
EXTENDS Loader, FiniteSetTheorems, FunctionTheorems, SequenceTheorems, TLAPS

-----------------------------------------------------------------------------
(* The inductive invariant.                                                *)

LoaderType ==
    /\ phase \in {"nodes", "agents", "commit", "running", "refused"}
    /\ nodes \in Seq(RawNodes)
    /\ agents \in Seq(RawAgents)

\* What from_raw has accepted so far: distinct ids, and of each node the tags
\* of its role.
NodesSound ==
    /\ \A i, j \in DOMAIN nodes : nodes[i].id = nodes[j].id => i = j
    /\ \A i \in DOMAIN nodes :
           /\ nodes[i].role = "requester" => nodes[i].required \in Tags
           /\ nodes[i].role = "provider" =>
                  /\ nodes[i].claims \in Seq(Tags \cup {Bad}) /\ nodes[i].claims # <<>>
                  /\ \A k \in DOMAIN nodes[i].claims : nodes[i].claims[k] \in Tags

\* Agent i is the agent of node j, and tells the same of it.
Matches(i, j) ==
    /\ nodes[j].id = agents[i].node
    /\ agents[i].role = nodes[j].role
    /\ nodes[j].role = "requester" => agents[i].required = nodes[j].required
    /\ nodes[j].role = "provider" => agents[i].claims = nodes[j].claims
    /\ {agents[i].secret, nodes[j].key} \subseteq Keys => agents[i].secret = nodes[j].key

\* What from_toml_str has accepted so far: distinct nodes, each configured.
AgentsMatch ==
    /\ \A i, j \in DOMAIN agents : agents[i].node = agents[j].node => i = j
    /\ \A i \in DOMAIN agents : \E j \in DOMAIN nodes : Matches(i, j)

\* What the ends of the two loops have checked still holds later.
EndsChecked ==
    /\ phase = "nodes" => agents = <<>>
    /\ phase \in {"agents", "commit", "running"} =>
           Cardinality(WithRole("requester")) = 1 /\ WithRole("provider") # {}
    /\ Loaded => agents_complete

LoaderInv == LoaderType /\ NodesSound /\ AgentsMatch /\ EndsChecked

\* Nothing has been read yet.
LEMMA InitLoader == Init => LoaderInv
<1> SUFFICES ASSUME Init PROVE LoaderInv
  OBVIOUS
<1> USE DEF Init
<1>1. LoaderType
  BY DEF LoaderType
<1>2. NodesSound /\ AgentsMatch
  BY DEF NodesSound, AgentsMatch
<1>3. EndsChecked
  BY DEF EndsChecked, Loaded
<1> QED  BY <1>1, <1>2, <1>3 DEF LoaderInv

-----------------------------------------------------------------------------
(* The topology.                                                           *)

\* An accepted node has an id of its own and the well-formed tags of its role.
LEMMA NodeAccepted ==
    ASSUME NEW e \in RawNodes, node_accepted(e)
    PROVE  /\ \A i \in DOMAIN nodes : nodes[i].id # e.id
           /\ e.role = "requester" => e.required \in Tags
           /\ e.role = "provider" =>
                  /\ e.claims \in Seq(Tags \cup {Bad}) /\ e.claims # <<>>
                  /\ \A k \in DOMAIN e.claims : e.claims[k] \in Tags
  BY LoaderAssumption DEF LoaderAssumption, node_accepted, normalize, RawNodes

\* Reading one more node keeps the invariant.
LEMMA LoadNodeInv ==
    ASSUME LoaderInv, NEW e \in RawNodes, LoadNode(e) PROVE LoaderInv'
<1>1. CASE Refuse
  BY <1>1 DEF Refuse, LoaderInv, LoaderType, NodesSound, AgentsMatch, Matches,
              EndsChecked, Loaded
<1>2. CASE node_accepted(e)
  <2>1. /\ phase = "nodes" /\ agents = <<>>
        /\ nodes' = Append(nodes, e)
        /\ UNCHANGED <<phase, agents>>
    BY <1>2 DEF LoadNode, LoaderInv, EndsChecked
  <2>2. nodes \in Seq(RawNodes)
    BY DEF LoaderInv, LoaderType
  <2>3. /\ nodes' \in Seq(RawNodes)
        /\ DOMAIN nodes' = DOMAIN nodes \cup {Len(nodes) + 1}
        /\ \A i \in DOMAIN nodes : nodes'[i] = nodes[i]
        /\ nodes'[Len(nodes) + 1] = e
        /\ Len(nodes) + 1 \notin DOMAIN nodes
    BY <2>1, <2>2
  <2>4. LoaderType'
    BY <2>1, <2>3 DEF LoaderInv, LoaderType
  <2>5. NodesSound'
    <3>1. \A i, j \in DOMAIN nodes' : nodes'[i].id = nodes'[j].id => i = j
      BY <1>2, <2>3, NodeAccepted DEF LoaderInv, NodesSound
    <3>2. ASSUME NEW i \in DOMAIN nodes'
          PROVE  /\ nodes'[i].role = "requester" => nodes'[i].required \in Tags
                 /\ nodes'[i].role = "provider" =>
                        /\ nodes'[i].claims \in Seq(Tags \cup {Bad}) /\ nodes'[i].claims # <<>>
                        /\ \A k \in DOMAIN nodes'[i].claims : nodes'[i].claims[k] \in Tags
      BY <1>2, <2>3, NodeAccepted DEF LoaderInv, NodesSound
    <3> QED  BY <3>1, <3>2 DEF NodesSound
  <2>6. AgentsMatch' /\ EndsChecked'
    BY <2>1 DEF AgentsMatch, EndsChecked, Loaded
  <2> QED  BY <2>4, <2>5, <2>6 DEF LoaderInv
<1> QED  BY <1>1, <1>2 DEF LoadNode

\* The end of the node list keeps the invariant.
LEMMA EndNodesInv ==
    ASSUME LoaderInv, EndNodes PROVE LoaderInv'
<1>1. UNCHANGED <<nodes, agents>> /\ phase' \in {"agents", "refused"}
  BY DEF EndNodes, Refuse
<1>2. phase' = "agents" => Cardinality(WithRole("requester")) = 1 /\ WithRole("provider") # {}
  BY DEF EndNodes, Refuse
<1>3. LoaderType' /\ NodesSound' /\ AgentsMatch'
  BY <1>1 DEF LoaderInv, LoaderType, NodesSound, AgentsMatch, Matches
<1>4. EndsChecked'
  BY <1>1, <1>2 DEF EndsChecked, Loaded, WithRole
<1> QED  BY <1>3, <1>4 DEF LoaderInv

-----------------------------------------------------------------------------
(* The private intents.                                                    *)

\* The node an id stands for, when ids are distinct.
LEMMA NodeOfIs ==
    ASSUME NodesSound, NEW i \in DOMAIN nodes PROVE NodeOf(nodes[i].id) = nodes[i]
  BY DEF NodesSound, NodeOf

\* Reading one more agent keeps the invariant.
LEMMA LoadAgentInv ==
    ASSUME LoaderInv, NEW a \in RawAgents, LoadAgent(a) PROVE LoaderInv'
<1>1. CASE Refuse
  BY <1>1 DEF Refuse, LoaderInv, LoaderType, NodesSound, AgentsMatch, Matches,
              EndsChecked, Loaded
<1>2. CASE agent_accepted(a)
  <2>1. /\ phase = "agents"
        /\ agents' = Append(agents, a)
        /\ UNCHANGED <<phase, nodes>>
    BY <1>2 DEF LoadAgent
  <2>2. agents \in Seq(RawAgents)
    BY DEF LoaderInv, LoaderType
  <2>3. /\ agents' \in Seq(RawAgents)
        /\ DOMAIN agents' = DOMAIN agents \cup {Len(agents) + 1}
        /\ \A i \in DOMAIN agents : agents'[i] = agents[i]
        /\ agents'[Len(agents) + 1] = a
        /\ Len(agents) + 1 \notin DOMAIN agents
    BY <2>1, <2>2
  <2>4. LoaderType' /\ NodesSound'
    BY <2>1, <2>3 DEF LoaderInv, LoaderType, NodesSound
  <2>5. AgentsMatch'
    <3>1. \A i, j \in DOMAIN agents' : agents'[i].node = agents'[j].node => i = j
      BY <1>2, <2>3 DEF agent_accepted, LoaderInv, AgentsMatch
    <3>2. PICK j \in DOMAIN nodes : nodes[j].id = a.node
      BY <1>2 DEF agent_accepted
    <3>3. NodeOf(a.node) = nodes[j]
      BY <3>2, NodeOfIs DEF LoaderInv
    <3>4. PICK l : l = Len(agents) + 1
      OBVIOUS
    <3>5. Matches(l, j)'
      BY <1>2, <2>1, <2>3, <3>2, <3>3, <3>4, LoaderAssumption
      DEF agent_accepted, keys_accepted, Matches, LoaderAssumption
    <3>6. ASSUME NEW i \in DOMAIN agents PROVE \E k \in DOMAIN nodes' : Matches(i, k)'
      BY <2>1, <2>3 DEF LoaderInv, AgentsMatch, Matches
    <3> QED  BY <2>1, <2>3, <3>1, <3>4, <3>5, <3>6 DEF AgentsMatch
  <2>6. EndsChecked'
    BY <2>1 DEF LoaderInv, EndsChecked, Loaded, WithRole
  <2> QED  BY <2>4, <2>5, <2>6 DEF LoaderInv
<1> QED  BY <1>1, <1>2 DEF LoadAgent

\* The end of the agent list keeps the invariant, and so do the commitments,
\* which read the agents and change only what has been committed.
LEMMA RestInv ==
    ASSUME LoaderInv, EndAgents \/ Commit \/ Start \/ UNCHANGED vars PROVE LoaderInv'
<1>1. UNCHANGED <<nodes, agents>>
  BY DEF EndAgents, Commit, Start, Refuse, vars
<1>2. /\ phase' \in {"commit", "running", "refused", phase}
      /\ Loaded' => Loaded \/ agents_complete
      /\ phase' \in {"agents", "commit", "running"} => phase \in {"agents", "commit", "running"}
      /\ phase' = "nodes" => phase = "nodes"
  BY DEF EndAgents, Commit, Start, Refuse, vars, Loaded
<1>3. LoaderType' /\ NodesSound' /\ AgentsMatch'
  BY <1>1, <1>2 DEF LoaderInv, LoaderType, NodesSound, AgentsMatch, Matches
<1>4. EndsChecked'
  BY <1>1, <1>2 DEF LoaderInv, EndsChecked, WithRole, agents_complete
<1> QED  BY <1>3, <1>4 DEF LoaderInv

\* Every reachable state satisfies the invariant.
LEMMA LoaderInvariant == Spec => []LoaderInv
<1>1. LoaderInv /\ [Next]_vars => LoaderInv'
  BY LoadNodeInv, EndNodesInv, LoadAgentInv, RestInv DEF Next
<1> QED  BY InitLoader, <1>1, PTL DEF Spec

-----------------------------------------------------------------------------
(* The theorems.                                                           *)

\* Whatever TopologyConfig::from_raw lets through is a topology as the protocol
\* modules assume it, for every pair of files.
THEOREM LoadedTopologyIsSound == Spec => []TopologyIsSound
<1>1. ASSUME LoaderInv, Loaded, NEW i \in DOMAIN nodes
      PROVE  IF nodes[i].role = "requester" THEN nodes[i].required \in Tags
             ELSE nodes[i].claims # <<>> /\ ToSet(nodes[i].claims) \subseteq Tags
  <2>1. nodes[i] \in RawNodes
    BY <1>1 DEF LoaderInv, LoaderType
  <2>2. nodes[i].role \in {"requester", "provider"}
    BY <2>1 DEF RawNodes, Roles
  <2> QED  BY <1>1, <2>2 DEF LoaderInv, NodesSound, ToSet
<1>2. LoaderInv => TopologyIsSound
  BY <1>1 DEF TopologyIsSound, LoaderInv, NodesSound, EndsChecked, Loaded
<1> QED  BY <1>2, LoaderInvariant, PTL

\* Two sequences of distinct entries that name the same ids are equally long:
\* the agents as the loader leaves them and the nodes.
LEMMA OneAgentEach ==
    ASSUME LoaderInv, Loaded PROVE Len(agents) = Len(nodes)
<1> DEFINE A == 1..Len(agents)
           B == 1..Len(nodes)
           f == [i \in A |-> CHOOSE j \in B : nodes[j].id = agents[i].node]
<1>1. DOMAIN agents = A /\ DOMAIN nodes = B /\ Len(agents) \in Nat /\ Len(nodes) \in Nat
  BY DEF LoaderInv, LoaderType
<1>2. \A i \in A : \E j \in B : nodes[j].id = agents[i].node
  BY <1>1 DEF LoaderInv, AgentsMatch, Matches
<1>3. \A i \in A : f[i] \in B /\ nodes[f[i]].id = agents[i].node
  BY <1>2
<1>4. f \in [A -> B]
  BY <1>3
<1>5. \A i, j \in A : f[i] = f[j] => i = j
  BY <1>1, <1>3 DEF LoaderInv, AgentsMatch
<1>6. \A j \in B : \E i \in A : f[i] = j
  BY <1>1, <1>3 DEF LoaderInv, NodesSound, EndsChecked, agents_complete
<1> HIDE DEF f
<1>7. f \in Bijection(A, B)
  BY <1>4, <1>5, <1>6, Fun_IsBij
<1>8. \A n \in Nat : IsFiniteSet(1..n) /\ Cardinality(1..n) = n
  <2>1. \A n \in Nat : IsFiniteSet(1..n) /\ Cardinality(1..n) = IF 1 > n THEN 0 ELSE n - 1 + 1
    BY FS_Interval
  <2> QED  BY <2>1
<1>9. /\ IsFiniteSet(A) /\ Cardinality(A) = Len(agents)
      /\ Cardinality(B) = Len(nodes)
  BY <1>1, <1>8
<1> HIDE DEF A, B
<1>10. ExistsBijection(A, B)
  BY <1>7 DEF ExistsBijection
<1> QED  BY <1>9, <1>10, FS_Bijection

\* The private intents and the topology agree, node by node, when loading
\* succeeds.
THEOREM LoadedFilesAgree == Spec => []FilesAgree
<1>1. ASSUME LoaderInv, Loaded
      PROVE  {agents[i].node : i \in DOMAIN agents} = {nodes[i].id : i \in DOMAIN nodes}
  BY <1>1 DEF LoaderInv, AgentsMatch, Matches, EndsChecked, agents_complete
<1>2. ASSUME LoaderInv, NEW i \in DOMAIN agents
      PROVE  LET n == NodeOf(agents[i].node)
             IN  /\ agents[i].role = n.role
                 /\ n.role = "requester" => agents[i].required = n.required
                 /\ n.role = "provider" => agents[i].claims = n.claims
                 /\ {agents[i].secret, n.key} \subseteq Keys => agents[i].secret = n.key
  <2>1. PICK j \in DOMAIN nodes : Matches(i, j)
    BY <1>2 DEF LoaderInv, AgentsMatch
  <2>2. NodeOf(agents[i].node) = nodes[j]
    BY <1>2, <2>1, NodeOfIs DEF LoaderInv, Matches
  <2> QED  BY <2>1, <2>2 DEF Matches
<1>3. LoaderInv => FilesAgree
  BY <1>1, <1>2, OneAgentEach DEF FilesAgree
<1> QED  BY <1>3, LoaderInvariant, PTL

\* The preimage builders' InvalidField is unreachable from loaded files: only
\* their two size limits can stop a commitment.
THEOREM LoadedIsCommittable == Spec => []OnlySizeStopsCommit
<1>1. ASSUME LoaderInv, NEW i \in DOMAIN agents
      PROVE  build_preimage(agents[i]) \in {"ok", "TooManyClaims", "CapabilityTooLong"}
  <2>1. PICK j \in DOMAIN nodes : Matches(i, j)
    BY <1>1 DEF LoaderInv, AgentsMatch
  <2> DEFINE a == agents[i]
             tags == IF a.role = "requester" THEN {a.required} ELSE ToSet(a.claims)
  <2>2. tags # {} /\ tags \subseteq Tags
    <3>1. CASE nodes[j].role = "requester"
      BY <1>1, <2>1, <3>1 DEF LoaderInv, NodesSound, Matches
    <3>2. CASE nodes[j].role = "provider"
      <4>1. /\ a.role = "provider" /\ a.claims = nodes[j].claims
            /\ a.claims \in Seq(Tags \cup {Bad}) /\ a.claims # <<>>
            /\ \A k \in DOMAIN a.claims : a.claims[k] \in Tags
        BY <1>1, <2>1, <3>2 DEF LoaderInv, NodesSound, Matches
      <4>2. 1 \in DOMAIN a.claims
        BY <4>1
      <4> QED  BY <4>1, <4>2 DEF ToSet
    <3>3. nodes[j].role \in {"requester", "provider"}
      <4>1. nodes[j] \in RawNodes
        BY <1>1 DEF LoaderInv, LoaderType
      <4> QED  BY <4>1 DEF RawNodes, Roles
    <3> QED  BY <3>1, <3>2, <3>3
  <2> QED  BY <2>2 DEF build_preimage
<1>2. LoaderInv => OnlySizeStopsCommit
  BY <1>1 DEF OnlySizeStopsCommit
<1> QED  BY <1>2, LoaderInvariant, PTL
=============================================================================
