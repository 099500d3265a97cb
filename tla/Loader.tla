------------------------------- MODULE Loader -------------------------------
(***************************************************************************)
(* From the two input files to a first commitment: TopologyConfig::from_raw *)
(* (config.rs, capability.rs), the private-intent loader (private_intents. *)
(* rs) and the preimage checks (commitments.rs).  The entries of a file    *)
(* are read one by one, each any of the given ones; a file that is refused *)
(* ends the program, with an error whose wording is left out.              *)
(***************************************************************************)
EXTENDS Integers, Sequences, FiniteSets, SequencesExt

CONSTANTS
    Ids, Tags,      \* node ids and well-formed capability tags
    LongTags,       \* the tags longer than MAX_CAPABILITY_BYTES
    Keys,           \* key pairs: a secret and its public key have the same name
    Bad,            \* text that does not parse as an id, a tag, a role or a key
    None,           \* a field that is not given
    MaxClaims,      \* MAX_CAPABILITY_CLAIMS
    ClaimLists,     \* the lists of claims that occur
    MaxEntries      \* bound on the entries of a file

ASSUME LoaderAssumption ==
    /\ Ids \subseteq Nat /\ LongTags \subseteq Tags
    /\ Bad \notin Ids \cup Tags \cup Keys
    /\ None \notin Ids \cup Tags \cup Keys \cup {Bad}
    /\ ClaimLists \subseteq Seq(Tags \cup {Bad})
    /\ MaxClaims \in Nat /\ MaxEntries \in Nat

Roles == {"requester", "provider"}
RawNodes == [id : Ids \cup {Bad}, role : Roles, required : Tags \cup {Bad, None},
             claims : ClaimLists \cup {None}, key : Keys \cup {Bad, None}]
RawAgents == [node : Ids \cup {Bad}, role : Roles \cup {Bad}, required : Tags \cup {Bad, None},
              claims : ClaimLists \cup {None}, witness : BOOLEAN, secret : Keys \cup {Bad, None}]

VARIABLES
    phase,              \* nodes, agents, commit, running, refused
    capability_tags,    \* the configured tag set
    nodes,              \* NodeConfigs accepted so far, in file order
    agents,             \* accepted agent entries so far, in file order
    committed           \* the nodes whose agent has built its commitment
vars == <<phase, capability_tags, nodes, agents, committed>>

\* CapabilityTagSet::new: every tag well-formed, at least one
Init == /\ capability_tags \in SUBSET (Tags \cup {Bad})
        /\ phase = IF Bad \in capability_tags \/ capability_tags = {} THEN "refused" ELSE "nodes"
        /\ nodes = <<>> /\ agents = <<>> /\ committed = {}

Refuse == phase' = "refused" /\ UNCHANGED <<capability_tags, nodes, agents, committed>>

WithRole(r) == {i \in DOMAIN nodes : nodes[i].role = r}

-----------------------------------------------------------------------------
(* The topology.                                                           *)

\* CapabilityTagSet::normalize succeeds
normalize(t) == t \in Tags \cap capability_tags

\* Mutants: ids may repeat; a provider's claims are not checked.
node_accepted_again(e) ==
    /\ e.id # Bad
    /\ e.role = "requester" => normalize(e.required) /\ e.claims = None
    /\ e.role = "provider" =>
           /\ e.required = None
           /\ e.claims \notin {None, <<>>}
           /\ \A i \in DOMAIN e.claims : normalize(e.claims[i])
    /\ e.key # Bad
node_accepted_unclaimed(e) ==
    /\ e.id # Bad /\ \A i \in DOMAIN nodes : nodes[i].id # e.id
    /\ e.role = "requester" => normalize(e.required) /\ e.claims = None
    /\ e.role = "provider" => e.required = None /\ e.claims # None
    /\ e.key # Bad

\* One iteration of from_raw's loop returns no error.
node_accepted(e) ==
    /\ e.id # Bad /\ \A i \in DOMAIN nodes : nodes[i].id # e.id
    /\ e.role = "requester" => normalize(e.required) /\ e.claims = None
    /\ e.role = "provider" =>
           /\ e.required = None
           /\ e.claims \notin {None, <<>>}
           /\ \A i \in DOMAIN e.claims : normalize(e.claims[i])
    /\ e.key # Bad

LoadNode(e) ==
    /\ phase = "nodes" /\ Len(nodes) < MaxEntries
    /\ IF node_accepted(e)
       THEN nodes' = Append(nodes, e) /\ UNCHANGED <<phase, capability_tags, agents, committed>>
       ELSE Refuse

\* The end of from_raw: one requester, some provider.
EndNodes ==
    /\ phase = "nodes"
    /\ IF Cardinality(WithRole("requester")) = 1 /\ WithRole("provider") # {}
       THEN phase' = "agents" /\ UNCHANGED <<capability_tags, nodes, agents, committed>>
       ELSE Refuse

-----------------------------------------------------------------------------
(* The private intents.                                                    *)

NodeOf(id) == nodes[CHOOSE i \in DOMAIN nodes : nodes[i].id = id]

\* Mutant: the keys are not compared.
keys_accepted_any(secret, public) == secret # Bad

\* The keys of one node agree as far as both are given.
keys_accepted(secret, public) == secret # Bad /\ (None \in {secret, public} \/ secret = public)

\* One iteration of from_toml_str's loop returns no error.
agent_accepted(a) ==
    /\ \E i \in DOMAIN nodes : nodes[i].id = a.node
    /\ \A i \in DOMAIN agents : agents[i].node # a.node
    /\ LET n == NodeOf(a.node)
       IN  /\ a.role = n.role
           /\ keys_accepted(a.secret, n.key)
           /\ n.role = "requester" => a.required = n.required
           /\ n.role = "provider" => a.claims = n.claims
    /\ a.witness

LoadAgent(a) ==
    /\ phase = "agents" /\ Len(agents) < MaxEntries
    /\ IF agent_accepted(a)
       THEN agents' = Append(agents, a) /\ UNCHANGED <<phase, capability_tags, nodes, committed>>
       ELSE Refuse

\* The end of from_toml_str: every node has its agent.
agents_complete == \A i \in DOMAIN nodes : \E j \in DOMAIN agents : agents[j].node = nodes[i].id

EndAgents ==
    /\ phase = "agents"
    /\ IF agents_complete
       THEN phase' = "commit" /\ UNCHANGED <<capability_tags, nodes, agents, committed>>
       ELSE Refuse

-----------------------------------------------------------------------------
(* The commitments of the first round.                                     *)

\* build_requester_preimage and build_provider_preimage
build_preimage(a) ==
    LET tags == IF a.role = "requester" THEN {a.required} ELSE ToSet(a.claims)
    IN  IF tags = {} \/ ~(tags \subseteq Tags) THEN "InvalidField"
        ELSE IF a.role = "provider" /\ Len(a.claims) > MaxClaims THEN "TooManyClaims"
        ELSE IF tags \cap LongTags # {} THEN "CapabilityTooLong"
        ELSE "ok"

\* The agents commit in the order of their ids (a BTreeMap).
Commit ==
    /\ phase = "commit"
    /\ \E a \in ToSet(agents) :
           /\ a.node \notin committed
           /\ \A b \in ToSet(agents) : b.node < a.node => b.node \in committed
           /\ IF build_preimage(a) = "ok"
              THEN committed' = committed \cup {a.node} /\ UNCHANGED <<phase, capability_tags, nodes, agents>>
              ELSE Refuse

Start == /\ phase = "commit" /\ \A a \in ToSet(agents) : a.node \in committed
         /\ phase' = "running"
         /\ UNCHANGED <<capability_tags, nodes, agents, committed>>

Next == \/ \E e \in RawNodes : LoadNode(e)
        \/ EndNodes
        \/ \E a \in RawAgents : LoadAgent(a)
        \/ EndAgents \/ Commit \/ Start

Spec == Init /\ [][Next]_vars

-----------------------------------------------------------------------------
Loaded == phase \in {"commit", "running"}

\* Whatever the files hold, a loaded topology is what the protocol modules
\* assume of one (Topology): one requester, some provider, distinct ids, and
\* a required tag and non-empty claims of well-formed, configured tags.
TopologyIsSound ==
    Loaded =>
        /\ Cardinality(WithRole("requester")) = 1 /\ WithRole("provider") # {}
        /\ \A i, j \in DOMAIN nodes : nodes[i].id = nodes[j].id => i = j
        /\ \A i \in DOMAIN nodes :
               IF nodes[i].role = "requester" THEN nodes[i].required \in Tags
               ELSE nodes[i].claims # <<>> /\ ToSet(nodes[i].claims) \subseteq Tags

\* The two files tell the same story: each node has exactly one agent, of its
\* role, committed to the very capability the topology announces, and two
\* keys of a node are one pair.
FilesAgree ==
    Loaded =>
        /\ {agents[i].node : i \in DOMAIN agents} = {nodes[i].id : i \in DOMAIN nodes}
        /\ Len(agents) = Len(nodes)
        /\ \A i \in DOMAIN agents :
               LET n == NodeOf(agents[i].node)
               IN  /\ agents[i].role = n.role
                   /\ n.role = "requester" => agents[i].required = n.required
                   /\ n.role = "provider" => agents[i].claims = n.claims
                   /\ {agents[i].secret, n.key} \subseteq Keys => agents[i].secret = n.key

\* What was loaded can be committed to, but for the two size limits, which
\* the loaders do not know: no loaded intent runs into an InvalidField.
OnlySizeStopsCommit ==
    Loaded => \A i \in DOMAIN agents :
        build_preimage(agents[i]) \in {"ok", "TooManyClaims", "CapabilityTooLong"}
=============================================================================
