--------------------------- MODULE ScenarioProofs ---------------------------
(***************************************************************************)
(* Theorems about ScenarioFlow for every repository of scenario files and  *)
(* every set of clone profiles.                                            *)
(*                                                                         *)
(* Each stage keeps what the next one needs of the scenario.  The          *)
(* invariant writes it down: what was validated, the rows as a function of *)
(* the files, the VMs as a function of the rows, their configs as those    *)
(* of the profiles that were loaded, and vars.yaml as a function of both.  *)
(***************************************************************************)
EXTENDS ScenarioFlow, SequenceTheorems, WellFoundedInduction, TLAPS

Scenario == files.scenario

\* The rows hold the scenario that was accepted, all of it.
Stored ==
    /\ Parsed
    /\ rows.topology = [i \in DOMAIN Scenario.clusters |-> Decoded(Scenario.clusters[i])]
    /\ rows.tasks = Ids(Scenario.tasks)
    /\ rows.checks = Ids(files.checks)

Wanted == [c \in DOMAIN rows.topology |-> ClusterRequest(rows.topology[c])]

\* What each VM was configured with.
Configs ==
    [p \in Places(request) |-> Render(profiles[Requested(p).template].value, Requested(p))]
Profiled == \A p \in Places(request) : Requested(p).template \in DOMAIN profiles

\* What the provider returned, and what Ansible is told.
Answer ==
    [c \in DOMAIN request |->
        [name |-> request[c].name,
         nodes |-> [n \in DOMAIN request[c].nodes |->
            [hostname |-> request[c].nodes[n].hostname, ip |-> <<c, n>>]]]]
Told ==
    [i \in DOMAIN result |->
        [name |-> result[i].name, context |-> rows.topology[i].context,
         nodes |-> NodeSpecs(result[i])]]

FlowInv ==
    /\ stage \in Stages \ {"half"}
    /\ files \in Repository /\ profiles \in ProfilesFor(files)
    /\ LoadCloneProfiles(profiles)
    /\ stage \notin {"repository", "rejected"} => Stored
    /\ IF stage \in {"requested", "refused", "built", "configured"}
         THEN request = Wanted
         ELSE request = <<>>
    /\ IF stage \in {"built", "configured"} THEN Profiled /\ sent = Configs ELSE sent = <<>>
    /\ stage \in {"built", "configured"} => result = Answer
    /\ stage = "configured" => playbook = Told

-----------------------------------------------------------------------------
(* The invariant                                                           *)

\* Validation looks each check's task up among the tasks.
LEMMA NoCheckMissed ==
    ASSUME Parsed
    PROVE  \A i \in DOMAIN files.checks : files.checks[i].task \in Ids(Scenario.tasks)
BY DEF Parsed, ValidateChecks, ValidCheck, Scenario

LEMMA InitFlowInv == Init => FlowInv
BY DEF Init, FlowInv, Stages

LEMMA ImportKeeps ==
    ASSUME FlowInv, Import
    PROVE  FlowInv'
<1>1. stage = "repository" /\ request = <<>>
      /\ UNCHANGED <<files, profiles, request, sent, result, playbook>>
  BY DEF Import, FlowInv
<1>2. CASE ~Parsed
  <2>1. stage' = "rejected"
    BY <1>2 DEF Import
  <2>2. QED
    BY <1>1, <2>1 DEF FlowInv, Stages
<1>3. CASE Parsed
  <2>1. {i \in DOMAIN files.checks : files.checks[i].task \notin Ids(Scenario.tasks)} = {}
    BY <1>3, NoCheckMissed
  <2>2. /\ stage' = "stored"
        /\ rows'.topology =
                [i \in DOMAIN Scenario.clusters |-> Decoded(Scenario.clusters[i])]
        /\ rows'.tasks = Ids(Scenario.tasks)
        /\ rows'.checks = {files.checks[i].id : i \in
                {j \in DOMAIN files.checks : \A k \in {} : j < k}}
    BY <1>3, <2>1 DEF Import, Scenario
  <2>3. rows'.checks = Ids(files.checks)
    BY <2>2 DEF Ids
  <2>4. Parsed' /\ Scenario' = Scenario
    BY <1>1, <1>3 DEF Parsed, Scenario
  <2>5. Stored'
    BY <1>1, <2>2, <2>3, <2>4 DEF Stored
  <2>6. QED
    BY <1>1, <2>2, <2>5 DEF FlowInv, Stages
<1>4. QED
  BY <1>2, <1>3

\* What the rows hold is not touched again.
LEMMA StoredKept ==
    ASSUME Stored, UNCHANGED <<files, rows>>
    PROVE  Stored'
BY DEF Stored, Parsed, Scenario

\* Nor are the files and the profiles.
LEMMA ProfilesKept ==
    ASSUME FlowInv, UNCHANGED <<files, profiles>>
    PROVE  /\ files' \in Repository /\ profiles' \in ProfilesFor(files')
           /\ LoadCloneProfiles(profiles')
<1>1. files' = files /\ profiles' = profiles
  OBVIOUS
<1>2. files \in Repository /\ profiles \in ProfilesFor(files) /\ LoadCloneProfiles(profiles)
  BY DEF FlowInv
<1>3. QED
  BY <1>1, <1>2

\* What follows from the rows, the request and the result stays with them.
LEMMA WantedKept ==
    ASSUME UNCHANGED rows
    PROVE  Wanted' = Wanted
BY DEF Wanted

LEMMA AnswerKept ==
    ASSUME UNCHANGED request
    PROVE  Answer' = Answer
BY DEF Answer

LEMMA ToldKept ==
    ASSUME UNCHANGED <<rows, result>>
    PROVE  Told' = Told
BY DEF Told

LEMMA ConfigsKept ==
    ASSUME UNCHANGED <<profiles, request>>
    PROVE  Configs' = Configs /\ Profiled' = Profiled
<1>1. \A p : Requested(p)' = Requested(p)
  BY DEF Requested
<1>2. Places(request') = Places(request)
  OBVIOUS
<1>3. Profiled' = Profiled
  BY <1>1, <1>2 DEF Profiled
<1>4. Configs' = Configs
  BY <1>1, <1>2 DEF Configs
<1>5. QED
  BY <1>3, <1>4

LEMMA NextFlowInv ==
    ASSUME FlowInv, [Next]_vars
    PROVE  FlowInv'
<1>1. CASE Import
  BY <1>1, ImportKeeps
<1>2. CASE Request
  <2>1. stage = "stored" /\ stage' = "requested"
        /\ UNCHANGED <<files, profiles, rows, sent>> /\ request' = Wanted
    BY <1>2 DEF Request, Wanted
  <2>2. Stored' /\ Wanted' = Wanted /\ sent' = <<>>
    BY <2>1, StoredKept, WantedKept DEF FlowInv
  <2>3. QED
    BY <2>1, <2>2, ProfilesKept DEF FlowInv, Stages
<1>3. CASE CreateEnvironment
  <2>1. stage = "requested" /\ UNCHANGED <<files, profiles, rows, request>>
    BY <1>3 DEF CreateEnvironment
  <2>2. /\ Stored' /\ Wanted' = Wanted /\ request = Wanted /\ sent = <<>>
        /\ Answer' = Answer /\ Configs' = Configs /\ Profiled' = Profiled
    BY <2>1, StoredKept, WantedKept, AnswerKept, ConfigsKept DEF FlowInv
  <2>3. CASE stage' = "refused" /\ UNCHANGED sent
    BY <2>1, <2>2, <2>3, ProfilesKept DEF FlowInv, Stages
  <2>4. CASE stage' = "built" /\ Profiled /\ sent' = Configs /\ result' = Answer
    BY <2>1, <2>2, <2>4, ProfilesKept DEF FlowInv, Stages
  <2>5. QED
    BY <1>3, <2>3, <2>4 DEF CreateEnvironment, Profiled, Configs, Answer
<1>4. CASE Provision
  <2>1. /\ stage = "built" /\ stage' = "configured"
        /\ UNCHANGED <<files, profiles, rows, request, sent, result>>
        /\ playbook' = Told
    BY <1>4 DEF Provision, Told
  <2>2. /\ Stored' /\ Wanted' = Wanted /\ Answer' = Answer /\ Told' = Told
        /\ Configs' = Configs /\ Profiled' = Profiled
    BY <2>1, StoredKept, WantedKept, AnswerKept, ToldKept, ConfigsKept DEF FlowInv
  <2>3. QED
    BY <2>1, <2>2, ProfilesKept DEF FlowInv, Stages
<1>5. CASE UNCHANGED vars
  <2>1. UNCHANGED <<stage, files, profiles, rows, request, sent, result, playbook>>
    BY <1>5 DEF vars
  <2>2. /\ Stored => Stored'
        /\ Wanted' = Wanted /\ Answer' = Answer /\ Told' = Told
        /\ Configs' = Configs /\ Profiled' = Profiled
    BY <2>1, StoredKept, WantedKept, AnswerKept, ToldKept, ConfigsKept
  <2>3. QED
    BY <2>1, <2>2, ProfilesKept DEF FlowInv
<1>6. QED
  BY <1>1, <1>2, <1>3, <1>4, <1>5 DEF Next

LEMMA AlwaysFlowInv == Spec => []FlowInv
BY InitFlowInv, NextFlowInv, PTL DEF Spec

-----------------------------------------------------------------------------
(* The rows                                                                *)

\* An accepted scenario is imported whole: the importer never stops at a check
\* whose task it has not written, so the version row that makes later imports
\* skip the scenario never stands for half of it.
THEOREM AcceptedImportedWhole == Spec => []AcceptedIsImported
<1>1. FlowInv => AcceptedIsImported
  BY DEF FlowInv, Stored, AcceptedIsImported, Scenario, Stages
<1>2. QED
  BY <1>1, AlwaysFlowInv, PTL

-----------------------------------------------------------------------------
(* The topology                                                            *)

LEMMA ElementOf ==
    ASSUME NEW S, NEW s \in Seq(S), NEW i \in DOMAIN s
    PROVE  s[i] \in S /\ i \in 1..Len(s)
OBVIOUS

\* The decoder loses a context, and no id and no node.
LEMMA TopologyOfFiles ==
    ASSUME FlowInv, Stored
    PROVE  /\ Scenario.clusters \in ClusterRows
           /\ DOMAIN rows.topology = DOMAIN Scenario.clusters
           /\ \A c \in DOMAIN Scenario.clusters :
                /\ rows.topology[c].id = Scenario.clusters[c].id
                /\ rows.topology[c].nodes = Scenario.clusters[c].nodes
<1>1. Scenario.clusters \in ClusterRows
  BY RepositoryAssumption DEF FlowInv, IsScenario, Scenario
<1>2. ASSUME NEW c \in DOMAIN Scenario.clusters
      PROVE  /\ rows.topology[c].id = Scenario.clusters[c].id
             /\ rows.topology[c].nodes = Scenario.clusters[c].nodes
  <2>1. Scenario.clusters[c] \in [id : Name, context : Name, nodes : NodeRows]
    BY <1>1, ElementOf DEF ClusterRows
  <2>2. PICK d : d = Scenario.clusters[c]
    OBVIOUS
  <2>3. rows.topology[c] = [d EXCEPT !.context = Empty]
    BY <2>2 DEF Stored, Decoded
  <2>4. QED
    BY <2>1, <2>2, <2>3
<1>3. QED
  BY <1>1, <1>2 DEF Stored

\* The VMs of a request: those of the nodes, and the workstation.
LEMMA WantedNode ==
    ASSUME FlowInv, Stored, request = Wanted, NEW c \in DOMAIN Scenario.clusters
    PROVE  /\ c \in DOMAIN request
           /\ request[c].name = Scenario.clusters[c].id
           /\ DOMAIN request[c].nodes = DOMAIN Scenario.clusters[c].nodes
           /\ \A n \in DOMAIN Scenario.clusters[c].nodes :
                /\ request[c].nodes[n].hostname =
                        Hostname(Scenario.clusters[c], Scenario.clusters[c].nodes[n])
                /\ request[c].nodes[n].key = <<"sshkey">>
<1>1. request[c] = ClusterRequest(rows.topology[c]) /\ c \in DOMAIN request
  BY TopologyOfFiles DEF Wanted
<1>2. PICK x : x = rows.topology[c]
  OBVIOUS
<1>3. /\ request[c].name = x.id
      /\ request[c].nodes = [n \in DOMAIN x.nodes |-> NodeRequest(x, n)]
  BY <1>1, <1>2 DEF ClusterRequest
<1>4. x.id = Scenario.clusters[c].id /\ x.nodes = Scenario.clusters[c].nodes
  BY <1>2, TopologyOfFiles
<1>5. ASSUME NEW n \in DOMAIN x.nodes
      PROVE  /\ request[c].nodes[n].hostname =
                    Hostname(Scenario.clusters[c], Scenario.clusters[c].nodes[n])
             /\ request[c].nodes[n].key = <<"sshkey">>
  <2>1. request[c].nodes[n] = NodeRequest(x, n)
    BY <1>3
  <2>2. /\ NodeRequest(x, n).hostname = Hostname(x, x.nodes[n])
        /\ NodeRequest(x, n).key = <<"sshkey">>
    BY DEF NodeRequest
  <2>3. QED
    BY <1>4, <2>1, <2>2 DEF Hostname
<1>6. QED
  BY <1>1, <1>3, <1>4, <1>5

LEMMA PlaceOfNode ==
    ASSUME FlowInv, Stored, request = Wanted, NEW p \in Places(request) \ {Desk}
    PROVE  \E c \in DOMAIN Scenario.clusters :
             \E n \in DOMAIN Scenario.clusters[c].nodes :
                p = <<c, n>> /\ Requested(p) = request[c].nodes[n]
<1>1. PICK c \in DOMAIN request : \E n \in DOMAIN request[c].nodes : p = <<c, n>>
  BY DEF Places
<1>2. PICK n \in DOMAIN request[c].nodes : p = <<c, n>>
  BY <1>1
<1>3. c \in DOMAIN Scenario.clusters
  BY TopologyOfFiles DEF Wanted
<1>4. QED
  BY <1>2, <1>3, WantedNode DEF Requested

\* Ansible's vars.yaml tells of every node of the scenario where it is: the
\* hostname that validation found good and the address of the very VM that was
\* cloned for it, whatever the scenario's shape.
THEOREM NodesReachAnsible == Spec => []EveryNodeConfigured
<1>1. ASSUME FlowInv, stage = "configured",
             NEW c \in DOMAIN Scenario.clusters
      PROVE  /\ c \in DOMAIN playbook
             /\ playbook[c].name = Scenario.clusters[c].id
             /\ DOMAIN playbook[c].nodes = DOMAIN Scenario.clusters[c].nodes
             /\ \A n \in DOMAIN Scenario.clusters[c].nodes :
                  /\ playbook[c].nodes[n].hostname =
                        Hostname(Scenario.clusters[c], Scenario.clusters[c].nodes[n])
                  /\ playbook[c].nodes[n].ip = <<c, n>>
  <2>1. Stored
    BY <1>1 DEF FlowInv
  <2>2. request = Wanted /\ result = Answer /\ playbook = Told
    BY <1>1 DEF FlowInv
  <2>3. PICK back : back = result[c]
    OBVIOUS
  <2>4. /\ c \in DOMAIN result /\ back.name = request[c].name
        /\ back.nodes = [n \in DOMAIN request[c].nodes |->
                            [hostname |-> request[c].nodes[n].hostname, ip |-> <<c, n>>]]
    BY <1>1, <2>1, <2>2, <2>3, WantedNode DEF Answer
  <2>5. /\ c \in DOMAIN playbook
        /\ playbook[c].name = back.name /\ playbook[c].nodes = NodeSpecs(back)
    BY <2>2, <2>3, <2>4 DEF Told
  <2>6. DOMAIN playbook[c].nodes = DOMAIN request[c].nodes
    BY <2>4, <2>5 DEF NodeSpecs
  <2>7. ASSUME NEW n \in DOMAIN request[c].nodes
        PROVE  /\ playbook[c].nodes[n].hostname = request[c].nodes[n].hostname
               /\ playbook[c].nodes[n].ip = <<c, n>>
    <3>1. PICK vms : vms = back.nodes
      OBVIOUS
    <3>2. n \in DOMAIN vms
      BY <2>4, <3>1
    <3>3. playbook[c].nodes = [m \in DOMAIN vms |->
                [hostname |-> vms[m].hostname, ip |-> vms[m].ip, role |-> ""]]
      BY <2>5, <3>1 DEF NodeSpecs
    <3>4. PICK row : row = playbook[c].nodes[n]
      OBVIOUS
    <3>5. PICK vm : vm = vms[n]
      OBVIOUS
    <3>6. row = [hostname |-> vm.hostname, ip |-> vm.ip, role |-> ""]
      BY <3>2, <3>3, <3>4, <3>5
    <3>7. vm = [hostname |-> request[c].nodes[n].hostname, ip |-> <<c, n>>]
      BY <2>4, <3>1, <3>5
    <3>8. row.hostname = vm.hostname /\ row.ip = vm.ip
      BY <3>6
    <3>9. QED
      BY <3>4, <3>7, <3>8
  <2>8. QED
    BY <1>1, <2>1, <2>2, <2>4, <2>5, <2>6, <2>7, WantedNode
<1>2. FlowInv => EveryNodeConfigured
  BY <1>1 DEF EveryNodeConfigured, Scenario
<1>3. QED
  BY <1>2, AlwaysFlowInv, PTL

-----------------------------------------------------------------------------
(* Hostnames                                                               *)

\* Two words with a letter between them.
Join(a, x, b) == a \o <<x>> \o b

\* s is a, then x, then b.
Reads(s, a, x, b) ==
    /\ Len(s) = Len(a) + 1 + Len(b)
    /\ \A i \in 1..Len(a) : s[i] = a[i]
    /\ s[Len(a) + 1] = x
    /\ \A i \in 1..Len(b) : s[Len(a) + 1 + i] = b[i]

LEMMA Joined ==
    ASSUME NEW S, NEW x, NEW a \in Seq(S), NEW b \in Seq(S)
    PROVE  Reads(Join(a, x, b), a, x, b)
<1>1. PICK h : h = a \o <<x>>
  OBVIOUS
<1>2. a \in Seq(S \cup {x}) /\ b \in Seq(S \cup {x}) /\ <<x>> \in Seq(S \cup {x})
  OBVIOUS
<1>3. /\ h \in Seq(S \cup {x}) /\ Len(h) = Len(a) + 1
      /\ h[Len(a) + 1] = x /\ \A i \in 1..Len(a) : h[i] = a[i]
  BY <1>1, <1>2
<1>4. /\ Len(h \o b) = Len(h) + Len(b)
      /\ \A i \in 1..Len(h) : (h \o b)[i] = h[i]
      /\ \A i \in 1..Len(b) : (h \o b)[Len(h) + i] = b[i]
  BY <1>2, <1>3
<1>5. QED
  BY <1>1, <1>3, <1>4 DEF Join, Reads

\* Where the first words have one length, they are the same, and so are the second.
LEMMA SameLength ==
    ASSUME NEW S, NEW x, NEW a \in Seq(S), NEW b \in Seq(S),
           NEW c \in Seq(S), NEW d \in Seq(S),
           Join(a, x, b) = Join(c, x, d), Len(a) = Len(c)
    PROVE  a = c /\ b = d
<1>1. PICK s : s = Join(a, x, b) /\ s = Join(c, x, d)
  OBVIOUS
<1>2. /\ Len(s) = Len(a) + 1 + Len(b)
      /\ \A i \in 1..Len(a) : s[i] = a[i]
      /\ s[Len(a) + 1] = x
      /\ \A i \in 1..Len(b) : s[Len(a) + 1 + i] = b[i]
  <2>1. Reads(s, a, x, b)
    BY <1>1, Joined
  <2>2. QED
    BY <2>1 DEF Reads
<1>3. /\ Len(s) = Len(c) + 1 + Len(d)
      /\ \A i \in 1..Len(c) : s[i] = c[i]
      /\ \A i \in 1..Len(d) : s[Len(c) + 1 + i] = d[i]
  <2>1. Reads(s, c, x, d)
    BY <1>1, Joined
  <2>2. QED
    BY <2>1 DEF Reads
<1>4. Len(b) = Len(d)
  BY <1>2, <1>3
<1>5. \A i \in 1..Len(a) : a[i] = c[i]
  BY <1>2, <1>3
<1>6. \A i \in 1..Len(b) : b[i] = d[i]
  BY <1>2, <1>3, <1>4
<1>7. a = c
  BY <1>5
<1>8. b = d
  BY <1>4, <1>6
<1>9. QED
  BY <1>7, <1>8

\* Where one is shorter, the other goes on from it with the letter.
LEMMA ShorterGoesOn ==
    ASSUME NEW S, NEW x, NEW a \in Seq(S), NEW b \in Seq(S),
           NEW c \in Seq(S), NEW d \in Seq(S),
           Join(a, x, b) = Join(c, x, d), Len(a) < Len(c)
    PROVE  IsPrefix(a \o <<x>>, c)
<1>1. PICK s : s = Join(a, x, b) /\ s = Join(c, x, d)
  OBVIOUS
<1>2. /\ Len(s) = Len(a) + 1 + Len(b)
      /\ \A i \in 1..Len(a) : s[i] = a[i]
      /\ s[Len(a) + 1] = x
      /\ \A i \in 1..Len(b) : s[Len(a) + 1 + i] = b[i]
  <2>1. Reads(s, a, x, b)
    BY <1>1, Joined
  <2>2. QED
    BY <2>1 DEF Reads
<1>3. /\ Len(s) = Len(c) + 1 + Len(d)
      /\ \A i \in 1..Len(c) : s[i] = c[i]
      /\ \A i \in 1..Len(d) : s[Len(c) + 1 + i] = d[i]
  <2>1. Reads(s, c, x, d)
    BY <1>1, Joined
  <2>2. QED
    BY <2>1 DEF Reads
<1>4. PICK h : h = a \o <<x>>
  OBVIOUS
<1>5. a \in Seq(S \cup {x}) /\ c \in Seq(S \cup {x}) /\ <<x>> \in Seq(S \cup {x})
  OBVIOUS
<1>6. /\ h \in Seq(S \cup {x}) /\ Len(h) = Len(a) + 1
      /\ h[Len(a) + 1] = x /\ \A i \in 1..Len(a) : h[i] = a[i]
  BY <1>4, <1>5
<1>7. Len(h) <= Len(c) /\ \A i \in 1..Len(h) : h[i] = c[i]
  <2>1. \A i \in 1..Len(h) : i \in 1..Len(a) \/ i = Len(a) + 1
    BY <1>6
  <2>2. QED
    BY <1>2, <1>3, <1>6, <2>1
<1>8. SubSeq(h, 1, Len(h)) = SubSeq(c, 1, Len(h))
  BY <1>5, <1>6, <1>7
<1>9. QED
  BY <1>4, <1>7, <1>8 DEF IsPrefix

\* Ids do not repeat in what validation let pass, and only the name of a cluster
\* that goes on from another's with a dash makes two of its VMs share a hostname
\* with the other's.
THEOREM HostnamesApart == Spec => []HostnamesCollideAtDash
<1>1. ASSUME FlowInv, Stored, request = Wanted,
             NEW p \in Places(request) \ {Desk}, NEW q \in Places(request) \ {Desk},
             p # q, Requested(p).hostname = Requested(q).hostname
      PROVE  \/ IsPrefix(rows.topology[p[1]].id \o <<"-">>, rows.topology[q[1]].id)
             \/ IsPrefix(rows.topology[q[1]].id \o <<"-">>, rows.topology[p[1]].id)
  <2>1. PICK c, n :
            /\ c \in DOMAIN Scenario.clusters
            /\ n \in DOMAIN Scenario.clusters[c].nodes
            /\ p = <<c, n>> /\ Requested(p) = request[c].nodes[n]
    BY <1>1, PlaceOfNode
  <2>2. PICK e, m :
            /\ e \in DOMAIN Scenario.clusters
            /\ m \in DOMAIN Scenario.clusters[e].nodes
            /\ q = <<e, m>> /\ Requested(q) = request[e].nodes[m]
    BY <1>1, PlaceOfNode
  <2>3. PICK x, y : x = Scenario.clusters[c] /\ y = Scenario.clusters[e]
    OBVIOUS
  <2>4. PICK v, w : v = x.nodes[n].id /\ w = y.nodes[m].id
    OBVIOUS
  <2>5. x.id \in Name /\ y.id \in Name /\ x.nodes \in NodeRows /\ y.nodes \in NodeRows
    <3>1. Scenario.clusters \in Seq([id : Name, context : Name, nodes : NodeRows])
      BY <1>1, TopologyOfFiles DEF ClusterRows
    <3>2. x \in [id : Name, context : Name, nodes : NodeRows]
      BY <2>1, <2>3, <3>1, ElementOf
    <3>3. y \in [id : Name, context : Name, nodes : NodeRows]
      BY <2>2, <2>3, <3>1, ElementOf
    <3>4. QED
      BY <3>2, <3>3
  <2>6. v \in Seq(STRING) /\ w \in Seq(STRING)
    <3>1. /\ x.nodes \in Seq([id : Name, role : STRING, template : STRING])
          /\ y.nodes \in Seq([id : Name, role : STRING, template : STRING])
      BY <2>5 DEF NodeRows
    <3>2. x.nodes[n] \in [id : Name, role : STRING, template : STRING]
      BY <2>1, <2>3, <3>1, ElementOf
    <3>3. y.nodes[m] \in [id : Name, role : STRING, template : STRING]
      BY <2>2, <2>3, <3>1, ElementOf
    <3>4. QED
      BY <2>4, <3>2, <3>3 DEF Name
  <2>7. /\ Requested(p).hostname = x.id \o <<"-">> \o v
        /\ Requested(q).hostname = y.id \o <<"-">> \o w
    BY <1>1, <2>1, <2>2, <2>3, <2>4, WantedNode DEF Hostname
  <2>8. rows.topology[p[1]].id = x.id /\ rows.topology[q[1]].id = y.id
    BY <1>1, <2>1, <2>2, <2>3, TopologyOfFiles
  <2>9. Join(x.id, "-", v) = Join(y.id, "-", w)
    BY <1>1, <2>7 DEF Join
  <2>10. Len(x.id) # Len(y.id)
    <3>1. SUFFICES ASSUME Len(x.id) = Len(y.id) PROVE FALSE
      OBVIOUS
    <3>2. x.id = y.id /\ v = w
      <4>1. x.id \in Seq(STRING) /\ y.id \in Seq(STRING)
        BY <2>5 DEF Name
      <4>2. QED
        BY <2>6, <2>9, <3>1, <4>1, SameLength
    <3>3. ValidCluster(Scenario.clusters, c) /\ ValidCluster(Scenario.clusters, e)
      BY <1>1, <2>1, <2>2 DEF Stored, Parsed, Validate, Scenario
    <3>4. c = e
      <4>1. c \in Nat /\ e \in Nat /\ c >= 1 /\ e >= 1
        BY <1>1, <2>1, <2>2, TopologyOfFiles, ElementOf DEF ClusterRows
      <4>2. QED
        BY <2>3, <3>2, <3>3, <4>1 DEF ValidCluster, Unseen
    <3>5. ValidNode(x.nodes, n) /\ ValidNode(x.nodes, m)
      BY <2>1, <2>2, <2>3, <3>3, <3>4 DEF ValidCluster
    <3>6. n = m
      <4>1. n \in Nat /\ m \in Nat /\ n >= 1 /\ m >= 1
        BY <2>1, <2>2, <2>3, <2>5, <3>4, ElementOf DEF NodeRows
      <4>2. x = y
        BY <2>3, <3>4
      <4>3. QED
        <5>1. /\ \A j \in 1..(n - 1) : x.nodes[j].id # v
              /\ \A j \in 1..(m - 1) : x.nodes[j].id # v
          BY <2>4, <3>2, <3>5, <4>2 DEF ValidNode, Unseen
        <5>2. x.nodes[n].id = v /\ x.nodes[m].id = v
          BY <2>4, <3>2, <4>2
        <5>3. ~(n < m) /\ ~(m < n)
          BY <4>1, <5>1, <5>2
        <5>4. QED
          BY <4>1, <5>3
    <3>7. QED
      BY <1>1, <2>1, <2>2, <3>4, <3>6
  <2>11. CASE Len(x.id) < Len(y.id)
    BY <2>5, <2>6, <2>8, <2>9, <2>11, ShorterGoesOn DEF Name
  <2>12. CASE Len(y.id) < Len(x.id)
    BY <2>5, <2>6, <2>8, <2>9, <2>12, ShorterGoesOn DEF Name
  <2>13. QED
    BY <2>5, <2>10, <2>11, <2>12 DEF Name
<1>2. FlowInv => HostnamesCollideAtDash
  <2>1. SUFFICES ASSUME FlowInv PROVE HostnamesCollideAtDash
    OBVIOUS
  <2>2. CASE request = <<>>
    BY <2>2 DEF HostnamesCollideAtDash, Places
  <2>3. CASE request = Wanted /\ Stored
    BY <1>1, <2>1, <2>3 DEF HostnamesCollideAtDash
  <2>4. QED
    BY <2>1, <2>2, <2>3 DEF FlowInv
<1>3. QED
  BY <1>2, AlwaysFlowInv, PTL

-----------------------------------------------------------------------------
(* Induction and recursion                                                 *)
(*                                                                         *)
(* The library's induction theorems are about operators, which the provers *)
(* cannot instantiate.  That each set of numbers has a least element is    *)
(* about sets, and says the same.                                          *)

LEMMA Least ==
    ASSUME NEW T, T \subseteq Nat, T # {}
    PROVE  \E n \in T : \A m \in T : n <= m
<1>1. PICK n \in T : \A m \in T : ~ (<<m, n>> \in OpToRel(<, Nat))
  BY NatLessThanWellFounded, WFMin
<1>2. ASSUME NEW m \in T, m < n
      PROVE  FALSE
  <2>1. <<m, n>> \in Nat \X Nat /\ <<m, n>>[1] < <<m, n>>[2]
    BY <1>2
  <2>2. <<m, n>> \in OpToRel(<, Nat)
    BY <2>1 DEF OpToRel
  <2>3. QED
    BY <2>2, <1>1
<1>3. QED
  BY <1>2

LEMMA Every ==
    ASSUME NEW G, 0 \in G, \A n \in Nat : n \in G => n + 1 \in G
    PROVE  Nat \subseteq G
<1>1. SUFFICES ASSUME Nat \ G # {}
               PROVE  FALSE
  OBVIOUS
<1>2. PICK n \in Nat \ G : \A m \in Nat \ G : n <= m
  BY <1>1, Least
<1>3. n - 1 \in Nat /\ n - 1 \in G
  BY <1>2
<1>4. QED
  BY <1>2, <1>3

-----------------------------------------------------------------------------
(* What FlattenSeq computes                                                *)

Flattens(f, s, n) ==
    f = [i \in 1..n |-> IF i = 1 THEN s[i] ELSE f[i - 1] \o s[i]]

Flat(s) == CHOOSE f : Flattens(f, s, Len(s))

LEMMA FlatExists ==
    ASSUME NEW s, NEW n \in Nat
    PROVE  \E f : Flattens(f, s, n)
<1> DEFINE G == {k \in Nat : \E f : Flattens(f, s, k)}
<1>1. 0 \in G
  <2>1. PICK f : f = [i \in {} |-> i]
    OBVIOUS
  <2>2. Flattens(f, s, 0)
    BY <2>1 DEF Flattens
  <2>3. QED
    BY <2>2
<1>2. ASSUME NEW k \in Nat, k \in G
      PROVE  k + 1 \in G
  <2>1. PICK f : Flattens(f, s, k)
    BY <1>2
  <2>2. PICK g : g = [i \in 1..(k + 1) |-> IF i = 1 THEN s[i] ELSE f[i - 1] \o s[i]]
    OBVIOUS
  <2>3. ASSUME NEW i \in 1..k
        PROVE  g[i] = f[i]
    <3>1. i \in 1..(k + 1)
      OBVIOUS
    <3>2. g[i] = IF i = 1 THEN s[i] ELSE f[i - 1] \o s[i]
      BY <2>2, <3>1
    <3>3. f = [j \in 1..k |-> IF j = 1 THEN s[j] ELSE f[j - 1] \o s[j]]
      BY <2>1 DEF Flattens
    <3>4. f[i] = IF i = 1 THEN s[i] ELSE f[i - 1] \o s[i]
      BY <3>3
    <3>5. QED
      BY <3>2, <3>4
  <2>4. ASSUME NEW i \in 1..(k + 1), i # 1
        PROVE  g[i - 1] = f[i - 1]
    BY <2>3, <2>4
  <2>5. g = [i \in 1..(k + 1) |-> IF i = 1 THEN s[i] ELSE g[i - 1] \o s[i]]
    BY <2>2, <2>4
  <2>6. Flattens(g, s, k + 1)
    BY <2>5 DEF Flattens
  <2>7. QED
    BY <2>6
<1> HIDE DEF G
<1>3. Nat \subseteq G
  BY <1>1, <1>2, Every
<1>4. QED
  BY <1>3 DEF G

LEMMA FlatFlattens ==
    ASSUME NEW s, Len(s) \in Nat \ {0}
    PROVE  FlattenSeq(s) = Flat(s)[Len(s)] /\ Flattens(Flat(s), s, Len(s))
<1>1. FlattenSeq(s) = Flat(s)[Len(s)]
  BY DEF FlattenSeq, Flat, Flattens
<1>2. \E f : Flattens(f, s, Len(s))
  BY FlatExists
<1>3. Flattens(Flat(s), s, Len(s))
  BY <1>2 DEF Flat
<1>4. QED
  BY <1>1, <1>3

-----------------------------------------------------------------------------
(* Words without double braces                                             *)

Clean(s) == \A i \in 1..(Len(s) - 1) : ~ (s[i] = Open /\ s[i + 1] = Open)
EndsOpen(s) == Len(s) # 0 /\ s[Len(s)] = Open

LEMMA CleanIndex ==
    ASSUME NEW s, Clean(s)
    PROVE  Index(s, Open) = 0
BY DEF Clean, Index

\* Nothing that doubles a brace arises between two words if the first does not
\* end with one.
LEMMA CleanJoin ==
    ASSUME NEW S, NEW a \in Seq(S), NEW b \in Seq(S),
           Clean(a), Clean(b), ~EndsOpen(a)
    PROVE  Clean(a \o b) /\ (~EndsOpen(b) => ~EndsOpen(a \o b))
<1>1. PICK c : c = a \o b
  OBVIOUS
<1>2. PICK m, n : m = Len(a) /\ n = Len(b)
  OBVIOUS
<1>3. /\ m \in Nat /\ n \in Nat /\ Len(c) = m + n
      /\ \A i \in 1..m : c[i] = a[i]
      /\ \A i \in 1..n : c[m + i] = b[i]
  BY <1>1, <1>2
<1>4. /\ \A i \in 1..(m - 1) : ~ (a[i] = Open /\ a[i + 1] = Open)
      /\ \A i \in 1..(n - 1) : ~ (b[i] = Open /\ b[i + 1] = Open)
      /\ m # 0 => a[m] # Open
  BY <1>2 DEF Clean, EndsOpen
<1>5. ASSUME NEW i \in 1..(m + n - 1), c[i] = Open, c[i + 1] = Open
      PROVE  FALSE
  <2>1. i \in Nat /\ i > 0 /\ i < m + n
    BY <1>3
  <2>2. CASE i < m
    <3>1. c[i] = a[i] /\ c[i + 1] = a[i + 1]
      BY <1>3, <2>1, <2>2
    <3>2. QED
      BY <1>3, <1>4, <1>5, <2>1, <2>2, <3>1
  <2>3. CASE i = m
    BY <1>3, <1>4, <1>5, <2>1, <2>3
  <2>4. CASE i > m
    <3>1. PICK j : j = i - m
      OBVIOUS
    <3>2. j \in 1..(n - 1) /\ i = m + j
      BY <1>3, <2>1, <2>4, <3>1
    <3>3. c[m + j] = b[j] /\ c[m + (j + 1)] = b[j + 1] /\ i + 1 = m + (j + 1)
      BY <1>3, <3>2
    <3>4. QED
      BY <1>4, <1>5, <3>2, <3>3
  <2>5. QED
    BY <1>3, <2>1, <2>2, <2>3, <2>4
<1>6. Clean(c)
  BY <1>3, <1>5 DEF Clean
<1>7. ASSUME n = 0 \/ b[n] # Open, m + n # 0
      PROVE  c[m + n] # Open
  <2>1. CASE n = 0
    BY <1>3, <1>4, <1>7, <2>1
  <2>2. CASE n # 0
    BY <1>3, <1>7, <2>2
  <2>3. QED
    BY <2>1, <2>2
<1>8. ~EndsOpen(b) => ~EndsOpen(c)
  BY <1>2, <1>3, <1>7 DEF EndsOpen
<1>9. QED
  BY <1>1, <1>6, <1>8

LEMMA UnbracedClean ==
    ASSUME NEW S, NEW s \in Seq(S), Unbraced(s)
    PROVE  Clean(s) /\ ~EndsOpen(s)
<1>1. \A i \in 1..Len(s) : s[i] # Open
  BY DEF Unbraced
<1>2. Len(s) \in Nat
  OBVIOUS
<1>3. QED
  BY <1>1, <1>2 DEF Clean, EndsOpen

\* Clean words in a row, none of which but the last ends with a brace.
LEMMA FlattenClean ==
    ASSUME NEW S, NEW n \in Nat, NEW s \in [1..n -> Seq(S)],
           \A i \in 1..n : Clean(s[i]) /\ (i < n => ~EndsOpen(s[i]))
    PROVE  Clean(FlattenSeq(s))
<1>1. s \in Seq(Seq(S)) /\ Len(s) = n
  OBVIOUS
<1>2. CASE n = 0
  <2>1. FlattenSeq(s) = s
    BY <1>1, <1>2 DEF FlattenSeq
  <2>2. Len(s) = 0
    BY <1>1, <1>2
  <2>3. 1..(0 - 1) = {}
    OBVIOUS
  <2>4. QED
    BY <2>1, <2>2, <2>3 DEF Clean
<1>3. CASE n # 0
  <2>1. PICK f : f = Flat(s)
    OBVIOUS
  <2>2. /\ FlattenSeq(s) = f[n]
        /\ f = [i \in 1..n |-> IF i = 1 THEN s[i] ELSE f[i - 1] \o s[i]]
    BY <1>1, <1>3, <2>1, FlatFlattens DEF Flattens
  <2> DEFINE Good(i) == f[i] \in Seq(S) /\ Clean(f[i]) /\ (i < n => ~EndsOpen(f[i]))
             G == {i \in Nat : i \in 1..n => Good(i)}
  <2>3. 0 \in G
    OBVIOUS
  <2>4. ASSUME NEW i \in Nat, i \in G
        PROVE  i + 1 \in G
    <3> SUFFICES ASSUME i + 1 \in 1..n
                 PROVE  Good(i + 1)
      OBVIOUS
    <3>1. s[i + 1] \in Seq(S) /\ Clean(s[i + 1]) /\ (i + 1 < n => ~EndsOpen(s[i + 1]))
      OBVIOUS
    <3>2. CASE i = 0
      <4>1. f[i + 1] = s[i + 1]
        BY <2>2, <3>2
      <4>2. QED
        BY <3>1, <4>1
    <3>3. CASE i # 0
      <4>1. f[i + 1] = f[i] \o s[i + 1]
        <5>1. i + 1 # 1 /\ (i + 1) - 1 = i
          BY <3>3
        <5>2. f[i + 1] = f[(i + 1) - 1] \o s[i + 1]
          BY <2>2, <5>1
        <5>3. QED
          BY <5>1, <5>2
      <4>2. f[i] \in Seq(S) /\ Clean(f[i]) /\ ~EndsOpen(f[i])
        BY <2>4, <3>3
      <4> HIDE DEF Good, G
      <4>3. /\ f[i] \o s[i + 1] \in Seq(S) /\ Clean(f[i] \o s[i + 1])
            /\ (~EndsOpen(s[i + 1]) => ~EndsOpen(f[i] \o s[i + 1]))
        BY <3>1, <4>2, CleanJoin
      <4>4. QED
        BY <3>1, <4>1, <4>3 DEF Good
    <3>4. QED
      BY <3>2, <3>3
  <2> HIDE DEF G
  <2>5. Nat \subseteq G
    BY <2>3, <2>4, Every
  <2>6. Good(n)
    BY <1>3, <2>5 DEF G
  <2>7. QED
    BY <2>2, <2>6
<1>4. QED
  BY <1>2, <1>3

-----------------------------------------------------------------------------
(* What Pieces computes                                                    *)

Values == Seq(Tokens)

Part(s, m, n) == SubSeq(s, m, n)

LEMMA PartOf ==
    ASSUME NEW S, NEW s \in Seq(S), NEW m \in 1..(Len(s) + 1), NEW n \in (m - 1)..Len(s)
    PROVE  /\ Part(s, m, n) \in Seq(S)
           /\ Len(Part(s, m, n)) = n - m + 1
           /\ \A i \in 1..(n - m + 1) : Part(s, m, n)[i] = s[m + i - 1]
<1>1. \A i \in m..n : s[i] \in S
  OBVIOUS
<1>2. QED
  BY <1>1, SubSeqProperties DEF Part

\* The first place of a double token, and nothing before it.
LEMMA IndexFinds ==
    ASSUME NEW S, NEW s \in Seq(S), NEW token, Index(s, token) # 0
    PROVE  /\ Index(s, token) \in 1..(Len(s) - 1)
           /\ s[Index(s, token)] = token /\ s[Index(s, token) + 1] = token
           /\ \A i \in 1..(Index(s, token) - 1) : ~ (s[i] = token /\ s[i + 1] = token)
<1> DEFINE found == {i \in 1..(Len(s) - 1) : s[i] = token /\ s[i + 1] = token}
<1>1. found # {} /\ Index(s, token) = Min(found)
  BY DEF Index
<1>2. found \subseteq Nat
  OBVIOUS
<1>3. PICK k \in found : \A i \in found : k <= i
  BY <1>1, <1>2, Least
<1>4. Min(found) \in found /\ \A i \in found : Min(found) <= i
  BY <1>3 DEF Min
<1>5. ASSUME NEW i \in 1..(Min(found) - 1), s[i] = token, s[i + 1] = token
      PROVE  FALSE
  <2>1. i \in found
    BY <1>4, <1>5
  <2>2. QED
    BY <1>4, <2>1
<1>6. QED
  BY <1>1, <1>4, <1>5

LEMMA IndexNone ==
    ASSUME NEW S, NEW s \in Seq(S), NEW token, Index(s, token) = 0
    PROVE  \A i \in 1..(Len(s) - 1) : ~ (s[i] = token /\ s[i + 1] = token)
<1> DEFINE found == {i \in 1..(Len(s) - 1) : s[i] = token /\ s[i + 1] = token}
<1>1. SUFFICES ASSUME found # {}
               PROVE  FALSE
  OBVIOUS
<1>2. found \subseteq Nat \ {0}
  OBVIOUS
<1>3. PICK k \in found : \A i \in found : k <= i
  BY <1>1, <1>2, Least
<1>4. Min(found) \in found
  BY <1>3 DEF Min
<1>5. Index(s, token) = Min(found)
  BY <1>1 DEF Index
<1>6. QED
  BY <1>2, <1>4, <1>5

Start(v) == Index(v, Open)
After(v) == From(v, Start(v) + 2)
End(v) == Index(After(v), Close)
Rest(v) == From(After(v), End(v) + 2)
Before(v) == SubSeq(v, 1, Start(v) - 1)

\* One round of the loop, which leaves the rest to f.
Cut(f, v) ==
    IF Start(v) = 0 THEN <<[is |-> "text", tokens |-> v]>>
    ELSE IF End(v) = 0
      THEN <<[is |-> "text", tokens |-> Before(v)],
             [is |-> "open", tokens |-> From(v, Start(v))]>>
    ELSE <<[is |-> "text", tokens |-> Before(v)],
           [is |-> "placeholder", tokens |-> SubSeq(After(v), 1, End(v) - 1)]>>
         \o f[Rest(v)]

LEMMA BeforeFits ==
    ASSUME NEW v \in Values, Start(v) # 0
    PROVE  /\ Before(v) \in Values /\ Clean(Before(v)) /\ ~EndsOpen(Before(v))
           /\ After(v) \in Values /\ Len(After(v)) < Len(v)
           /\ From(v, Start(v)) \in Values
<1>1. /\ Start(v) \in 1..(Len(v) - 1)
      /\ v[Start(v)] = Open
      /\ \A i \in 1..(Start(v) - 1) : ~ (v[i] = Open /\ v[i + 1] = Open)
  BY IndexFinds DEF Start, Values
<1>2. PICK k : k = Start(v)
  OBVIOUS
<1>3. k \in Nat /\ k > 0 /\ k < Len(v) /\ Len(v) \in Nat
  BY <1>1, <1>2 DEF Values
<1>4. /\ Before(v) \in Values /\ Len(Before(v)) = k - 1
      /\ \A i \in 1..(k - 1) : Before(v)[i] = v[i]
  <2>1. Before(v) = Part(v, 1, k - 1)
    BY <1>2 DEF Before, Part
  <2>2. 1 \in 1..(Len(v) + 1) /\ k - 1 \in (1 - 1)..Len(v)
    BY <1>3
  <2>3. /\ Part(v, 1, k - 1) \in Seq(Tokens)
        /\ Len(Part(v, 1, k - 1)) = (k - 1) - 1 + 1
        /\ \A i \in 1..((k - 1) - 1 + 1) : Part(v, 1, k - 1)[i] = v[1 + i - 1]
    BY <2>2, PartOf DEF Values
  <2>4. QED
    BY <1>3, <2>1, <2>3 DEF Values
<1>5. After(v) \in Values /\ Len(After(v)) < Len(v)
  <2>1. After(v) = Part(v, k + 2, Len(v))
    BY <1>2 DEF After, From, Part
  <2>2. k + 2 \in 1..(Len(v) + 1) /\ Len(v) \in ((k + 2) - 1)..Len(v)
    BY <1>3
  <2>3. /\ Part(v, k + 2, Len(v)) \in Seq(Tokens)
        /\ Len(Part(v, k + 2, Len(v))) = Len(v) - (k + 2) + 1
    BY <2>2, PartOf DEF Values
  <2>4. QED
    BY <1>3, <2>1, <2>3 DEF Values
<1>6. From(v, Start(v)) \in Values
  <2>1. k \in 1..(Len(v) + 1) /\ Len(v) \in (k - 1)..Len(v)
    BY <1>3
  <2>2. Part(v, k, Len(v)) \in Seq(Tokens)
    BY <2>1, PartOf DEF Values
  <2>3. QED
    BY <1>2, <2>2 DEF From, Part, Values
<1>7. Clean(Before(v))
  BY <1>1, <1>2, <1>3, <1>4 DEF Clean
<1>8. ~EndsOpen(Before(v))
  <2>1. SUFFICES ASSUME k - 1 # 0, v[k - 1] = Open
                 PROVE  FALSE
    BY <1>3, <1>4 DEF EndsOpen
  <2>2. k - 1 \in 1..(k - 1) /\ (k - 1) + 1 = k
    BY <1>3, <2>1
  <2>3. QED
    BY <1>1, <1>2, <2>1, <2>2
<1>9. QED
  BY <1>4, <1>5, <1>6, <1>7, <1>8

LEMMA RestFits ==
    ASSUME NEW v \in Values, Start(v) # 0, End(v) # 0
    PROVE  /\ Rest(v) \in Values /\ Len(Rest(v)) < Len(v)
           /\ SubSeq(After(v), 1, End(v) - 1) \in Values
<1>1. PICK w, k : w = After(v) /\ k = End(v)
  OBVIOUS
<1>2. w \in Values /\ Len(w) < Len(v) /\ Len(w) \in Nat /\ Len(v) \in Nat
  BY <1>1, BeforeFits DEF Values
<1>3. k \in Nat /\ k > 0 /\ k < Len(w)
  <2>1. k \in 1..(Len(w) - 1)
    BY <1>1, <1>2, IndexFinds DEF End, Values
  <2>2. QED
    BY <1>2, <2>1
<1>4. k + 2 \in 1..(Len(w) + 1) /\ Len(w) \in ((k + 2) - 1)..Len(w)
      /\ 1 \in 1..(Len(w) + 1) /\ k - 1 \in (1 - 1)..Len(w)
  BY <1>2, <1>3
<1>5. /\ Part(w, k + 2, Len(w)) \in Seq(Tokens)
      /\ Len(Part(w, k + 2, Len(w))) = Len(w) - (k + 2) + 1
  BY <1>2, <1>4, PartOf DEF Values
<1>6. Part(w, 1, k - 1) \in Seq(Tokens)
  BY <1>2, <1>4, PartOf DEF Values
<1>7. Rest(v) = Part(w, k + 2, Len(w))
  BY <1>1 DEF Rest, From, Part
<1>8. SubSeq(After(v), 1, End(v) - 1) = Part(w, 1, k - 1)
  BY <1>1 DEF Part
<1>9. Len(Part(w, k + 2, Len(w))) < Len(v)
  BY <1>2, <1>3, <1>5
<1>10. QED
  BY <1>5, <1>6, <1>7, <1>8, <1>9 DEF Values

\* A round looks only at what is shorter.
LEMMA CutLocal ==
    ASSUME NEW v \in Values, NEW f, NEW g,
           \A w \in Values : Len(w) < Len(v) => f[w] = g[w]
    PROVE  Cut(f, v) = Cut(g, v)
<1>1. CASE Start(v) = 0
  BY <1>1 DEF Cut
<1>2. CASE Start(v) # 0 /\ End(v) = 0
  BY <1>2 DEF Cut
<1>3. CASE Start(v) # 0 /\ End(v) # 0
  <2>1. f[Rest(v)] = g[Rest(v)]
    BY <1>3, RestFits
  <2>2. QED
    BY <1>3, <2>1 DEF Cut
<1>4. QED
  BY <1>1, <1>2, <1>3

Below(n) == {v \in Values : Len(v) < n}
Cuts(f, n) == f = [v \in Below(n) |-> Cut(f, v)]

LEMMA CutsAgree ==
    ASSUME NEW m \in Nat, NEW n \in Nat, NEW f, NEW g, Cuts(f, m), Cuts(g, n)
    PROVE  \A v \in Below(m) \cap Below(n) : f[v] = g[v]
<1> DEFINE Bad == {k \in Nat : \E v \in Below(m) \cap Below(n) : Len(v) = k /\ f[v] # g[v]}
<1>1. SUFFICES ASSUME NEW v \in Below(m) \cap Below(n), f[v] # g[v]
               PROVE  FALSE
  OBVIOUS
<1>2. Bad # {} /\ Bad \subseteq Nat
  <2>1. Len(v) \in Nat
    BY DEF Below, Values
  <2>2. QED
    BY <1>1, <2>1
<1>3. PICK k \in Bad : \A i \in Bad : k <= i
  BY <1>2, Least
<1>4. PICK w \in Below(m) \cap Below(n) : Len(w) = k /\ f[w] # g[w]
  OBVIOUS
<1>5. ASSUME NEW x \in Values, Len(x) < Len(w)
      PROVE  f[x] = g[x]
  <2>1. Len(x) \in Nat /\ x \in Below(m) \cap Below(n)
    BY <1>4, <1>5 DEF Below, Values
  <2>2. Len(x) \notin Bad
    BY <1>3, <1>4, <1>5, <2>1
  <2>3. QED
    BY <2>1, <2>2
<1>6. w \in Values
  BY DEF Below
<1>7. Cut(f, w) = Cut(g, w)
  BY <1>5, <1>6, CutLocal
<1>8. f[w] = Cut(f, w) /\ g[w] = Cut(g, w)
  BY DEF Cuts
<1>9. QED
  BY <1>4, <1>7, <1>8

LEMMA CutsExist ==
    ASSUME NEW n \in Nat
    PROVE  \E f : Cuts(f, n)
<1> DEFINE G == {k \in Nat : \E f : Cuts(f, k)}
<1>1. 0 \in G
  <2>1. Below(0) = {}
    BY DEF Below, Values
  <2>2. PICK f : f = [v \in Below(0) |-> v]
    OBVIOUS
  <2>3. f = [v \in Below(0) |-> Cut(f, v)]
    BY <2>1, <2>2
  <2>4. Cuts(f, 0)
    BY <2>3 DEF Cuts
  <2>5. QED
    BY <2>4
<1>2. ASSUME NEW k \in Nat, k \in G
      PROVE  k + 1 \in G
  <2>1. PICK f : Cuts(f, k)
    BY <1>2
  <2>2. PICK g : g = [v \in Below(k + 1) |-> Cut(f, v)]
    OBVIOUS
  <2>3. ASSUME NEW v \in Below(k + 1)
        PROVE  Cut(f, v) = Cut(g, v)
    <3>1. v \in Values /\ Len(v) \in Nat /\ Len(v) <= k
      BY DEF Below, Values
    <3>2. ASSUME NEW w \in Values, Len(w) < Len(v)
          PROVE  f[w] = g[w]
      <4>1. w \in Below(k) /\ w \in Below(k + 1)
        BY <3>1, <3>2 DEF Below, Values
      <4>2. f[w] = Cut(f, w)
        BY <2>1, <4>1 DEF Cuts
      <4>3. g[w] = Cut(f, w)
        BY <2>2, <4>1
      <4>4. QED
        BY <4>2, <4>3
    <3>3. QED
      BY <3>1, <3>2, CutLocal
  <2>4. g = [v \in Below(k + 1) |-> Cut(g, v)]
    BY <2>2, <2>3
  <2>5. Cuts(g, k + 1)
    BY <2>4 DEF Cuts
  <2>6. QED
    BY <2>5
<1> HIDE DEF G
<1>3. Nat \subseteq G
  BY <1>1, <1>2, Every
<1>4. QED
  BY <1>3 DEF G

\* The recursive definition is one: Pieces is what its equation says.
LEMMA PiecesCut ==
    \A v \in Values : Pieces[v] = Cut(Pieces, v)
<1>1. PICK H : H = [v \in Values |-> (CHOOSE f : Cuts(f, Len(v) + 1))]
  OBVIOUS
<1>2. \A v \in Values : Len(v) \in Nat /\ Len(v) + 1 \in Nat /\ Cuts(H[v], Len(v) + 1)
  <2>1. SUFFICES ASSUME NEW v \in Values
                 PROVE  Len(v) \in Nat /\ Len(v) + 1 \in Nat /\ Cuts(H[v], Len(v) + 1)
    OBVIOUS
  <2>2. Len(v) \in Nat /\ Len(v) + 1 \in Nat
    BY DEF Values
  <2>3. \E f : Cuts(f, Len(v) + 1)
    BY <2>2, CutsExist
  <2>4. QED
    BY <1>1, <2>2, <2>3
<1>3. PICK F : F = [v \in Values |-> H[v][v]]
  OBVIOUS
<1>4. ASSUME NEW v \in Values
      PROVE  F[v] = Cut(F, v)
  <2>1. ASSUME NEW w \in Values, Len(w) < Len(v)
        PROVE  H[v][w] = F[w]
    <3>1. w \in Below(Len(v) + 1) \cap Below(Len(w) + 1)
      BY <1>2, <2>1 DEF Below
    <3>2. H[v][w] = H[w][w]
      BY <1>2, <3>1, CutsAgree
    <3>3. QED
      BY <1>3, <3>2
  <2>2. Cut(H[v], v) = Cut(F, v)
    BY <2>1, CutLocal
  <2>3. v \in Below(Len(v) + 1)
    BY <1>2 DEF Below
  <2>4. H[v][v] = Cut(H[v], v)
    BY <1>2, <2>3 DEF Cuts
  <2>5. QED
    BY <1>3, <2>2, <2>4
<1>5. F = [v \in Values |-> Cut(F, v)]
  BY <1>3, <1>4
<1>6. Pieces = CHOOSE f : f = [v \in Values |-> Cut(f, v)]
  BY DEF Pieces, Cut, Values, Start, After, End, Rest, Before
<1>7. Pieces = [v \in Values |-> Cut(Pieces, v)]
  BY <1>5, <1>6
<1>8. QED
  BY <1>7

\* Between two pieces no double brace arises.
Piece == [is : {"text", "open", "placeholder"}, tokens : Values]

WellCut(pieces) ==
    /\ pieces \in Seq(Piece)
    /\ \A i \in 1..Len(pieces) :
        pieces[i].is = "text" =>
            /\ Clean(pieces[i].tokens)
            /\ i < Len(pieces) => ~EndsOpen(pieces[i].tokens)

\* Two pieces in front.
LEMMA TwoMore ==
    ASSUME NEW t \in Piece, NEW q \in Piece, q.is # "text",
           Clean(t.tokens), ~EndsOpen(t.tokens), NEW r, WellCut(r)
    PROVE  WellCut(<<t, q>> \o r)
<1>1. PICK p : p = <<t, q>> \o r
  OBVIOUS
<1>2. r \in Seq(Piece) /\ Len(r) \in Nat
  BY DEF WellCut
<1>3. /\ p \in Seq(Piece) /\ Len(p) = 2 + Len(r)
      /\ p[1] = t /\ p[2] = q
      /\ \A i \in 1..Len(r) : p[2 + i] = r[i]
  <2>1. <<t, q>> \in Seq(Piece) /\ Len(<<t, q>>) = 2
    OBVIOUS
  <2>2. QED
    BY <1>1, <1>2, <2>1
<1>4. ASSUME NEW i \in 1..Len(p), p[i].is = "text"
      PROVE  Clean(p[i].tokens) /\ (i < Len(p) => ~EndsOpen(p[i].tokens))
  <2>1. CASE i = 1
    BY <1>3, <2>1
  <2>2. CASE i = 2
    BY <1>3, <1>4, <2>2
  <2>3. CASE i # 1 /\ i # 2
    <3>1. PICK j : j = i - 2
      OBVIOUS
    <3>2. j \in 1..Len(r) /\ i = 2 + j
      BY <1>2, <1>3, <2>3, <3>1
    <3>3. p[i] = r[j] /\ (i < Len(p) => j < Len(r))
      BY <1>2, <1>3, <3>2
    <3>4. QED
      BY <1>4, <3>2, <3>3 DEF WellCut
  <2>4. QED
    BY <2>1, <2>2, <2>3
<1>5. QED
  BY <1>1, <1>3, <1>4 DEF WellCut

\* One round keeps it up.
LEMMA CutWell ==
    ASSUME NEW v \in Values, NEW f,
           \A w \in Values : Len(w) < Len(v) => WellCut(f[w])
    PROVE  WellCut(Cut(f, v))
<1>1. CASE Start(v) = 0
  <2>1. Clean(v)
    BY <1>1, IndexNone DEF Clean, Start, Values
  <2>2. PICK t : t = [is |-> "text", tokens |-> v]
    OBVIOUS
  <2>3. Cut(f, v) = <<t>>
    BY <1>1, <2>2 DEF Cut
  <2>4. t \in Piece /\ Clean(t.tokens)
    BY <2>1, <2>2 DEF Piece
  <2>5. QED
    BY <2>3, <2>4 DEF WellCut
<1>2. CASE Start(v) # 0
  <2>1. PICK t : t = [is |-> "text", tokens |-> Before(v)]
    OBVIOUS
  <2>2. t \in Piece /\ Clean(t.tokens) /\ ~EndsOpen(t.tokens)
    BY <1>2, <2>1, BeforeFits DEF Piece
  <2>3. CASE End(v) = 0
    <3>1. PICK q : q = [is |-> "open", tokens |-> From(v, Start(v))]
      OBVIOUS
    <3>2. q \in Piece /\ q.is # "text"
      BY <1>2, <3>1, BeforeFits DEF Piece
    <3>3. WellCut(<<>>)
      BY DEF WellCut
    <3>4. WellCut(<<t, q>> \o <<>>)
      BY <2>2, <3>2, <3>3, TwoMore
    <3>5. <<t, q>> \o <<>> = <<t, q>>
      BY <2>2, <3>2
    <3>6. Cut(f, v) = <<t, q>>
      BY <1>2, <2>1, <2>3, <3>1 DEF Cut
    <3>7. QED
      BY <3>4, <3>5, <3>6
  <2>4. CASE End(v) # 0
    <3>1. PICK q : q = [is |-> "placeholder", tokens |-> SubSeq(After(v), 1, End(v) - 1)]
      OBVIOUS
    <3>2. q \in Piece /\ q.is # "text"
      BY <1>2, <2>4, <3>1, RestFits DEF Piece
    <3>3. WellCut(f[Rest(v)])
      BY <1>2, <2>4, RestFits
    <3>4. Cut(f, v) = <<t, q>> \o f[Rest(v)]
      BY <1>2, <2>1, <2>4, <3>1 DEF Cut
    <3>5. QED
      BY <2>2, <3>2, <3>3, <3>4, TwoMore
  <2>5. QED
    BY <2>3, <2>4
<1>3. QED
  BY <1>1, <1>2

LEMMA PiecesWellCut ==
    \A v \in Values : WellCut(Pieces[v])
<1> DEFINE Bad == {k \in Nat : \E v \in Values : Len(v) = k /\ ~WellCut(Pieces[v])}
<1>1. SUFFICES ASSUME NEW v \in Values, ~WellCut(Pieces[v])
               PROVE  FALSE
  OBVIOUS
<1>2. Bad # {} /\ Bad \subseteq Nat
  <2>1. Len(v) \in Nat
    BY DEF Values
  <2>2. QED
    BY <1>1, <2>1
<1>3. PICK k \in Bad : \A i \in Bad : k <= i
  BY <1>2, Least
<1>4. PICK w \in Values : Len(w) = k /\ ~WellCut(Pieces[w])
  OBVIOUS
<1>5. ASSUME NEW x \in Values, Len(x) < Len(w)
      PROVE  WellCut(Pieces[x])
  <2>1. Len(x) \in Nat /\ Len(x) \notin Bad
    BY <1>3, <1>4, <1>5 DEF Values
  <2>2. QED
    BY <2>1
<1>6. WellCut(Cut(Pieces, w))
  BY <1>5, CutWell
<1>7. QED
  BY <1>4, <1>6, PiecesCut

-----------------------------------------------------------------------------
(* Rendering                                                               *)

\* What was validated is rendered without a placeholder.
LEMMA RenderedClean ==
    ASSUME NEW v \in Values, ValidatePlaceholders(v), NEW vm, NEW S, Tokens \subseteq S,
           vm.hostname \in Seq(S), vm.key \in Seq(S),
           Unbraced(vm.hostname), Unbraced(vm.key)
    PROVE  Index(Render(v, vm), Open) = 0
<1>1. PICK p : p = Pieces[v]
  OBVIOUS
<1>2. WellCut(p)
  BY <1>1, PiecesWellCut
<1>3. PICK n : n = Len(p)
  OBVIOUS
<1>4. n \in Nat /\ DOMAIN p = 1..n /\ \A i \in 1..n : p[i] \in Piece
  BY <1>2, <1>3 DEF WellCut
<1>5. PICK s : s = [i \in 1..n |-> RenderedPiece(p[i], vm)]
  OBVIOUS
<1>6. ASSUME NEW i \in 1..n
      PROVE  s[i] \in Seq(S) /\ Clean(s[i]) /\ (i < n => ~EndsOpen(s[i]))
  <2>1. s[i] = RenderedPiece(p[i], vm)
    BY <1>5
  <2>2. p[i] \in Piece /\ p[i].is # "open"
        /\ (p[i].is = "placeholder" => TrimSpace(p[i].tokens) \in Supported)
    BY <1>1, <1>4 DEF ValidatePlaceholders
  <2>3. CASE p[i].is = "text"
    <3>1. s[i] = p[i].tokens
      BY <2>1, <2>3 DEF RenderedPiece
    <3>2. p[i].tokens \in Seq(S)
      BY <2>2 DEF Piece, Values
    <3>3. QED
      BY <1>2, <1>3, <2>3, <3>1, <3>2 DEF WellCut
  <2>4. CASE p[i].is = "placeholder"
    <3>1. TrimSpace(p[i].tokens) = <<"host">> \/ TrimSpace(p[i].tokens) = <<"key">>
      BY <2>2, <2>4 DEF Supported
    <3>2. <<"host">> # <<"key">>
      OBVIOUS
    <3>3. s[i] = vm.hostname \/ s[i] = vm.key
      BY <2>1, <2>4, <3>1, <3>2 DEF RenderedPiece
    <3>4. QED
      BY <3>3, UnbracedClean
  <2>5. QED
    BY <2>2, <2>3, <2>4 DEF Piece
<1>7. s \in [1..n -> Seq(S)]
  BY <1>5, <1>6
<1>8. Clean(FlattenSeq(s))
  BY <1>4, <1>6, <1>7, FlattenClean
<1>9. Render(v, vm) = FlattenSeq(s)
  BY <1>1, <1>4, <1>5 DEF Render
<1>10. QED
  BY <1>8, <1>9, CleanIndex

\* The hostnames are words of letters and the dash.
Letters == STRING \cup Tokens \cup {"-", "ws", "sshkey"}

LEMMA WantedWords ==
    ASSUME FlowInv, Stored, request = Wanted, NEW p \in Places(request)
    PROVE  Requested(p).hostname \in Seq(Letters) /\ Requested(p).key = <<"sshkey">>
<1>1. CASE p = Desk
  <2>1. Requested(p) = Workstation
    BY <1>1 DEF Requested
  <2>2. "ws" \in Letters
    BY DEF Letters
  <2>3. <<"ws">> \in Seq(Letters)
    BY <2>2
  <2>4. QED
    BY <2>1, <2>3 DEF Workstation
<1>2. CASE p # Desk
  <2>1. PICK c, n :
            /\ c \in DOMAIN Scenario.clusters
            /\ n \in DOMAIN Scenario.clusters[c].nodes
            /\ p = <<c, n>> /\ Requested(p) = request[c].nodes[n]
    BY <1>2, PlaceOfNode
  <2>2. PICK x : x = Scenario.clusters[c]
    OBVIOUS
  <2>3. x.id \in Name /\ x.nodes \in NodeRows
    <3>1. Scenario.clusters \in Seq([id : Name, context : Name, nodes : NodeRows])
      BY TopologyOfFiles DEF ClusterRows
    <3>2. x \in [id : Name, context : Name, nodes : NodeRows]
      BY <2>1, <2>2, <3>1, ElementOf
    <3>3. QED
      BY <3>2
  <2>4. x.nodes[n].id \in Name
    <3>1. x.nodes \in Seq([id : Name, role : STRING, template : STRING])
      BY <2>3 DEF NodeRows
    <3>2. x.nodes[n] \in [id : Name, role : STRING, template : STRING]
      BY <2>1, <2>2, <3>1, ElementOf
    <3>3. QED
      BY <3>2
  <2>5. Requested(p).hostname = x.id \o <<"-">> \o x.nodes[n].id
        /\ Requested(p).key = <<"sshkey">>
    BY <2>1, <2>2, WantedNode DEF Hostname
  <2>6. x.id \in Seq(Letters) /\ x.nodes[n].id \in Seq(Letters) /\ <<"-">> \in Seq(Letters)
    BY <2>3, <2>4 DEF Name, Letters
  <2>7. QED
    BY <2>5, <2>6
<1>3. QED
  BY <1>1, <1>2

\* Whatever values the clone profiles have, if the server took them at its start
\* then no VM is configured with a placeholder left in it: the loops of
\* validatePlaceholders and renderProfileValue cut every value in the same way,
\* and no braces meet where a piece was put in.
THEOREM NoPlaceholderLeft == Spec => []ConfigIsRendered
<1>1. ASSUME FlowInv, NEW p \in DOMAIN sent, Unbraced(Requested(p).hostname)
      PROVE  Index(sent[p], Open) = 0
  <2>1. CASE sent = <<>>
    BY <1>1, <2>1
  <2>2. CASE Stored /\ request = Wanted /\ Profiled /\ sent = Configs
    <3>1. p \in Places(request)
          /\ sent[p] = Render(profiles[Requested(p).template].value, Requested(p))
          /\ request = Wanted
      BY <1>1, <2>2 DEF Configs
    <3>2. PICK v : v = profiles[Requested(p).template].value
      OBVIOUS
    <3>3. Requested(p).template \in DOMAIN profiles
      BY <2>2, <3>1 DEF Profiled
    <3>4. v \in Values
      BY <1>1, <3>2, <3>3, RepositoryAssumption DEF FlowInv, Values
    <3>5. ValidatePlaceholders(v)
      BY <1>1, <3>2, <3>3 DEF FlowInv, LoadCloneProfiles, Admitted,
             ValidateProfileConfig
    <3>6. Requested(p).hostname \in Seq(Letters) /\ Requested(p).key = <<"sshkey">>
      BY <1>1, <2>2, <3>1, WantedWords
    <3>7. Requested(p).key \in Seq(Letters) /\ Unbraced(Requested(p).key)
      <4>1. "sshkey" \in Letters
        BY DEF Letters
      <4>2. "sshkey" # Open
        BY Zenon DEF Open
      <4>3. QED
        BY <3>6, <4>1, <4>2 DEF Unbraced
    <3>8. Tokens \subseteq Letters
      BY DEF Letters
    <3>9. Index(Render(v, Requested(p)), Open) = 0
      BY <1>1, <3>4, <3>5, <3>6, <3>7, <3>8, RenderedClean
    <3>10. QED
      BY <3>1, <3>2, <3>9
  <2>3. QED
    BY <1>1, <2>1, <2>2 DEF FlowInv
<1>2. FlowInv => ConfigIsRendered
  BY <1>1 DEF ConfigIsRendered
<1>3. QED
  BY <1>2, AlwaysFlowInv, PTL

=============================================================================
