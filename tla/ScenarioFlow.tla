---------------------------- MODULE ScenarioFlow ----------------------------
(***************************************************************************)
(* The way of a scenario from its files to the machines of a student: the  *)
(* importer stores it, provision_environment asks the provider for its VMs *)
(* and hands what it got to the provisioner, which writes vars.yaml for    *)
(* Ansible.  Every conversion on this way is modelled by what it does.     *)
(***************************************************************************)
EXTENDS ScenarioFiles, CloneProfiles

CONSTANTS
    Repository,     \* the files of a scenario: [scenario, checks, prompts]
    ProfilesFor(_)  \* the clone profiles that may be in use with such files

ASSUME RepositoryAssumption ==
    \A f \in Repository :
        /\ IsScenario(f.scenario) /\ f.checks \in CheckRows
        /\ \A p \in ProfilesFor(f) :
                \A name \in DOMAIN p : p[name].value \in Seq(Tokens)

VARIABLES
    stage,      \* how far the scenario has come
    files,      \* the scenario's files
    profiles,   \* the clone profiles
    rows,       \* the rows the importer wrote: topology, tasks, checks
    request,    \* the clusters that were asked for, with their nodes
    sent,       \* the rendered config of each VM, by its place
    result,     \* the clusters that the provider returned, with their nodes
    playbook    \* vars.yaml

vars == <<stage, files, profiles, rows, request, sent, result, playbook>>

Stages == {"repository", "rejected", "half", "stored", "requested", "refused",
           "built", "configured"}

NoRows == [topology |-> <<>>, tasks |-> {}, checks |-> {}]

Init ==
    /\ stage = "repository"
    /\ files \in Repository
    /\ profiles \in ProfilesFor(files)
    /\ LoadCloneProfiles(profiles)
    /\ rows = NoRows
    /\ request = <<>> /\ sent = <<>> /\ result = <<>> /\ playbook = <<>>

-----------------------------------------------------------------------------
(* Import                                                                  *)

\* parseScenario: both files are valid and every prompt can be read.
Parsed ==
    /\ Validate(files.scenario)
    /\ ValidateChecks(files.scenario, files.checks)
    /\ \A i \in DOMAIN files.scenario.tasks :
            files.scenario.tasks[i].prompt \in files.prompts

\* json.Marshal names the keys of the topology after the fields, and Unmarshal
\* looks for id, name, role, template and kube_context: it ignores the case of
\* a key, but KubeContext is not kube_context.
Decoded(cluster) == [cluster EXCEPT !.context = Empty]

\* importScenario, without failing statements.  taskUUIDs[c.TaskID] may miss.
Import ==
    /\ stage = "repository"
    /\ IF ~Parsed
         THEN stage' = "rejected" /\ UNCHANGED rows
         ELSE LET s == files.scenario
                  missed == {i \in DOMAIN files.checks :
                                files.checks[i].task \notin Ids(s.tasks)}
              IN  /\ stage' = IF missed = {} THEN "stored" ELSE "half"
                  /\ rows' = [topology |-> [i \in DOMAIN s.clusters |->
                                                    Decoded(s.clusters[i])],
                              tasks |-> Ids(s.tasks),
                              checks |-> {files.checks[i].id : i \in
                                  {j \in DOMAIN files.checks :
                                    \A k \in missed : j < k}}]
    /\ UNCHANGED <<files, profiles, request, sent, result, playbook>>

-----------------------------------------------------------------------------
(* Provisioning                                                            *)

\* Bug: the hostname without its dash.
HostnameRunTogether(cluster, node) == cluster.id \o node.id

Hostname(cluster, node) == cluster.id \o <<"-">> \o node.id

\* The workstation is asked for besides the clusters.
Workstation == [hostname |-> <<"ws">>, template |-> "workstation", key |-> <<"sshkey">>]

NodeRequest(cluster, n) ==
    [hostname |-> Hostname(cluster, cluster.nodes[n]),
     template |-> cluster.nodes[n].template, key |-> <<"sshkey">>]

ClusterRequest(cluster) ==
    [name |-> cluster.id,
     nodes |-> [n \in DOMAIN cluster.nodes |-> NodeRequest(cluster, n)]]

\* The specification that CreateEnvironment gets.
Request ==
    /\ stage = "stored"
    /\ stage' = "requested"
    /\ request' = [c \in DOMAIN rows.topology |-> ClusterRequest(rows.topology[c])]
    /\ UNCHANGED <<files, profiles, rows, sent, result, playbook>>

\* The places of the VMs in a request, and the VM that is asked for at one.
Desk == <<0, 0>>
Places(clusters) ==
    {Desk} \cup UNION {{<<c, n>> : n \in DOMAIN clusters[c].nodes} : c \in DOMAIN clusters}
Requested(p) == IF p = Desk THEN Workstation ELSE request[p[1]].nodes[p[2]]

\* CreateEnvironment: without a profile for every template nothing is cloned;
\* else each VM is built, with an address of its own, and the result has the
\* clusters and nodes in the order of the request.
CreateEnvironment ==
    /\ stage = "requested"
    /\ IF \A p \in Places(request) : Requested(p).template \in DOMAIN profiles
         THEN /\ stage' = "built"
              /\ sent' = [p \in Places(request) |->
                            Render(profiles[Requested(p).template].value, Requested(p))]
              /\ result' = [c \in DOMAIN request |->
                    [name |-> request[c].name,
                     nodes |-> [n \in DOMAIN request[c].nodes |->
                        [hostname |-> request[c].nodes[n].hostname, ip |-> <<c, n>>]]]]
         ELSE stage' = "refused" /\ UNCHANGED <<sent, result>>
    /\ UNCHANGED <<files, profiles, rows, request, playbook>>

\* Bug: every node of a cluster gets the address of the first.
NodeSpecsFirst(cluster) ==
    [n \in DOMAIN cluster.nodes |->
        [hostname |-> cluster.nodes[n].hostname, ip |-> cluster.nodes[1].ip, role |-> ""]]

\* NodeSpec has a role, which the loop over a cluster of the result does not set.
NodeSpecs(cluster) ==
    [n \in DOMAIN cluster.nodes |->
        [hostname |-> cluster.nodes[n].hostname, ip |-> cluster.nodes[n].ip, role |-> ""]]

\* GenerateVars over what the job passes on: it walks the provider's result, and
\* takes the context from the topology by the same index.
Provision ==
    /\ stage = "built"
    /\ stage' = "configured"
    /\ playbook' = [i \in DOMAIN result |->
                      [name |-> result[i].name,
                       context |-> rows.topology[i].context,
                       nodes |-> NodeSpecs(result[i])]]
    /\ UNCHANGED <<files, profiles, rows, request, sent, result>>

Next == Import \/ Request \/ CreateEnvironment \/ Provision

Spec == Init /\ [][Next]_vars

-----------------------------------------------------------------------------
(* Properties                                                              *)

\* Validation looks ahead for the importer: no accepted scenario stops it half
\* way through the rows, at a check whose task it did not write
\* (validate.go:110, importer.go:187).  A half import is never taken up again.
AcceptedIsImported ==
    /\ stage # "half"
    /\ stage \notin {"repository", "rejected"} =>
            rows.tasks = Ids(files.scenario.tasks) /\ rows.checks = Ids(files.checks)

\* Ansible and Proxmox know a VM by its hostname.  Two nodes of an environment
\* share one only when they are of two clusters, and the id of one goes on, after
\* a dash, from the id of the other: validation of ids and names does the rest
\* (validate.go:33-50, provision_job.go:121).
HostnamesCollideAtDash ==
    \A p, q \in Places(request) \ {Desk} :
        p # q /\ Requested(p).hostname = Requested(q).hostname =>
            LET x == rows.topology[p[1]].id
                y == rows.topology[q[1]].id
            IN  IsPrefix(x \o <<"-">>, y) \/ IsPrefix(y \o <<"-">>, x)

\* No VM is configured with a placeholder in it: what the loop that validates
\* lets pass, the other loop replaces (config.go:90-110, provider.go:54-82).
\* Braces of the scenario's own names, which no one looks for, stay.
ConfigIsRendered ==
    \A p \in DOMAIN sent :
        Unbraced(Requested(p).hostname) => Index(sent[p], Open) = 0

\* vars.yaml names every node of the scenario under its cluster, with its hostname
\* and the address of the VM that was cloned for it, after the names went through
\* topology, request and result (importer.go:145, provision_job.go:120-194).
EveryNodeConfigured ==
    stage = "configured" =>
        \A c \in DOMAIN files.scenario.clusters :
            LET cluster == files.scenario.clusters[c]
                listed == playbook[c]
            IN  /\ c \in DOMAIN playbook
                /\ listed.name = cluster.id
                /\ DOMAIN listed.nodes = DOMAIN cluster.nodes
                /\ \A n \in DOMAIN cluster.nodes :
                        /\ listed.nodes[n].hostname = Hostname(cluster, cluster.nodes[n])
                        /\ listed.nodes[n].ip = <<c, n>>
=============================================================================
