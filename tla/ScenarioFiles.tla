--------------------------- MODULE ScenarioFiles ---------------------------
(***************************************************************************)
(* internal/scenarios: what scenario.yaml and checks.yaml say, and what    *)
(* Validate and ValidateChecks demand of them.  Ids and names are          *)
(* sequences of letters, since hostnames are put together from them.       *)
(***************************************************************************)
EXTENDS Integers, Sequences

Empty == <<>>

\* What the YAML decoder makes of the two files.  The field id of a node is its
\* name, and context is kube_context.
Name == Seq(STRING)
NodeRows == Seq([id : Name, role : STRING, template : STRING])
ClusterRows == Seq([id : Name, context : Name, nodes : NodeRows])
TaskRows == Seq([id : Name, cluster : Name, points : Int, prompt : STRING])
CheckRows == Seq([id : Name, task : Name, cluster : Name, type : STRING,
                  command : STRING, points : Int])

IsScenario(s) ==
    /\ s.id \in Name /\ s.title \in Name
    /\ s.duration \in Int /\ s.window \in Int /\ s.attempts \in Int
    /\ s.clusters \in ClusterRows /\ s.tasks \in TaskRows

Roles == {"control-plane", "worker"}

\* strings.ToLower on the casings of the two roles; another word stays no role.
ToLower(role) ==
    CASE role \in {"control-plane", "Control-Plane", "Control-plane", "CONTROL-PLANE"} ->
            "control-plane"
      [] role \in {"worker", "Worker", "WORKER"} -> "worker"
      [] OTHER -> role

\* Row i is the first with its id: the map of the ids seen so far lacks it.
Unseen(rows, i) == \A j \in 1..(i - 1) : rows[j].id # rows[i].id
Ids(rows) == {rows[i].id : i \in DOMAIN rows}

ValidNode(nodes, i) ==
    /\ nodes[i].id # Empty
    /\ Unseen(nodes, i)
    /\ ToLower(nodes[i].role) \in Roles
    /\ nodes[i].template # ""

ValidCluster(clusters, i) ==
    /\ clusters[i].id # Empty
    /\ Unseen(clusters, i)
    /\ clusters[i].nodes # <<>>
    /\ \A j \in DOMAIN clusters[i].nodes : ValidNode(clusters[i].nodes, j)

ValidTask(s, i) ==
    /\ s.tasks[i].id # Empty
    /\ Unseen(s.tasks, i)
    /\ s.tasks[i].cluster \in Ids(s.clusters)
    /\ s.tasks[i].points > 0
    /\ s.tasks[i].prompt # ""

\* The id, the title and the three numbers of a scenario.
ValidHead(s) ==
    /\ s.id # Empty /\ s.title # Empty
    /\ s.duration > 0 /\ s.window > 0 /\ s.attempts > 0

Validate(s) ==
    /\ ValidHead(s)
    /\ s.clusters # <<>>
    /\ \A i \in DOMAIN s.clusters : ValidCluster(s.clusters, i)
    /\ s.tasks # <<>>
    /\ \A i \in DOMAIN s.tasks : ValidTask(s, i)

\* Bug: the task that a check names is not looked up.
ValidCheckAnyTask(s, checks, i) ==
    /\ checks[i].id # Empty
    /\ Unseen(checks, i)
    /\ checks[i].cluster \in Ids(s.clusters)
    /\ checks[i].type # "" /\ checks[i].command # ""
    /\ checks[i].points > 0

ValidCheck(s, checks, i) ==
    /\ checks[i].id # Empty
    /\ Unseen(checks, i)
    /\ checks[i].task \in Ids(s.tasks)
    /\ checks[i].cluster \in Ids(s.clusters)
    /\ checks[i].type # "" /\ checks[i].command # ""
    /\ checks[i].points > 0

ValidateChecks(s, checks) ==
    /\ checks # <<>>
    /\ \A i \in DOMAIN checks : ValidCheck(s, checks, i)
=============================================================================
