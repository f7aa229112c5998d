--------------------------- MODULE MCScenarioFlow ---------------------------
(***************************************************************************)
(* Bounded inputs for ScenarioFlow: many topologies with few tasks, few    *)
(* topologies with many tasks and checks, and many values of a profile.    *)
(***************************************************************************)
EXTENDS ScenarioFlow

UpTo(n, S) == UNION {[1..k -> S] : k \in 0..n}

Node(id, role, template) == [id |-> id, role |-> role, template |-> template]
Nodes == {Node(<<"c">>, "Control-Plane", "node"), Node(<<"b", "-", "c">>, "worker", "node"),
          Node(<<"b", "c">>, "WORKER", "other"),
          Node(<<"c">>, "etcd", "node"), Node(Empty, "worker", "node")}

One == [id |-> <<"a">>, context |-> <<"k">>, nodes |-> <<Node(<<"c">>, "worker", "node")>>]
Other == [One EXCEPT !.id = <<"b">>]

Clusters == [id : {<<"a">>, <<"a", "b">>, <<"a", "-", "b">>},
             context : {<<"k">>}, nodes : UpTo(2, Nodes)]
            \cup {[One EXCEPT !.id = Empty]}

Task(id, cluster, points) == [id |-> id, cluster |-> cluster, points |-> points, prompt |-> "p"]
Check(id, task, cluster, points) ==
    [id |-> id, task |-> task, cluster |-> cluster, type |-> "script", command |-> "c",
     points |-> points]

Tasks == {Task(id, cluster, 1) : id \in {Empty, <<"t">>, <<"u">>}, cluster \in {<<"a">>, <<"z">>}}
         \cup {Task(<<"t">>, <<"a">>, 0), [Task(<<"t">>, <<"a">>, 1) EXCEPT !.prompt = "lost"],
               [Task(<<"t">>, <<"a">>, 1) EXCEPT !.prompt = ""]}
Checks == {Check(id, task, <<"a">>, 1) : id \in {Empty, <<"1">>, <<"2">>}, task \in {<<"t">>, <<"z">>}}
          \cup {Check(<<"1">>, <<"t">>, <<"b">>, 1), Check(<<"1">>, <<"t">>, <<"a">>, 0)}

Scenario(clusters, tasks) ==
    [id |-> <<"s">>, title |-> <<"s">>, duration |-> 1, window |-> 1, attempts |-> 1,
     clusters |-> clusters, tasks |-> tasks]

Files(scenario, checks) == [scenario |-> scenario, checks |-> checks, prompts |-> {"p"}]

OneTask == <<Task(<<"t">>, <<"a">>, 1)>>
TwoTasks == <<Task(<<"t">>, <<"a">>, 1), Task(<<"u">>, <<"b">>, 1)>>
OneCheck == <<Check(<<"1">>, <<"t">>, <<"a">>, 1)>>
Sound == Files(Scenario(<<One>>, OneTask), OneCheck)
\* Nothing keeps braces out of a name.
Braced == [Sound EXCEPT !.scenario.clusters[1].nodes[1].id = <<Open, Open>>]

Library ==
    {Files(Scenario(clusters, OneTask), OneCheck) : clusters \in UpTo(2, Clusters)}
    \cup {Files(Scenario(<<One, Other>>, tasks), OneCheck) : tasks \in UpTo(2, Tasks)}
    \cup {Files(Scenario(<<One, Other>>, TwoTasks), checks) : checks \in UpTo(2, Checks)}
    \cup {Sound, Braced,
          [Sound EXCEPT !.scenario.clusters[1].nodes[1].role = "control-plane"],
          [Sound EXCEPT !.scenario.id = Empty], [Sound EXCEPT !.scenario.title = Empty],
          [Sound EXCEPT !.scenario.duration = 0], [Sound EXCEPT !.scenario.window = 0],
          [Sound EXCEPT !.scenario.attempts = 0]}

\* Values of up to five parts, and some with two placeholders.
Parts == {<<"{", "{">>, <<"}", "}">>, <<"{">>, <<" ">>, <<"host">>, <<"text">>}
Values(n) == {FlattenSeq(parts) : parts \in UpTo(n, Parts)}
             \cup {<<"text", "{", "{", " ", "key", "}", "}", "{", "{", word, "}", "}">> :
                    word \in {"host", "text"}}

Profile(value) == [template |-> 100, cloneMode |-> "", key |-> "sshkeys", value |-> value]
Plain == [name \in {"workstation", "node"} |-> Profile(<<"text">>)]
Spare == {[key |-> key, value |-> value] :
            key \in {"sshkeys", "ipconfig0", "cipublickey"},
            value \in {<<"text">>, <<"text", "bridge=", "text">>}}
Profiles(f) ==
    CASE f = Sound -> {[Plain EXCEPT !["node"].value = value] : value \in Values(5)}
                      \cup {[Plain EXCEPT !["node"].key = spare.key, !["node"].value = spare.value] :
                                spare \in Spare}
                      \cup {[name \in {"workstation", "node", " "} |-> Plain["node"]]}
      [] f = Braced -> {[Plain EXCEPT !["node"].value = <<Open, Open, "host", Close, Close>>]}
      [] OTHER -> {Plain}
=============================================================================
