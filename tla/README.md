# Painkiller: TLA+ models and proofs

Painkiller sells hands-on exams. A student buys a test, requests an attempt, gets
VMs provisioned for it, works in a terminal over a WebSocket, submits, and is graded
by checks that run over SSH; the VMs are then destroyed. One Go process serves HTTP,
runs River job workers and a reconciler, and keeps everything in PostgreSQL.

This directory models that statement by statement: the life of an attempt, the way of
a scenario on offer and into a student's purchases, the Proxmox provider request by
request, and what becomes of a scenario's data on its way to Ansible. It checks the
models with TLC on small instances and proves what matters most with TLAPS for every
instance.

- [Inventory](#inventory) of the system
- [Modules](#modules) and how they correspond to the code
- [Abstractions](#abstractions), [runs](#runs), [bounds](#bounds), [fairness](#fairness)
- [Proofs](#proofs)
- [What the code does that the documents do not say](#disagreements)
- [Not modelled](#not-modelled) and the [plan](#plan)

## Inventory

| Component | State it keeps | Operations | Talks to |
|---|---|---|---|
| Attempt state machine (`models/status.go`, `attempts/statemachine.go`) | none: a table | `ValidTransition` | attempt service |
| Attempt service (`attempts/`) | `attempts.status`, `purchased_tests.attempts_remaining` | `RequestAttempt`, `SubmitAttempt`, `HandleExpireAttempt`, `TransitionAttempt`, `RestoreAttemptCount` | store, queue; called by HTTP, workers, gateway, grader, orchestrator, admin |
| Job queue (`jobs/`, River) | rows of `river_job` | `Enqueue`, `EnqueueAt`, dispatch by kind, retry, discard, rescue | PostgreSQL; starts handlers |
| Orchestrator (`orchestrator/provision_job.go`) | `environments`, `sessions`, VMs | `provision_environment`, `cleanup_environment` | provider, provisioner, attempt service, queue |
| Reconciler (`orchestrator/reconciler.go`) | none of its own | a tick every 60 s: stale provisioning, attempts to clean up | attempt service, queue |
| Grading engine (`grading/`) | `attempts.score` | `grade_attempt` | attempt service, workstation over SSH, queue |
| Terminal gateway (`terminal/`) | `sessions.first_opened_at` | one WebSocket connection | attempt service, workstation over SSH |
| Administration (`admin/`) | `tests`, `products` | retry-provision, retry-grade, destroy; create, update and delete a test | attempt service, queue, store |
| Billing (`billing/`) | `purchased_tests` | checkout session, webhook, free purchase | Stripe, store |
| Proxmox provider (`provider/proxmox/`) | the VMs of the cluster; clone profiles read once | `CreateEnvironment`, `DestroyEnvironment`, `LoadCloneProfiles` | Proxmox REST API; called by the orchestrator |
| Provisioner (`provisioner/ansible/`) | a temporary directory | `Provision`: writes `vars.yaml` and the inventory | `ansible-playbook` |
| Scenario importer and validation (`importer/`, `scenarios/`) | `scenario_versions`, `tasks`, `checks`, `products`, `tests` | import of a YAML scenario by the server and by `cmd/import-scenarios` | store |
| Authentication (`auth/`) | `users` | register, login, JWT | store |
| Views (`scoring/`, `entitlements/`, `catalog/`), web frontend | none | read-only | store |

Components share rows, never memory: every handler reads and writes PostgreSQL with
single statements, without transactions or locks, and the only messages are River
jobs. So what is hard is what happens *between* two statements:

- **Interleaving.** `TransitionAttempt` reads the status in one statement, validates
  it, and updates it unconditionally in another. Two handlers can both pass.
- **Redelivery.** A job that returned an error, or ran while the process died, runs
  again from its beginning, over rows its first run already changed.
- **Partial failure.** Each handler is a row of statements, and each of them can
  fail; half of the errors are returned to River, half are only logged.
- **Cancelled contexts.** A job past River's timeout, or a request whose client left,
  has a context on which every later statement fails, those of its error path too.
- **A second supervisor.** The reconciler acts on the same attempts as the jobs,
  judging by the age of the attempt and not of the job.
- **Ids that come back.** An environment's row keeps the ids of its VMs after they are
  deleted, and Proxmox gives the ids to VMs of other attempts.

What makes the components correct:

- *Attempt service*: a purchase is never overdrawn, and never yields more usable
  attempts than were bought; the statuses of an attempt only go where they may.
- *Orchestrator*: an attempt is shown as ready only when its environment and session
  exist; its VMs are there while it is used; provisioning ends one way or the other.
- *Grading engine*: only an ended attempt is graded, it is graded in the end, and
  its score does not change afterwards.
- *Reconciler*: what failed half-way is finished, and environments are reclaimed.
- *Billing*: who paid is served, and what was sold stays. *Catalogue*: a product that
  can be sold can still be sold after any mix of updates. *Importer*: a test never
  points at half a scenario, and a scenario gets on offer once.
- *Provider*: a returned environment has VMs of its own, whole and running, until its
  destruction is asked for, and a destruction leaves nothing behind.
- *Validation, profiles, variables*: what one loop accepts the next one can handle, and
  no node of a scenario is lost or mixed up on its way to Ansible.

Every hazard, with its line and the property that would catch it, is in
`PROJECT.json` under `hazards`.

## Modules

```
AttemptStatus            statuses and the transition table
  Platform               rows, queue, handlers, River, crash, TransitionAttempt
    AttemptService       request, submit, expire
    Orchestrator         provision, cleanup, reconciler
    TerminalGateway      a connection
    GradingEngine        a grading job
    AdminControls        retry-provision, retry-grade, destroy
      Lifecycle          all of them over the same rows; fairness; properties
        MCLifecycle      budgets and symmetry for TLC
        LifecycleProofs  type correctness, the count, sessions
          GradingProofs  grading follows the end of the exam
          AccountProofs  the purchase pays for what is given out
            LifeProofs   no cleanup of its own takes a machine, what ended stays ended
              OnceProofs one score; Lifecycle implements AttemptLife
AttemptLife              what a student is promised; Lifecycle implements it

Shop                     rows, keys and handlers of import, catalogue and billing
  Importer               importing a scenario
  TestAdmin              createTest, updateTest, deleteTest
  Billing                checkout, webhook, free purchase
    Storefront           all of them over the same rows; fairness; properties
      MCStorefront       budgets for TLC
      StorefrontProofs   types; offers, imports, sales, sellable products

Provider                 what internal/provider promises its caller
Proxmox                  the requests to a cluster; Proxmox implements Provider
  MCProxmox              budget and symmetry for TLC
  ProxmoxProofs          types; returned is whole, destroyed is gone; implements Provider

ScenarioFiles            Validate and ValidateChecks
CloneProfiles            LoadCloneProfiles, validatePlaceholders, renderProfileValue
  ScenarioFlow           import, request, creation, vars.yaml; properties
    MCScenarioFlow       a library of scenario files and profiles
    ScenarioProofs       rows complete, hostnames apart, every node configured
```

Two modules are abstract specifications, stated without handlers, jobs or requests, and
a detailed one is shown to implement each with `INSTANCE ... WITH`:

- `AttemptLife` is an attempt as its student sees it: phases that only go forward, a
  machine that nothing of the attempt's own takes from the moment it is handed out until
  it is graded, and one result. The machine may be lost before, but only to the cleanup of
  an attempt that failed or was graded. In `Lifecycle`, `phase` is a function of `status`,
  `machine` (`MachineOf`) of the environments of the attempt, their sessions and VMs, and
  `result` is the score that `GET /attempts/{attemptID}/score` shows (`KeepsLife`).
- `Provider` is an environment as the orchestrator sees it: built or failed, up, going,
  and gone or left behind; and broken, once something was destroyed a second time. In
  `Proxmox`, the state is a function of the VMs, the stored ids and the calls under way
  (`KeepsPromise`).

`Provider` is what `Orchestrator` relies on when it takes a creation or a destruction for
one step. The first destruction of an environment takes its own VMs. A second one acts on
ids that may be somebody else's by then, and `Provider` allows any environment that is
being built or up to break from then on. So in `Destroys` it reaches any set of the
environments that are up (`Reached`), of which the code can reach those built since: the
step in `Orchestrator` can do all that the calls do, and more. An environment that was
reached is `lost`, of its VMs some or all.

### The life of an attempt

A **handler** is an element of `Workers` (a River worker slot), `Requests` (an HTTP
request) or the `Reconciler`. `call[h]` is what it is doing: which operation (`op`),
between which two statements (`at`), and its local variables (`attempt`, `env`, the
argument and the error of `TransitionAttempt`, the computed `result`, and whether
its context is `live`). One action is one database statement or one call to the
provider, with the code up to the next one.

| Variable | In the code |
|---|---|
| `remaining` | `purchased_tests.attempts_remaining` of the one purchase |
| `status`, `score` | the columns of `attempts`; `None`: no row / NULL |
| `ended` | history: the attempt was once submitted or expired |
| `aged` | `created_at` is more than 30 minutes ago |
| `owner`, `envStatus` | `environments.attempt_id` and `.status` |
| `vm` | the group of VMs that `CreateEnvironment` made for an environment: none yet, up, gone with its own destruction, or lost to another's |
| `session` | a row of `sessions`: without or with `first_opened_at` |
| `queue` | how many jobs of a kind wait for an attempt |
| `budget` | what is left of the failures and events the run allows |

| Code | Actions |
|---|---|
| `service.go` RequestAttempt | `RequestStart`, `RequestDecrement`, `RequestCreate`, `RequestEnqueue`, `RequestRestore` |
| `service.go` TransitionAttempt | `CallTransition`, `StatusRead`, `StatusWrite`, then the caller's `...Transitioned` |
| `submit.go` | `SubmitStart`, `SubmitTransitioned`, `SubmitEnqueue` |
| `expire.go` | `ExpireStart`, `ExpireTransitioned`, `ExpireEnqueue` |
| `provision_job.go` handleProvisionEnvironment | `ProvisionStart`, `ProvisionBuild`, `ProvisionRecord`, `ProvisionConfigure`, `ProvisionSession`, `ProvisionTransitioned` |
| `provision_job.go` handleProvisionFailure | `ProvisionFailureRecorded`, `ProvisionFailureEnqueue`, `RestoreAttemptCount` |
| `provision_job.go` handleCleanupEnvironment | `CleanupStart`, `CleanupDestroying`, `CleanupDestroy`, `CleanupMarkFailed`, `CleanupDestroyed`, `CleanupTransitioned` |
| `reconciler.go` | `ReconcileStale`, `ReconcileTerminal`, `ReconcileTransitioned`, `ReconcileEnqueue` |
| `engine.go` GradeAttempt | `GradeStart`, `GradeTransitioned`, `GradeLoad`, `GradeChecks`, `GradeSave`, `GradeScored`, `GradeEnqueue` |
| `gateway.go` | `OpenStart`, `OpenAdmit`, `OpenStamp`, `OpenTransitioned` |
| `admin/handler.go` | `RetryProvisionStart`, `RetryProvisionTransitioned`, `RetryProvisionEnqueue`, `RetryGrade`, `ForceDestroy` |
| River | `StartJob`, `CompleteJob`, `RetryJob`, `DiscardJob`, `Cancel`, `Crash` |

### The storefront

A handler is one of `Importers` (the server at its start, the command) or `Requests`.
`call[h]` is again its operation, the statement it is before and its local variables;
`seen` is the product row that `updateTest` read.

| Variable | In the code |
|---|---|
| `stored` | a row of `scenario_versions`, with how many of its `tasks` and `checks` |
| `product`, `test` | rows of `products` and `tests`; a deleted row is `gone` |
| `sold` | how many rows of `purchased_tests` a test has |
| `bought` | how many of them were made for a checkout session |
| `session` | a checkout session at Stripe: open, paid, or its event answered with 200 |
| `budget` | failures, administrator's and free requests, and redeliveries left |

| Code | Actions |
|---|---|
| `importer.go` importScenario | `ImportStart`, `ImportVersion`, `ImportPart`, `ImportLookup`, `ImportProduct`, `ImportTest` |
| `admin/handler.go` createTest, updateTest, deleteTest | `CreateTest`; `UpdateStart`, `UpdateRead`, `UpdateProduct`; `DeleteStart`, `DeleteCheck`, `DeleteCommit` |
| `billing/service.go` CreateCheckoutSession | `CheckoutStart`, `CheckoutSession` |
| `billing/webhook.go`, HandleCheckoutCompleted | `WebhookStart`, `WebhookInsert` |
| `billing/service.go` CreateFreePurchase | `FreeStart`, `FreeInsert` |
| Stripe, the student, the process | `Pay`; `Die` |

### The Proxmox provider

| Variable | In the code |
|---|---|
| `power`, `of`, `config` | a VM of the cluster: its power state, for which environment it was cloned (history), whose hostname and key it has |
| `begun`, `asked` | history: creations and destructions that were asked for |
| `meta` | `environments.provider_metadata`: the ids that `CreateEnvironment` returned |
| `call` | what a worker slot does: the machine it is at, its id, the clones refused so far, the ids so far, whether its context is live |

| Code | Actions |
|---|---|
| `provider.go` CreateEnvironment | `CreateStart`, then for each machine the next row, workstation first |
| `client.go` NextVMID, cloneVMWithID, waitForTask, ConfigureVM, StartVM, waitForIP | `NextVMID`, `CloneVM`, `Cloned`, `ConfigureVM`, `StartVM`, `WaitForIP` |
| `provider.go` DestroyEnvironment | `DestroyStart`, then `StopVM`, `DeleteVM` for each machine, workstation last |
| the cluster, the job's context, the process | `Removed`, `RemovalFails`; `Cancel`; `Crash` |

### The scenario's data

`ScenarioFlow` is a pipeline of four steps over one scenario: `Import` (parse, validate,
marshal), `Request` (the loop of `provision_job.go` over the stored topology),
`CreateEnvironment` (profiles and rendering), `Provision` (the loop over the result, and
`GenerateVars`). What each step keeps and loses is the model; the properties compare its
end with its beginning. The request and the result are sequences of clusters with their
nodes, as `EnvironmentSpec` and `EnvironmentResult` are; `Provision` walks the result and
takes only the context from the topology, by the same index, as the code does. The config
that is sent for a VM is indexed by the VM's place in the request, `<<cluster, node>>`, or
`Desk` for the workstation, which is asked for besides the clusters.

Definitions that begin with a comment `Bug:` are not part of any specification. Each
is a definition of the model with a plausible mistake in it, and shows that the
property named with it in `PROJECT.json` notices that mistake.

## Abstractions

- **One purchase.** Purchases do not influence each other. Its owner and its expiry
  are checks that end a request without a change, so they are no steps.
- **A failed statement has no effect.** A commit whose acknowledgement is lost is not
  modelled for a single statement; `Crash` covers dying right after any commit.
- **A cancelled context** fails every later statement and provider call of its
  handler. It does not fail `RunCheck`, which ignores its context.
- **The provider's calls are one step**, with their partial outcomes:
  `CreateEnvironment` may fail and leave VMs behind; `DestroyEnvironment` may fail,
  or swallow a failed stop or delete and report success, as `provider.go` does; a second
  `DestroyEnvironment` may reach the VMs of any other environments (see above).
  Environment ids double as ids of VM groups, so an environment's VMs are `vm[e]`
  before its row exists.
- **The score** is `earned` or `zeroed`: what the checks find on a reachable
  workstation, or the 0 points every check gets when SSH fails.
- **A connection** is modelled from reading a session that was never opened to its
  last transition. A later connection changes no row. It may come as soon as the
  session row exists, a little before a student could know the token.
- **A reconciler tick** visits the attempts of its lists one by one; reading the list
  and starting on one of its attempts is one action. `TransitionAttempt` reads the
  status again.
- **Equal queued jobs** beyond `MaxQueued` are merged.
- **`DiscardJob`** stands for a job's 25th failure; it may come at any failure, within
  its budget.
- **`ExamTimer`** is external: it stands for the timer the documents describe. No
  code enqueues `expire_attempt`, but its handler is registered.
- **A shutdown** is a crash: `main.go` cancels the contexts and exits.

In the storefront:

- **A statement** works, is refused by a key, or fails without effect (`fault`). A
  handler can die between any two statements, within the same budget.
- **A new id** is the first unused one. Which id `uuid.New()` returns is no matter to
  anything here, so the choice is not left open.
- **The columns of a product** are its title, `is_free` and whether it has a price; of a
  test, its product and version. Titles and the three numbers that `updateTest` writes
  are left out. Prices are taken to be distinct, although `stripe_price_id` is unique.
- **`createTest` changes nothing**: it sets no `ScenarioVersionID`, so the foreign key
  refuses the test and the transaction takes the product back with it.
- **The parts of a scenario** are counted: the tasks, then the checks.
- **Stripe** delivers an event until it is answered with 200, and may deliver it again
  afterwards (`redeliver`). It never delivers the same event twice at one time; the run
  `duplicate_webhook` needs no more than one after the other.

In the provider:

- **A request and the wait for its task are one action**, except for a clone, whose id is
  taken when the request is accepted and whose task is waited for in another action.
- **An error may hide an effect**: the response was lost, polling timed out or failed.
- **Ids become free** only when the removal of a VM ends. A deleted VM's task is not
  waited for, so this happens at any later time, or the removal fails.
- **The cluster nodes, storage and network** of a VM are constants of the provider.

In the scenario's data: ids and names are sequences of letters, as hostnames are put
together from them; a value of a profile is a sequence of tokens, one for each word and
brace; a role is one of a few spellings; everything else is a number or a name. The
workstation's hostname, which holds a part of the attempt's id, is one word. No statement
fails in `Import`, and the column limits of the migrations (`VARCHAR`, `INTEGER`), which
could still stop an accepted scenario half way, are left out; that a statement fails half
way through an import is in `Storefront`.

## Runs

Deadlock is not checked: the attempts of a purchase, the ids and the budgets are used up
in the end, and the system stops.

| Run | Instance | Shows |
|---|---|---|
| `lifecycle` | 2 attempts on a purchase of 1, 2 environments, 2 workers, 1 request; any two of: one fault, one cancelled context, one crash | types; `SessionBeforeReady`, `EnvironmentUpWhileActive`, `ScoreFinal`, `NoReturnAfterEnd`; the refinement `KeepsLife` |
| `accounting` | 2 attempts, 2 concurrent requests, a purchase of 1; one fault, one crash | `AttemptsRemainingNonNegative`, `NoOverbooking` |
| `admin` | 2 workers; one administrator's action, one exam timer, one fault | `GradedOnlyAfterEnd` |
| `progress` | one cancelled context, half an hour passes | `ProvisioningResolves` |
| `reclaim` | one fault, one cancelled context, one discarded job | `ScoredReclaimed` |
| `expiry_race` | 2 workers, one exam timer | `EndedGetsScored` |
| `storefront` | 2 versions of one title, 2 products, 2 tests, 1 checkout; 2 importers, 2 requests; one fault or death, three administrator's or free requests | types; `OfferedIsComplete`, `ImportedOnce`, `SoldStays`, `SellableStays`, `PaidIsServed` |
| `proxmox` | 4 environments (one without a profile) of 2 VMs, 3 ids, 2 jobs; any two of: one fault, one cancelled context, one crash, one second destruction | types; `ReturnedIsWhole`, `DestroyedIsGone`; the refinement `KeepsPromise` |
| `scenario` | 12,612 combinations of scenario files and profiles | `AcceptedIsImported`, `HostnamesCollideAtDash`, `ConfigIsRendered`, `EveryNodeConfigured` |

What is behind them:

- `NoOverbooking` holds although the count is checked in one statement and decremented
  in another, because the decrement is conditional and its affected rows are looked
  at; and although a count is restored in two places, because a restored attempt is
  never given. That needs each refund to be of an attempt that cannot come back,
  which is so until an administrator retries it (see Disagreements).
- `ScoreFinal` and `GradedOnlyAfterEnd` hold because `engine.go:52` refuses to go on
  when its transition is refused. The same guard leaves attempts in `grading`
  (`stuck_grading`): the code trades liveness for safety here.
- `EndedGetsScored` in `expiry_race` is delicate. A submission and an expiry can both
  pass the check for `running`, and the later write takes the status back from
  `grading` or even `scored`. Then the first job's transition to `scored` fails
  (`submitted -> scored` is not in the table), or it is done; either way it takes the
  second grading job, or River's retry, to score the attempt. The mutant that
  enqueues the second job only if none waits or runs breaks it.
- `ScoredReclaimed` relies on the reconciler alone, since an error of the grader's
  `Enqueue` is only logged and a cleanup that cannot read its environment ends well.
- `ProvisioningResolves` in `progress` loses a provisioning job: the context of the
  job is cancelled, so the transition to `provision_failed` of its own failure handler
  fails, and the job counts as completed. The reconciler is all that is left.
- `OfferedIsComplete` holds without a transaction around an import because the test is
  its last row, and although the product may be deleted between its lookup and the
  test's insert, because the foreign key then refuses the test. The mutant whose failed
  inserts are only logged breaks it.
- `ImportedOnce` holds although the lookup of the version excludes nobody: the unique key
  of `(external_id, git_commit)` does. With `ON CONFLICT DO NOTHING` both would go on.
- `SellableStays` holds although `updateTest` overwrites what another update wrote in
  between, since it writes the whole row that it checked. Writing only the columns that
  were provided, the usual cure for lost updates, would break it: one request makes a
  paid product free and clears its price, the other charges for it.
- `PaidIsServed` is liveness through failures: a failed insert is answered with 500, and
  the event comes again. It excepts a test that was deleted meanwhile, for which the
  webhook fails until Stripe gives up and nothing returns the money.
- `ReturnedIsWhole` and `KeepsPromise` hold although `NextVMID` reserves nothing and ids
  are used again, because the cluster refuses the second clone and `isVMIDConflict` makes
  the client look for another id. Three ids for six machines make this happen.
- In `lifecycle` the second attempt comes when the first failed and was refunded. The
  cleanup of the first may then run twice, and in between its ids may have come to the
  second. `EnvironmentUpWhileActive` and `KeepsLife` allow for that loss: they say that a
  cleanup goes by the attempt it was enqueued for, and that none is enqueued for an attempt
  that is in use. The mutant that looks the environment up without the attempt shows it.
- `KeepsPromise` goes on after a second destruction, and is then about what is left of the
  promise: nothing that was destroyed comes back, and nothing goes unasked.
- `DestroyedIsGone` is for undisturbed destructions. All errors of a destruction are
  swallowed, so after any failure VMs stay that nothing names any more.
- `HostnamesCollideAtDash` names the one way for two nodes of an environment to share a
  hostname: validation lets a dash into ids, and `a` + `b-c` is `a-b` + `c`.
- `ConfigIsRendered` compares two loops that look for placeholders, one that refuses and
  one that replaces. It is about placeholders of the profile: a node whose id has braces
  in it is valid, and they reach Proxmox with its hostname. Without that premise TLC finds
  such a node (`Braced` in `MCScenarioFlow`).

### Where the properties stop holding

The budgets are part of each claim. Outside of them TLC finds:

- When provisioning takes half an hour **and** its job is still running, the
  reconciler's transition can be written after the attempt moved on, even over
  `scored`, and its cleanup is enqueued although the transition failed. Then
  `EnvironmentUpWhileActive` and `NoReturnAfterEnd` fail, and with a failed cleanup on
  top so does `ScoredReclaimed`: an attempt in `provision_failed` is in none of the
  reconciler's lists. So `lifecycle` and `reclaim` have no `age` in their budgets.
- With two request slots, a connection that passed its check and is delayed, and a
  submission in between, take an attempt from `submitted` back to `running`. So
  `lifecycle` has one request at a time. The theorems ask for less: that the requests for
  *one* attempt's terminal, and its submissions, do not overlap (`OneConnection`,
  `OneSubmission`).
- After a second cleanup an environment is no longer its owner's alone: the ids of the
  first destruction are free, another environment got them, and the second one destroys its
  machines (the run `isolation`). There are such cleanups without any failure, as the
  reconciler enqueues one every minute until the first is done. `ReturnedIsWhole` and
  `DestroyedIsGone` are therefore about the time before the first of them (`Once`).
- With one crash or fault, `EndedGetsScored` fails: the grading job is lost after the
  transition to `submitted`. `expiry_race` has neither.
- With one submission and one expiry, `ScoreFinal` fails: the race of `expiry_race`
  can end in the attempt being graded twice. So `lifecycle` has no exam timer.

What each condition of the theorems on the life of an attempt is for: with two workers,
one attempt, and the event that it excludes (and one fault or crash), TLC finds

| Without | violated | still holds in that instance |
|---|---|---|
| no admin | `NoOverbooking`, `EnvironmentUpWhileActive`, `ScoreFinal`, `KeepsLife`; with two interventions at a time `NoReturnAfterEnd` | |
| no age | `EnvironmentUpWhileActive`, `NoReturnAfterEnd`, `KeepsLife` | `ScoreFinal` |
| no timer | `ScoreFinal`, `KeepsLife` | the other two, whose theorems have no such condition |
| `OneConnection` | all four | |
| `OneSubmission` | `ScoreFinal`, `KeepsLife` | the other two, whose theorems have no such condition |

### Disagreements

Three runs expect a violation: a document says one thing and the code does another. Each
counterexample is a behaviour of the code.

| Run | Property | What happens |
|---|---|---|
| `stuck_grading` | `GradingRetried` | a grading job interrupted after its first transition can never run again |
| `duplicate_webhook` | `OnePurchasePerCheckout` | the purchase is stored without its session id, whose unique index would have refused the second delivery |
| `isolation` | `AllWhole` | a second destruction goes by stored ids that Proxmox has given to another environment meanwhile, and deletes its VMs |

More of them can be found with the same models, by the budget that is named:

- *Overbooking* (`admin`, `fault`): a failed provisioning is refunded, an administrator
  retries it, and nobody charges it again, though retakes consume attempts
  (`docs/architecture.md:2`, `:232`). `NoOverbooking` then fails.
- *A lost refund* (`age`): the reconciler fails a stale provisioning and restores no
  count (`reconciler.go:55`; `docsite/admin.md:239`).
- *A status race* (two requests): two transitions validate against the same status and
  both write (`service.go:87`; `docs/implementation-plan.md:296`).
- *A second environment* (`fault`): a failed last transition makes River provision
  again; the first VMs stay (`provision_job.go:216`; `docsite/troubleshooting.md:361`).
- *A lost submission* (`crash`): the process dies between the transition to `submitted`
  and the enqueuing of the grading job (`submit.go:32`;
  `docs/implementation-plan.md:495`).

And some need no model checker:

- Nothing enqueues `expire_attempt`, so an exam never ends by itself
  (`docs/implementation-plan.md:456`).
- Nothing writes `cleanup_pending`, so `destroyed` is unreachable and the cleanup's last
  transition is always refused (`docs/architecture.md:227`).
- The reconciler enqueues a cleanup every minute whatever waits already
  (`docs/implementation-plan.md:583`).
- `createTest` always answers with an error and leaves nothing (`docsite/admin.md:88`).
- `updateTest` writes the product before it looks at the numbers of the test, so a
  request that is rejected for them has changed the product; and it writes fields that
  were not provided, with the values it read (`docsite/admin.md:111`).
- A half import has its version row, so every later import of that commit skips it.
- The role of a node and the context of a cluster never reach Ansible, although
  `docs/implementation-plan.md:393` says that `vars.yaml` has all information on nodes and
  clusters: the loop at `provision_job.go:187` sets no role, and the importer writes the
  context under the key `KubeContext` (`importer.go:145`), which is read as `kube_context`
  (`Decoded` and `NodeSpecs` in the model).
- For the same reason the role groups of the inventory are always empty
  (`docs/implementation-plan.md:392`), and the inventory names
  `/tmp/painkiller-ssh-key` as its key file while the key is written to the temporary
  directory of the run.
- River's default timeout of a job is one minute, which `queue.go:39` leaves alone; the
  polling of a task may take five and the wait for an address two.

## Bounds

- `Attempts`: one, except where attempts compete for the count or for the ids of the
  cluster, which two do. What attempts share is the count of their purchase, the worker
  slots and, through destructions by stored ids, the cluster. Only `NoOverbooking` is about
  the count, and only `EnvironmentUpWhileActive` and `KeepsLife` depend on the cluster. In
  `lifecycle` the attempts come one after the other, since the purchase is of one; the
  theorems are for any number at a time.
- `Envs`: two, so that an attempt may be provisioned twice, or each of two attempts once; a
  third building, where the budget would lead to one, is not followed. `reclaim` has three,
  and `expiry_race` and `stuck_grading`, which are about what comes after, one.
- `Workers`: two where two jobs of an attempt can race, one where the question is
  about one job at a time and the reconciler.
- `Requests`: two for the races of requests, one elsewhere.
- `MaxQueued`: 1 where two equal jobs in the queue do what one does; 2 in
  `expiry_race`, where it matters that there are two grading jobs.
- `Budget`: one event of each kind a run is about. The interesting behaviours here
  take two events (a failure, and the failure of what handles it), which the budgets
  allow by combining kinds. A budget is shared by all handlers, and each event may
  strike any handler at any statement. In `lifecycle` and `proxmox` a behaviour is followed
  while at most two kinds of events, any two, have happened (`PairsOfEvents`, a
  `CONSTRAINT`).
- Symmetry is used for safety only, never with a liveness property.
- `storefront`: two of everything that competes: versions of one title (which share a
  product), importers, requests, products and tests. One part, since parts are written
  one after the other by one importer. Three requests are two that race and one that set
  the scene (a free product, a deleted test).
- `proxmox`: two machines an environment are the least with an order among them; three ids
  hold one environment and a part of another, so whatever comes after must use freed ids.
  Two attempts at a clone are one retry and its end. `isolation` needs no more than two
  environments on two ids.
- `scenario`: up to two clusters, nodes, tasks and checks, since every rule of validation
  and every loop is about one row or a pair of rows; profile values of a few tokens.

## Fairness

`FairSpec` adds, and nothing more:

- `WF(Step(h))`: a handler that was started goes on. A goroutine is scheduled, and
  statements and provider calls end with the context, by River's job timeout at the
  latest. The one exception is a check: `RunCheck` passes no context and no timeout to
  `session.Run`, so for `GradeChecks` this assumes that the commands of a scenario end
  and that the workstation answers or refuses. Where they do not, a worker is lost.
- `SF(FetchJob(kind, a))`: a waiting job is fetched in the end. River fetches by
  priority and scheduled time. Strong, since with one worker the action is disabled
  whenever another job runs.
- `SF(Reconcile(a))`: the ticker visits every listed attempt; strong, since it is
  disabled while the reconciler is at another.
- `WF(Age(a))`: time passes.

In `Storefront`, `WF(Step(h))` in the same sense, and `SF(Deliver(s))`: Stripe tries
again for days, and a free request slot comes up in the end. It is strong because
delivery is disabled while the slots are taken.

No fairness on what students, administrators, timers, faults, cancellations, crashes or
discards do, nor on imports, purchases and payments: none of them ever has to happen. A retry is a step of the worker, so a
job that fails because of a fault runs again, as River makes it.

## Proofs

Every invariant and action property that a passing run checks is a theorem, and so are
both refinements.

### The life of an attempt

Assumptions, all about the constants (`Platform`): workers, requests and the
reconciler are distinct and workers are finite; `None` is no id; the bounds are
numbers. Attempts, environments, workers, requests, the count, `MaxQueued` and the
budget are otherwise arbitrary, so the theorems cover any number of concurrent
handlers and of failures, cancellations, crashes and discarded jobs. What a theorem needs
beyond that is in its second column.

| Theorem | Needs | Statement | Invariant |
|---|---|---|---|
| `TypeCorrect` | | `[]TypeOK` | inductive as it stands |
| `CountNonNegative` | | `[]AttemptsRemainingNonNegative` | every step leaves the count, adds one, or takes one from a positive count (`CountStep`) |
| `ReadyHasSession` | | `[]SessionBeforeReady` | `SessionInv` |
| `GradingFollowsEnd` | | `[]GradedOnlyAfterEnd` | `EndInv` |
| `PurchasePays` | no admin | `[]NoOverbooking` | `AccountInv` |
| `MachinesStay` | no admin, no age, `OneConnection` | `[]EnvironmentUpWhileActive`: no cleanup of its own takes the VMs of an attempt in use | `ForwardInv` |
| `EndedStaysEnded` | the same | `NoReturnAfterEnd` | `ForwardInv` |
| `OneScore` | the same, no timer, `OneSubmission` | `ScoreFinal` | `OnceInv` |
| `PromiseKept` | the same | `KeepsLife` | `OnceInv` |

"No admin" is `Budget["admin"] = 0`, and so on. `OneConnection` and `OneSubmission` say that
no two connections to one attempt's fresh terminal, and no two submissions of it, are under
way at a time; they are premises of the theorem (`Spec /\ []OneConnection => ...`). Each
premise stands for a behaviour of the code that breaks the property (the table in *Where the
properties stop holding*), with one exception: `OneScore` takes "no age" from `ForwardInv`,
and we know of no behaviour that needs it. With one request slot, as in `lifecycle`, both
predicates hold always; the theorems go beyond that run in the number of attempts,
workers, requests for different attempts, and failures.

**Why strengthening is needed.** A transition is validated in one statement and
written in another, without looking. When `environment_ready` is written, nothing in the
*status* says there is a session; the writer knows it from an earlier statement. So
`SessionInv` says, for every handler at every point, what it knows (`Sound`): the
job between `configure` and `session` holds an environment of its attempt; who is
about to write a status of a given environment has an attempt with a session.
This knowledge must survive the steps of others, and does because owners and sessions
are never taken away (`RowsKept`). For that, no two jobs may record the same
environment (`Recording`), and an environment without VMs has no owner (`RowsLinked`).

`EndInv` does the same for grading: a handler that is about to write `grading` or
`scored`, or that is beyond its transition to `grading`, has seen its attempt ended
(`SeenEnded`), and `ended` is never taken back (`EndsKept`). Statuses can be taken
back by a race, so an invariant over statuses alone would be false.

**The account.** `NoOverbooking` counts the attempts given out, but the count is taken
before an attempt exists and given back after it failed. `Balance` counts what is
*charged*: `remaining` and the attempts that are not `Free` are together at most what was
bought. An attempt is free before its decrement and after its refund, and a refund is
right only if the attempt was charged, is refunded once, and is never given out after. That
is `Ledger`: at most one of an attempt's request, waiting job, and running job can still
decide about it, so the refund is due once, and `Regular` says what that one knows between
its statements.

**Forward.** Since writes are blind, `ForwardInv` says of each status from which statuses
it can be written at all (`From`), and of each handler about to write that its attempt is
in one of them *now* (`Placed`), not only when it looked. Of a handler on its way to destroy
VMs it says that the attempt is over or its provisioning failed, and of waiting cleanups
and destroyed VMs the same (`AttemptForward`, `EnvForward`). A step keeps this because the
statuses after the end are closed under everything that can still be written.

**Once.** `OnceInv` adds that an attempt has one grading job, waiting or running
(`SoleGrading`), and what each handler can be `Sure` of since nobody else writes the
attempt: the submission that is about to enqueue, that there is no grading job; the job
that is about to mark the attempt, that there is no score; the job that saved a score, that
the attempt is still in `grading`. With it, the steps of `Lifecycle` map to steps of
`AttemptLife`: each write of a status to a phase, `ProvisionSession` to the machine going
up, a destruction to the going of the attempt's own machine and the loss of others'
(`MachinesMove`, `MachineLost`), and the transition to `scored` to the result. That the loss of a machine
in use has its cause in an attempt that failed or was graded is again `ForwardInv`: only
the cleanup of such an attempt destroys anything.

### The storefront

Assumptions (`Shop`): importers are not requests, a scenario has at least one part,
changes are of the form that `updateTest` decodes, the budget is of numbers, and `None`
is no id. Any number of each, and of redeliveries and failures.

| Theorem | Statement | Argument |
|---|---|---|
| `StorefrontTypes` | `Spec => []TypeOK` | part of `ShopInv` |
| `OffersAreComplete` | `Spec => []OfferedIsComplete` | `ShopInv` |
| `ImportsHappenOnce` | `Spec => []ImportedOnce` | `ShopInv` |
| `SalesStay` | `Spec => []SoldStays` | `ShopInv` |
| `SellableProductsStay` | `Spec => SellableStays` | over `ShopInv`: one lemma for each of the three statements that write a product |

`ShopInv` strengthens the properties by what the statements rely on. `Knows` is what a
handler knows from its earlier statements: an importer behind its last part has a
version with all its parts, and no test is of that version; a deletion holds the product
of its test; an update holds a row that was there. `Alone` says that two importers that
own the row of a version (`Owns`) own different ones: without it, one could put the
version on offer while another still writes its parts. `RowsFit` is the keys: a row of
`tests` refers to rows that exist, and what is sold is on offer.

Most statements disturb nothing that a handler knows: they keep versions and tests, keep
products, and sell only what is on offer (`RowsKept`). For these one lemma (`MoveKeeps`)
serves, whatever the handler does next. The statements that do disturb something each
have a proof of their own: `ImportVersion` and `ImportPart` (`StoreKeeps`),
`ImportTest`, and `DeleteCommit`.

### The Proxmox provider

Assumptions: those of `Proxmox` (`Nodes` is a number, at least one clone is tried, `None`
is no id). Environments, machines, ids, concurrent calls, faults, cancellations, crashes
and second destructions are arbitrary, in all four theorems.

| Theorem | Statement | Invariant |
|---|---|---|
| `ProxmoxTypes` | `[]TypeOK` | inductive as it stands |
| `ReturnedStaysWhole` | `[]ReturnedIsWhole` | `ClusterInv`, until the first second destruction |
| `DestroyedLeavesNothing` | `[]DestroyedIsGone` | `GoneInv`, until the same |
| `PromiseOfProvider` | `KeepsPromise` | `RowsInv` always, `ClusterInv` and `GoneInv` until then; for steps `Drift` and `Orderly` |

The cluster gives an id to one VM at a time, but the ids travel: from the answer of one
request into a call, from there into the row of the environment, and into the call that
destroys it. `ClusterInv` follows them. A creation has, for the places behind it, running
VMs of its own environment, and its current id is one of them from the clone on, not from
`NextVMID` (`Creating`); a destruction has VMs of its own environment for the places before
it (`Destroying`); no two calls are about one environment (`Alone`).

A step that touches only VMs of its own environment keeps what the other calls and rows
know (`OnlyAt`, `Kept`), whichever step it is, so each request needs a proof only for its
own call. That a destruction touches no other environment is the hard part: it uses stored
ids without looking at the cluster, and it is right only because an environment keeps its
ids until the destruction gets to them. A second destruction is exactly what ends this: so
`ClusterInv` and `GoneInv` are proved as long as none was made (`Once`), which no step
takes back once it is false, as a budget is never refilled (`Spent`).

`ClusterInv` says that an id leads to a VM; `GoneInv` says the converse, that each VM is led
to by an id. A VM that exists is in the row of its environment or in the call that creates
it (`Traced`), and as long as nothing failed, one whose destruction was asked for is being
removed or still before its destroyer (`Doomed`). That is why the statement is about
undisturbed runs: any failure makes a VM that nothing leads to.

For the refinement, the state of an environment in `Provider` is a function of its VMs,
the stored ids and the calls. `RowsInv` says of calls and rows what no destruction can
disturb: who creates an environment is alone with it, and only what was returned is asked
to go. It alone gives which state an environment is in (`StateFits`) and what one step can
do to it (`Drift`), whatever is destroyed how often: what was begun stays begun, what was
asked to go stays so, and a VM of an environment that was asked to go leaves only by being
removed. From this follow the steps of `Provider` after the first second destruction.
`Orderly` is what `ClusterInv` and `GoneInv` add before it: an environment stays whole, and
what is left behind stays so. The refinement is thus shown with the destructions that the
orchestrator really makes, and not for the first of each alone.

### The scenario's data

Assumption (`ScenarioFlow`): the repository's files are what the YAML decoder makes of them,
records of the types in `schema.go`, and the values of profiles are words. Topologies,
tasks, checks, profiles and their values are of any size.

| Theorem | Statement | Argument |
|---|---|---|
| `AcceptedImportedWhole` | `[]AcceptedIsImported` | `ValidateChecks` looks up what `taskUUIDs` must hold |
| `NodesReachAnsible` | `[]EveryNodeConfigured` | each stage is a function of the one before it |
| `HostnamesApart` | `[]HostnamesCollideAtDash` | two readings of one word |
| `NoPlaceholderLeft` | `[]ConfigIsRendered` | both loops cut a value in the same, closed pieces |

`FlowInv` is the pipeline as an invariant: from `stored` on the rows are those of a valid
scenario, the request is a function of the rows, the result of the request, and `vars.yaml`
of both. For hostnames, a word that is twice two words and a dash (`Join`) has them at the
same place, and then cluster and node are the same as validation lets no id occur twice
(`SameLength`), or the longer first word goes on from the shorter with the dash
(`ShorterGoesOn`).

For the configs there are two inductions over data, which the library's theorems cannot
give here, as they take an operator for the statement. Both are done with sets instead: a
set of numbers that is not empty has a least one (`Least`, from `WFMin`), so a set that
has 0 and with each number the next has them all (`Every`). The first induction shows
that `Pieces` is what its recursive definition says: for each length there is one function
on the shorter values that satisfies the equation (`CutsExist`, `CutsAgree`), since a round
of the loop looks only at what is shorter (`CutLocal`), and together they are a solution
(`PiecesCut`). By the same principle pieces are well cut (`PiecesWellCut`): no text holds a
double brace or ends with a brace before another piece. The second is for `FlattenSeq`:
words that are clean, none of which but the last ends with a brace, are clean in a row
(`FlattenClean`). What is put in for a placeholder has no brace at all, which for the
hostname is a premise of the property: validation lets braces into ids.

### What is only model-checked

- Liveness (`ProvisioningResolves`, `ScoredReclaimed`, `EndedGetsScored`, `PaidIsServed`):
  the prover does not do fairness.
- The three violations, which are behaviours and not theorems.

## Not modelled

- **Authentication** (`auth/`): registration is one insert against the unique email,
  tokens are a library's and keep no state; that a request belongs to its user is a
  check that ends it without a change.
- **Mock and noop providers**: a delay and a map for development.
- **The inventory of the provisioner**: the data of `vars.yaml` in another format.
- **Proxy script, configuration, HTTP plumbing, migrations, logging**: generated text and
  start-up code, with no state that anything depends on.
- **Views and web frontend**: read-only; what a student is shown of a result is part of
  `AttemptLife`.
- **Titles and numbers in `updateTest`**: two more columns, checked and written after the
  product, about which there is no property beyond the row itself.
- **River's internals**: its fetching, rescuing and discarding are modelled from how
  `jobs/` configures and uses it.
- **PostgreSQL**: single statements are atomic.

## Plan

1. *Done*: the lifecycle with every handler, its properties and four theorems.
2. *Done*: billing, catalogue and importer over the same rows, with four theorems on what
   is on offer and sold.
3. *Done*: Proxmox request by request, as an implementation of `Provider`, with a theorem
   on what it returns.
4. *Done*: the data flow of a scenario, with validation and clone profiles.
5. *Done*: `AttemptLife`, which `Lifecycle` implements.
6. *Done*: `NoOverbooking`, the properties of an attempt's end, `DestroyedIsGone`, the data
   of a scenario, and the steps of both refinements.
7. What holds when an administrator intervenes: `NoOverbooking` with the number of
   interventions added to what was bought; `EnvironmentUpWhileActive` but for environments
   that were destroyed by force. `ScoreFinal` without "no age".
