# TLA+ models of the DataFoundry service broker

The broker (`src/main.go`) implements the Cloud Foundry service-broker API on an
OpenShift cluster: it keeps a record of every service instance in etcd and lets
a *handler* per service class build the instance out of volumes, deployment
configs, services and routes. This directory holds TLA+ modules of the parts in
which goroutines, requests and stores interleave, the TLC configurations that
check them, and TLAPS proofs.

## 1. Inventory

### The components

| component | state | operations | modelled in |
|---|---|---|---|
| Broker front end, `main.go` | per instance id a directory in etcd: `service_id` ... `plan_id`, `_info`, `binding/<id>/_info`; the variables of each request | Provision, LastOperation, Update, Deprovision, Bind, Unbind (195-735) | `Broker`, `BrokerProofs` |
| Plan sizes, `main.go` 791-870 | none | `findServicePlanInfo`, `InBullets` | `PlanSizes`, `PlanSizesProofs`; used by `MCBroker` |
| BSI report, `main.go` 946-1068, `wild-bsi-res-cleaner` | none of its own | list and print | not modelled: changes nothing |
| Volume jobs, `handler/datafoundry.go` | the table `pvcVolumnCreatingJobs` under a mutex; per job `cancelChan`, `errChan`, the result channel `c` of one slot, one goroutine per volume; the claims in the cluster | `StartCreatePvcVolumnJob`, `StartExpandPvcVolumnJob`, `run`, `WaitUntilPvcIsBound`, `Cancel`, `GetCreatePvcVolumnJob`, `DeleteVolumns` | `VolumeJobContract`, `PvcVolumeJob`, `PvcVolumeJobProofs`; `WatchPvc`, `WatchPvcProofs` |
| Volume handler, `servicebroker/etcd-pvc` | the instance's resources and RCs in the cluster; its goroutines | `DoProvision`, `DoLastOperation`, `DoUpdate`, `DoDeprovision`, `DoBind`, `DoUnbind` | `PvcHandler`, `PvcHandlerProofs` |
| OpenShift client, `handler/openshift.go` | the bearer token; a watch's channels and cancel flag | `doRequest`, `buildUriWithSelector`, `updateBearerToken`, `doWatch`, `NewThirteenLengthID` | the first two in `PvcHandler`, `doWatch` in `WatchPvc` |
| Handler registry and helpers, `handler/handler.go`, `util.go` | a map filled by `init` functions | `Register`, `New`, names and environment values | `Services` is the map; the helpers are not modelled |
| Handlers without volumes (etcd, zookeeper, rabbitmq, nifi, kettle, pyspider, tensorflow) | resources in the cluster | `DoProvision`, `DoLastOperation`, `DoDeprovision`, `DoBind`; `loadX`, `createX`, `getX`, `destroyX` | `PlainHandlers`, `ServiceInstance`, `ServiceTables`; `ServiceInstanceProofs`, `ServiceRemovalProofs`, `ServiceOutcomeProofs` |
| The other volume handlers (elasticsearch, mongo, neo4j, rabbitmq, redis of one node, zookeeper) | the same, and a volume job | the same | `VolumeHandlers`, and the same modules |
| Handlers with an orchestration job (cassandra, kafka, redis, spark, storm, storm for outside clients; kafka and redis with volumes) | the same, and a second job table with a `cancelled` flag per job | the same, and `startXOrchestrationJob`, `run`, `cancel`, `kpost` | `JobHandlers`, and the same modules |
| storm with volumes | as the others | as the others | not modelled: "the development of this service broker is not finished yet" (`storm_pvc/storm_standalone.go:40`) |

### How they interact

`Provision` calls the handler's `DoProvision(etcdSaveResult, ...)`, which returns
a `ServiceInfo` at once and leaves a goroutine that waits on `etcdSaveResult`.
`Provision` writes the record, then sends nil or an error. Told nil, the
goroutine of a volume handler calls `StartCreatePvcVolumnJob`, reads ONE result,
and either posts its resources or calls its own `DoDeprovision`. `Update` calls
`DoUpdate`, whose goroutine runs an expanding job under the same job name and
then calls back to save a changed `_info`. `Deprovision` reads `_info`, calls
`DoDeprovision`, which starts a destroyer goroutine (cancel the job, poll until
the table has none, look up, delete), and deletes the record. `LastOperation`
combines the job table with the pods that run. Nothing locks an instance.

### What is hard, and what makes each part correct

* Jobs: starters race for one name, entries are deleted by name, several
  goroutines send on a one-slot channel read once. Correct: jobs of one name
  exclude each other, the first message is true, a claim that appears is a
  job's in the table or nobody builds on it, volumes are deleted after the job,
  every starter is answered.
* Broker: an existence check long before the directory is made, a record
  written in ten separate calls whose errors are dropped, a cached `_info`
  written back later. Correct: one winner per id, the answer agrees with the
  order given to the goroutine, the record agrees with the cluster, the size
  only grows.
* Handler: a self-undo, a client's Deprovision and an Update at any time,
  requests that are carried out after they were given up, look-ups that find
  nothing. Correct: nothing is built on missing volumes, removal is complete
  and touches nothing of others, LastOperation eventually succeeds.

* Waiting for a claim: a watch whose goroutine can block on its reader, a probe
  beside it, a timer and a cancellation, after a request for the watch that none of
  them can end. Correct: the answer is true, a claim that is bound is noticed,
  nobody is left blocked for ever.
* The services: chains of posts that break off, verdicts that look at pods
  only, jobs that post from goroutines of their own, node ports posted before
  there is a record, a crash that empties the tables. Correct: what is called
  succeeded can be bound, what failed is undone, what is removed is gone, and a
  verdict does not change.

`PROJECT.json` lists every hazard at its line, with its properties.

## 2. The modules and the code

### PvcVolumeJob - the volume jobs

One job name. `Start` is `StartCreatePvcVolumnJob` / `StartExpandPvcVolumnJob`
under the mutex: register and run, or send "is ongoing". `Read` is the
starter's only `<-result`. `VolumeStep` is the goroutine of one volume:
`CreateVolumn`, `ExpandVolumn` or `RequestError`, `EnterWait` (the look at
`cancelChan`), `WaitBound`, `WaitError`, `ReportWaitError` (the send to `c` from
the goroutine itself). Two steps are up to a server and may never come
(`RemoteStep`): `KWatch`, the return of the request that opens the watch, which
has no timeout, and `LateRequest`. A request that `dfRequest` gives up after its
8 seconds leaves the goroutine at "timedOut", an error like any other for the
job; `LateRequest` carries it out at any later time, when the job may have left
the table and the volumes have been deleted. `RunStep` is the
rest of `run`: `AllDone` (`wg.Wait`), `SendNil`, `SendJoined`,
`SendTrailingNil` (the `c <- nil` that follows the joined errors),
`Unregister`. `Look`, `Cancel`, `PollExit`, `DeleteVolumns`, `DeleteVolumn` are
the deprovisioner. What follows `KWatch` in `WaitUntilPvcIsBound` is modelled by its outcomes; a claim
has a phase only (absent, pending, bound), a size only as "grown".

`VolumeJobContract` says what the table promises without goroutines or
channels: one holder at a time, settling of volumes, a refusal or an answer
that tells whether something failed. `KeepsContract` is the refinement.

### Broker - the front end

One instance id. Each request has a program counter; one action is one call to
etcd or to the handler, so that requests interleave exactly between their
calls. `store` is the directory: `dir`, `ids` (the keys the requests compare),
`info`, `binding`, `bound`, `cred`. `Set` is a group of `etcdset` calls: if etcd
fails, any of them may be missing. Creating a key creates its parents (`With`),
making a directory fails when it is there (`ProvisionMkdir`,
`ProvisionMkbinding`, `BindMkbind`). A nil response that the code dereferences is a panic,
which `net/http` turns into a failed request: the reply `error`. `deleteError`
is the answer after the Delete itself failed, when the record may be gone.
`backend`, `undo` and `updater` are the handler's goroutines in outline.

### PvcHandler - one etcd-pvc instance

Instantiates `PvcVolumeJob` with one creator (the provisioning goroutine), the
updates as expanders, and as cancellers the clients' `DoDeprovision` goroutines and
the one the provisioner starts itself. On top of it: `Post` (the chain of
`createEtcdResources_HA`, which stops at the first error), `InitPod`
(`initEtcdRootPassword`), `LatePost` (a post given up after 30 seconds that the
server carries out later: it is in `belated` until then), `LookUp` (one Get per resource), `SweepRCs` (first
the deletions of what was found, then per deployment config the list of its
RCs), `DeleteResource`, `DeleteRC`, `DeleteVolumns`. `ListRCs` is
`buildUriWithSelector`: no labels, no selector, and the list is the whole
namespace's. `ClusterRoll` is OpenShift creating the RC of a deployment config.

### The service handlers - tables, programs and what executes them

Twenty-one services differ in what they post, look up and destroy, and in the
order and the error paths of a handful of calls. That difference is written
down as data, and one module gives it a meaning.

`HandlerPrograms` is the vocabulary: a goroutine's work is a sequence of steps
(`Saved`, `Post`, `Undo`, `Remove`, `CreateVolumes`, `StartJob`, `Wait`, `Go`,
...), with the program of the error path inside the step that can fail. A
resource is a pair of the struct and its field. `IsHandler` is what the programs
of all handlers have in common: which steps occur in which of them, that they
post and remove what they have decoded, that they wait for the record and ask
for volumes at most once, that error paths do not branch, and that a program
ends where it hands over to another goroutine. `InstanceAssumption` asks it of
every handler in the table; TLC evaluates it for the 21 services, and
`ServiceInstanceProofs` knows no more of them.

`PlainHandlers`, `VolumeHandlers` and `JobHandlers` have, for each service and
under the names of its functions, the template that is decoded (`_load`), the
order of the posts (`_create`) and of the look-ups (`_get`), what is deleted
(`_destroy`), and the programs `_DoProvision`, `_DoLastOperation`,
`_DoDeprovision`, `_DoBind` and `_run`. They are where the services' own
mistakes can be seen: a resource that is posted and never looked up, a chain
that is not undone, a verdict that asks for too little. `Services` puts them
into one function, as `Register` does.

`ServiceInstance` executes them: one instance of one service with the goroutine
of `DoProvision`, the orchestration job and the goroutines it posts in, a
client's `DoDeprovision` and the one a handler calls itself. One action is one
call to the cluster, one message or one look at a flag: `PostNext` is a post,
`Send` the look at `cancelled` before it (`kpost`), `LookUp` one Get,
`StopTheJob` the cancel and the poll. `Delete` scales an RC down and `DeleteRCs`
deletes it later, as `kdel_rc`'s goroutine does; a deployment config goes at
once. `LastOperation` is the verdict: volume job, needed look-ups, orchestration
job, what must be there, running pods. The volume jobs are a *lot* each, with
the states that `VolumeJobContract` tells apart, among them an answer that is
read while other volumes are still being created, and a job that blocks.

`ServiceTables` says what else the tables have in common, as conditions on the
data alone, each in terms of the programs' steps:

* `IsThorough`: `DoDeprovision` looks up and deletes all that `DoProvision`,
  `run` and its helpers post (`Everything`, `Removed`), releases every lot of
  volumes, and stops the jobs first;
* `IsNamed`: the saved record has the instance's names in it;
* `IsOrderly`: the programs end with the post of one last resource (`Final`), or
  hand over to a job whose one helper posts it, and it is posted nowhere else;
* `WaitsForJobs`, `NeedsFinal`, `NeedsPods`: there is no verdict while a job is in
  a table, and it needs `Final`, or the pods of the chain that ends with it;
* `BindsWhatThereIs`: `DoBind` reads what is posted;
* `Undoes`: the error branch of the chain deletes the chain and the volumes, a
  failed lot or a refused post of `run` has the instance deprovisioned.

`TablesAssumption` says which services keep which of them; the exceptions are
the named sets of section 3. It is kept apart from `ServiceInstance` because it
is about the tables as they are: a wrong entry in one would be caught by the
ASSUME, and `services` is to show that it is caught by a property. `MCServiceTables`
is `MCServices` with `ServiceTables`, so that TLC evaluates the assumption for all
21 services, whichever of them a run explores.

`Crash` is the broker dying and starting again: goroutines, tables and
unread messages are gone ("jobs are lost", `datafoundry.go:146`), while a post
that was under way, or a claim, may still come to be. Nothing resumes the work,
as in the code.

`VolumesAsPromised` is the refinement: each lot keeps `VolumeJobContract`, the
contract `PvcVolumeJob` is proved to implement, so that what `ServiceInstance`
assumes of the jobs is what the jobs do. It is about a broker that does not
crash: a crash takes the job and the goroutine that waits for it in one step.

### WatchPvc - a wait for a claim

`WaitUntilPvcIsBound` on `doWatch`: the waiter (`Enter`, the look at
stopWatching; `Open` or `NotOpened`, the return of `KWatch`; `TakeStatus`,
`TakeAnswer`, `SeesStop`, `Expired`), which closes canceled when it leaves; the
watcher (`Look` at canceled, `ReadLine` or `ReadError`, `Send` on the channel of
five slots); and the probe, which asks once (`Ask`) and sends what it was told on
a channel of one slot (`SendAnswer`), or is told of the stop first
(`ProbeStops`). The cluster writes, binds, loses or deletes the claim, and each
of these is an event on an open watch.

### PlanSizes

`findServicePlanInfo` as an operator: a size in tenths of a GB is rounded,
taken up to the next step above the default, and cut at the maximum.
`MCBroker` gets the sizes of its Updates from it.

### The surroundings as a variable

`ServiceInstance` has a variable `env`, chosen in `Init` and never changed: the
service, how the client behaves (`hasty` deprovisions at any time, `waits` when
DoProvision's goroutine has ended, `polls` when there is a verdict), which
faults there are (`none`; `refused`: a post or a volume; `any`: also lost
replies, look-ups and deletions; `crash`), and whether pods `lag` behind the
posts. `Broker` and `PvcHandler` have one too: whether calls fail (`storeFails`, `callsFail`) and whether the platform is
`patient`, that is sends a request for an instance only when the one before and
its background work are over. One run covers all surroundings of its cfg, and a
property that needs one of them says so.

### Definitions that begin with "Mistake:"

The modules hold, before the definition it concerns, the variants a plausible
bug would give (`StartUnchecked`, `ProvisionMkdirSilent`, `CancelOnly`, ...). No
specification uses them; substituting one of them for its definition makes the
property named beside it in `PROJECT.json` fail, which shows that the property
says something about that line.

## 3. The runs

| run | shows | bounds |
|---|---|---|
| `volume_job` | all safety properties of the jobs, the inductive invariant, the refinement, who answers for a claim (`ClaimsAreAccountedFor`), and under fairness `StarterIsAnswered`, `PollEndsUnlessBlocked` | 2 volumes, a creating and an expanding starter, a canceller: two failures fill and block the slot, a starter is refused, a job follows another under its name |
| `volume_job_stuck` | **violation** of `CallerDoesTheDeletions` | 3 volumes, as etcd-pvc has; `PromptSpec`, in which every watch request returns |
| `broker` | `OneWinnerPerLife`, `BuiltAsAnswered`, `SuccessIsRecorded`, `RecordMatchesCluster`, `GoroutineIsTold` | two Provisions, an Update, a Deprovision, a Bind, an Unbind of one binding id; `MaxInFlight` = 2 requests under way, any number of goroutines |
| `broker_shrink` | **violation** of `OnlyExpands` | two Updates with different sizes |
| `handler` | `BuiltOnBoundVolumes`, `CleanRemoval`, `UsesJobsProperly` | 1 volume, 1 deployment config and the route, an Update, a client's Deprovision, one foreign RC |
| `handler_live` | `FailureIsCleaned`, `ProvisionCompletes` under fairness | 2 volumes, so that a job can block |
| `handler_others` | **violation** of `OthersUntouched` | 2 deployment configs |
| `handler_pod` | **violation** of `NothingLeft` | as `handler_live` |
| `services` | `CleanRemoval`, `SucceededIsBindable`, `AllOrNothing`, `OrphansComeFromHelpers`, `VerdictIsFinal` | all 21 services, the client that polls with every kind of fault and the one that waits without, pods slow or not; `MaxFailures` = 1 |
| `services_live` | `DeprovisionEnds`, `ProvisionCompletes` under fairness, `VolumesAsPromised`, and that `TablesAssumption` holds of all 21 services (module `MCServiceTables`) | kettle, neo4j, cassandra and redis with volumes with a client at any time, `none` and `any` faults; kafka with volumes (two lots) with a client that waits |
| `services_orphans` | **violation** of `NothingLeftBehind` | redis with volumes, no faults |
| `watch_pvc` | `NilMeansBound`, `EndsWithNow`, `LeftWithRoom`, and under fairness `BoundIsNoticed`, `ProbeEnds` | the code's 5 slots and 1 slot, 6 events: enough to fill the channel and the watcher's hand |

The services run one at a time and with one failure: a handler never looks at
another's resources (but see `OthersUntouched`), and its error paths do not
fail in their turn, except by deletions, which are logged and dropped. The
exceptions a property of `ServiceInstance` makes are named sets of services
with the line that is the reason: `Unnamed` (zookeeper, whose saved record is
blank), `EarlyWord` (kafka with volumes, spark), `RcsFirst` (ten services whose
verdict needs what their chain posts first), `NotUndone`, `NodePortKept`. Each
is a weakness of the code that the run would report as a violation without the exception.

A pair of actors is enough for the races: each hazard is a conflict of two
requests, or of two goroutines, over one record, table entry or slot. Two in
flight in `broker` still lets a third follow while goroutines of the first run on. The proofs
of section 4 lift the bounds for the properties they state. `CHECK_DEADLOCK FALSE` everywhere:
every actor is finite and the system really comes to rest.

Symmetry is used in `broker` alone, over the Provisions, and no liveness is checked there.

### Fairness

Weak fairness of every goroutine that has been started: a request ends within 8
seconds (`dfRequest`) or 30 (`doRequest`), a watch that is open within an hour (the
timer), the polls come round. The request that opens the watch is not fair:
`KWatch` (`datafoundry.go:455`) has no timeout (`openshift.go:149-150`,
`util.go:16-21`), the timer is started after it (482) and stopWatching is not
looked at meanwhile. So the liveness properties except a goroutine that waits
for it (`InWatch` in `PvcVolumeJob`, `Watching` in `ServiceInstance`, where it can
happen under the faults `any`). The exceptions are predicates of a state, yet
they excuse only a wait for ever: what is waited for stays to be waited for,
and a goroutine asks for its watch once, so that from the moment it has its
answer the property must come true without the excuse. Nor is there fairness for
the server to carry out what was given up, for a starter, a canceller or a
client to arrive, or for the cluster to bind a claim: a wait may always
end by its error. In `WatchPvc` the three goroutines are fair, the return of
`KWatch`, the timer and the end of the watch are not: nobody is rescued by the
hour running out. In `ServiceInstance` goroutines, volume jobs (but for the above),
pods and the deletion of scaled-down
RCs are fair (a failure or a lost reply is one of the outcomes of a fair step),
a client and a crash are not. In `PvcHandler` the rollout of a deployment config is fair,
which `ProvisionCompletes` needs and OpenShift does.

### What the violations say

* `CallerDoesTheDeletions` (`datafoundry.go:175`): a failed wait sends to `c`
  directly, `run` sends the joined errors and a trailing nil, and there is one
  slot and one read. Two failures, one of them in a wait, need a third place:
  the job stays in the table, and a deprovisioner polls for ever. The run
  supposes that watch requests return. `BlockedByTwoFailures` says that a job
  blocks in no other way, `OneVolumeNeverBlocks` that with one volume it
  does not, and `PollEndsUnlessBlocked` that besides this only a watch
  request that never returns keeps a job in the table.
* `OnlyExpands` (`main.go:411`): the size is compared with an `_info` read
  earlier, and the goroutine writes that `_info` back later.
* `OthersUntouched` (`etcd_volumes_standalone.go:585`): a deployment config that
  was not found has no labels, and the list of RCs to delete is then everybody's.
* `NothingLeft` (`etcd_volumes_standalone.go:583`): the init pod is never looked
  up, so its deletion is a no-op.
* `NothingLeftBehind` (`redis_pvc/redis_standalone.go:923`): the orchestration
  job starts a goroutine that posts and leaves the table; a deprovisioner finds
  no job, looks, deletes, and the goroutine posts on. `OrphansComeFromHelpers`
  says that, without faults, these goroutines are the only source of orphans.

## 4. The proofs

`PvcVolumeJobProofs` proves, for any sets of volumes, starters and cancellers,
from `StartersAssumption` alone (creators and expanders are different
goroutines, `NoJob` is none of them, there is a volume):

* `Invariance`: `Spec => []IInv`, with one lemma per part of `IInv`
  (`TypeStep`, `ShapeStep`, `ToldStep`, `SlotStep`, `ClaimsStep`, `FoundStep`)
  and in each one case per action;
* from it `TypeCorrect`, `JobsExclude`, `AnswersAreTrue`, `ToldMeansBound`,
  `DeletionsAreLast`, `BlockingNeedsTwoFailures`, and the action property
  `ClaimsAccountedFor`: a claim comes into being by a request of a creating job
  in the table, or late, and then its starter is not told that all went well;
* `OneVolumeNeverBlocks`, which no run states;
* `Refinement`: `Spec => KeepsContract`. Every step is a step of the contract
  or a stutter; `GoodEndSettles` and `BadEndSettles` are the two ways in which
  a volume's goroutine settles it.

Why the properties are not inductive: `AnswerIsTrue` needs to know what
is in the slot before it is read (`Told`), hence that a message in the slot
while `run` is still waiting comes from a failed wait (`Slot`); `Unregister`
deletes by name, so that `OneJobAtATime` needs `Shape`, which ties program
counter, table and goroutines together; `DeletionsFollowTheJob` needs that the
job a canceller found has really run (`Found`); `ClaimsBoundWhenTold` needs
that a bound claim stays bound until a canceller is deleting (`Claims`).

`BrokerProofs` proves, for any finite sets of requests, from
`BrokerAssumption` (the kinds of requests are disjoint, sizes are naturals),
with etcd failing or not and the platform patient or not:

* `BrokerTypes`: `Spec => []TypeOK`. A size is written into an `_info` only
  where one has been read, which is `InfoRead`.
* `GoroutinesAreTold` and `AnswersAgree`: `GoroutineIsTold` and
  `BuiltAsAnswered`, from `ProvisionShape`, which relates a Provision's place,
  its reply, the message and the goroutine; every request moves only itself
  (`ProvisionMoves`, `OtherMoves`).
* `OneWins`: `OneWinnerPerLife`. The inductive form is `OneClaim`: the
  Provisions past the Set that makes the directory are no more than the
  Deprovisions that have ended, plus one if the directory is there. Only the
  Set and the recursive Delete move that balance the wrong way, and each
  pays for itself (`MkdirClaims`, `RmdirClaims`).

Of the record, with the same assumption:

* `SuccessRecorded`: `SuccessIsRecorded`, and `RecordAgrees`:
  `RecordMatchesCluster`. The properties themselves say of which states they
  speak: etcd does not fail, and no Deprovision has ended; the second also of
  a patient platform, with Deprovisions. `Steady` covers both, and the invariant
  is about what is steady.
* Neither is inductive, as a record is written in ten calls: `Partly` is
  what there is of it at each, `Followed` that a record which is there is being
  written by somebody or complete, and that who has read an `_info` has read
  the one that is there, so that an Update that saves it back does not revive
  another Provision's. `Matched` says that an answer, the record and what was
  built part only when a Deprovision comes, and `Removing` that a destroyer
  finds something built to destroy.
* That only one Provision writes (`OneWriter`) is `OneClaim` again while
  no Deprovision has ended, and `OneAtATime` with a patient platform, which has one
  request or goroutine under way.

`PvcHandlerProofs` proves, from `HandlerAssumption` (goroutines and resources
are distinct, the chain is a sequence of resources and the deployment configs
are a non-empty one of some of them; `RemovalIsClean` needs there to be one, as
the code's template has: the model writes down what is to be deleted with the
sweep of the first one's RCs, and would delete nothing with none):

* `HandlerUsesJobs`: `Spec => UsesJobsProperly`: every step of the handler is a
  step of `PvcVolumeJob` or a stutter. With it the theorems of
  `PvcVolumeJobProofs` hold of the handler: it cites `ToldMeansBound` and
  `Invariance` through an `INSTANCE` of that module.
* `HandlerVolumesBound` and `HandlerBuildsOnBound`: `BuiltOnBoundVolumes`. The
  invariant `Stages` says that what the provisioner does, what exists and
  whether it undoes itself all follow from the one message it read.
* `HandlerTypes`: `Spec => []TypeOK`, the part about the jobs taken from
  `PvcVolumeJobProofs`.

* `RemovalIsClean`: `CleanRemoval`, for every chain, every set of volumes and
  any number of clients, when no call of the handler fails and clients wait for
  each operation to end (`Orderly`, which the property asks for). The volume
  job's requests may fail, and the claim of a create that was given up and
  carried out late (`Straggled`) is the one thing that may stay. `Clearing` says what the
  goroutine of `DoDeprovision` has achieved at each place: one undoer at a time
  is under way, after the provisioning (`AfterProvision`); what was looked up
  includes all there is, and with a deployment config its RC (`LookedUp`, which
  needs `RCsOwned`: outside a deletion no RC is without its deployment config);
  what still exists is on a list of things to delete (`Doomed`).

`ServiceInstanceProofs` proves, from `InstanceAssumption`, that is for every
table of handlers that satisfy `IsHandler`, any number of failures and all
surroundings:

* `ServiceTypes`: `Spec => []TypeOK`. What a goroutine has left to do is data
  here, so that the type invariant needs to know that it is a program which the
  goroutine can execute (`Programmed`: each step is of its repertoire, and a group
  or a lot it names is there). A goroutine that is started has its program
  written over what was there; `Succession` says that it was idle. `Counted` ties
  the counter of a chain or list to its length, and `PodsOfRCs` keeps pods
  to what has pods.
* `VolumesAwaited`: `Spec /\ env.faults # "crash" => VolumesAsPromised`, the
  refinement of `VolumeJobContract` by both lots. What a step can do to a lot is
  one of five things (`LotMoves`: undisturbed, its asker goes on, it is asked
  for, settled, released), and each is a step of the contract or a stutter. It
  needs `Awaited`: an asker asks once, waits while its job is at work, and the
  second lot's asker starts when the first one's has ended. The hypothesis is
  needed: in a crash a lot is settled, released and its asker gone in one step,
  which is three of the contract. `services_live`, which checks the same
  property, has no crash either.

`ServiceRemovalProofs` and `ServiceOutcomeProofs` prove the properties that depend
on what the services post, look up and undo, from `InstanceAssumption` and
`TablesAssumption`: for every table that keeps these conditions, any number of
services, resources and failures. The first is about what `DoDeprovision` leaves
behind:

* `Known`: what exists, or can still be posted, is in the tables
  (`BroughtOnly`), a job and its helpers run only where there is one
  (`JobOnly`), a claim has a lot and its job was asked for (`VolumesOnly`).
* `OInv`: things come in their order. As long as somebody leads on to more of
  the instance the final resource is not there (`Ordered`), nor a user to log
  in (`HasUser`), nor, with slow pods, pods (`PodsLate`); who undoes does
  nothing else (`Pure`). This is what a verdict is worth: once there is one,
  nobody posts any more.
* `RemovalInvariant` adds to these what a client finds and does. `Finished`: one
  that has waited for the verdict comes when nobody is at work. `WholeAhead`:
  before it has stopped the job it has all its look-ups ahead. `Clearing`:
  what exists is being drained or is still to be found and deleted. The last is
  inductive only with the others: a look-up that passes a resource over does so
  because it is not there, and nobody is left to post it.
* `ServiceRemovalIsClean`: `CleanRemoval`, whatever is refused and after a
  crash; `OrphansAreHelpers`: `OrphansComeFromHelpers`, where the invariant spares
  the groups of the helpers (`Spared`).

`ServiceOutcomeProofs` is about what becomes of a provisioning:

* `VerdictInvariant`. `Track`: as long as nothing unforeseen fails, an instance
  that somebody leads on, or that has its final resource, is on its way:
  every resource is there or is still to be posted, every lot is there or is still
  to be asked for, and nobody takes anything away. `UserIsLast` and `Smooth` are the same for
  the services whose verdict asks for the user, or for pods.
* `SucceededHasAll`: `SucceededIsBindable`, and `VerdictStaysFinal`:
  `VerdictIsFinal`. Both follow from `VerdictMeans`: in a state with a verdict
  no goroutine is at work and all there is to come has come.
* `OutcomeInvariant`, with `WayOut`: where calls may be refused, the
  provisioning is either `Building` (each thing of its chain is there or ahead
  of it, and what is there before the chain is complete is remembered by the goroutine that
  would undo it) or `Undone` (what exists is going to be deleted, by the error branch
  or the deprovisioning it starts). A refusal is the one step that leads from the first
  to the second.
* `RefusedIsUndone`: `AllOrNothing`, which is `WayOut` where all is quiet.

`Answered` of `ServiceInstance` was a CASE with two guards that overlap, for
which TLC takes the first and the prover may take neither; it is an IF now.

`WatchPvcProofs` proves, for channels of any size and any number of events, from
`WatchAssumption`: `WatchTypes`, `NilIsTrue`, `ToldInOrder`
and `RoomFreesWatcher`, from the invariant `IInv`, whose parts are `Shape` (who
has been started and who has left), `Heard` (a bound phase on the way to
the waiter means that the claim was bound), `LastTold` (the last thing on the
way is the claim as it is) and `Room` (what a waiter that has left can still be
sent). `RoomFreesWatcher` is not inductive without `Room`: a watcher that has
read a line when the waiter leaves sends it, and may read one more only if it
looked at canceled before.

`PlanSizesProofs` proves, for every plan with a positive step and every
request, `SizeSuffices`, `SizesGrowTogether` and `AskingAgainIsIdle`. They rest
on `CeilBounds` and `CeilIsUnique`, which characterise rounding up, and on
`Multiples`. They do not say that a size is positive: nothing in the code does.

Left to TLC:

* liveness under fairness (`StarterIsAnswered`, `PollEndsUnlessBlocked`,
  `FailureIsCleaned`, `ProvisionCompletes`, `DeprovisionEnds`, `BoundIsNoticed`, `ProbeEnds`),
  which is beyond the prover;
* that the tables of the 21 services keep `InstanceAssumption` and
  `TablesAssumption`, which is an evaluation;
* the violations.

Every safety property of a passing run is stated by a theorem, about
`ServiceInstance` for tables that keep the conditions, elsewhere for all constants.

## 5. What is left out, and why

* The catalog, JSON, templates, names, passwords, logging: data that no
  property tells apart.
* `LastOperation`'s HTTP part, `DoBind`, `DoUnbind` of etcd-pvc: they read and
  change nothing; `LastOperation`'s condition is in `PvcHandler`.
* storm with volumes, by its own comment unfinished. neo4j's `DoUpdate`: an
  expanding job as in `PvcHandler`. cassandra's `DoBind` and `DoUnbind` create
  and drop a database user per binding, apart from the instance.
* In `ServiceInstance` a lot of volumes is one thing, and the sweep of RCs under
  labels is left to `PvcHandler`: what a deployment config leaves behind there
  is gone with it here. Branches on a watch's `false` result are left out,
  as nothing sends false.
* In `ServiceInstance` a call whose reply is lost takes effect at once. Late
  effects are in `PvcVolumeJob` (`LateRequest`) and `PvcHandler` (`LatePost`).
* A watcher that waits in `ReadBytes` on a connection that stays silent:
  `LeftWithRoom` is about one that sends.
* `updateBearerToken`: one goroutine that replaces one string.
* `NewThirteenLengthID`: names are values, and one instance has one.
* Several instances: they share only the namespace, which `Foreign` stands for.
* A crash between two etcd calls of one request, and in `PvcHandler`: the
  crash that loses jobs and goroutines is in `ServiceInstance`.

## 6. Plan

What is left, in order of importance:

1. `WatchPvc` as a refinement of the steps `EnterWait`, `KWatch`, `WaitBound` and
   `WaitError` of `PvcVolumeJob`.
2. `Broker`: a crash of the broker between two calls of a request.
3. `InstanceNames`: `NewThirteenLengthID` with its bits (TLC only: bitwise
   operators).
