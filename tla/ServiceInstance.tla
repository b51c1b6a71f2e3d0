--------------------------- MODULE ServiceInstance ---------------------------
(***************************************************************************)
(* One instance of any of the services whose handlers are written down in  *)
(* PlainHandlers, VolumeHandlers and JobHandlers: the goroutines that      *)
(* execute their programs, the table entries they meet at, and the cluster *)
(* they work on.                                                           *)
(*                                                                         *)
(* The volume jobs are here only what VolumeJobContract says of them, a    *)
(* lot of volumes being settled as a whole; PvcVolumeJob keeps that        *)
(* contract.                                                               *)
(***************************************************************************)
EXTENDS HandlerPrograms, FiniteSets

CONSTANTS
  Handlers,      \* service -> its tables and programs
  Surroundings,  \* of this run: a service, a client, faults, slow pods
  MaxFailures    \* how many calls may fail

ASSUME InstanceAssumption ==
  /\ Surroundings \subseteq
       [service : DOMAIN Handlers,
        client : {"hasty", "waits", "polls"},
        faults : {"none", "refused", "any", "crash"},
        lag : BOOLEAN]
  /\ \A service \in DOMAIN Handlers : IsHandler(Handlers[service])
  /\ MaxFailures \in Nat

VARIABLES
  env,        \* the service and the surroundings, chosen once
  code,       \* [Routines -> what each goroutine has still to do]
  n,          \* how far it is in its present step
  got,        \* what it has posted or found in that step
  sent,       \* goroutines of the job with a post under way
  cancelled,  \* of the orchestration job
  record,     \* of the instance: "no", "yes", or "gone"
  made,       \* the resources that exist
  running,    \* those of them whose pods run
  draining,   \* RCs scaled down to be deleted
  users,      \* of the database in the pods
  jobs,       \* per lot of volumes, how far its job is
  listed,     \* the lots whose job is in the table
  claims,     \* per lot, whether its claims exist
  failures,   \* how many calls have failed
  crashed     \* whether the broker has crashed, and whether the instance
              \* was already being removed

programVars == <<code, n, got, sent, cancelled>>
clusterVars == <<made, running, draining, users>>
volumeVars == <<jobs, listed, claims>>
lifeVars == <<env, programVars, record, clusterVars, volumeVars, failures>>
vars == <<lifeVars, crashed>>

-----------------------------------------------------------------------------
(* provisioner: the goroutine of DoProvision, with what DoProvision does   *)
(* before it returns.  job: the orchestration job, in the table as long as *)
(* it has anything to do.  helper, helper2: the goroutines in which it     *)
(* posts.  client: the goroutine of the DoDeprovision a client asks for.   *)
(* self: that of the one the handler calls itself.                         *)
Routines == {"provisioner", "job", "helper", "helper2", "client", "self"}
Posters == {"job", "helper", "helper2"}
Lots == 1..2

Handler == Handlers[env.service]
Now(r) == Head(code[r])
Doing(r, what) == code[r] # <<>> /\ Now(r).do = what

Kind(res) == Handler.load[res[1]][res[2]]
Resources == UNION {{<<g, f>> : f \in DOMAIN Handler.load[g]} : g \in DOMAIN Handler.load}
Of(group, fields) == {<<group, f>> : f \in fields}

(* What the record of the instance names: nothing if the names were filled *)
(* in after it was saved.                                                  *)
Blank == \E i \in 1..Len(Handler.DoProvision) : Handler.DoProvision[i] = SavedBlank
Found(res) == res \in made /\ ~Blank

(* hasty: deprovisions at any time.  waits: not before DoProvision's       *)
(* goroutine has ended.  polls: only when DoLastOperation has given a      *)
(* verdict, or nothing moves any more.  refused: posts and volumes may be  *)
(* refused.  any: any call may fail, and a post or delete that failed may  *)
(* have been carried out or not.  crash: the broker may crash, once, and   *)
(* is started again.  lag: pods come up more slowly than a chain is posted. *)
Init ==
  /\ env \in Surroundings
  /\ code = [r \in Routines |-> IF r = "provisioner" THEN Handler.DoProvision ELSE <<>>]
  /\ n = [r \in Routines |-> 0]
  /\ got = [r \in Routines |-> {}]
  /\ sent = {}
  /\ cancelled = FALSE
  /\ record = "no"
  /\ made = {}
  /\ running = {}
  /\ draining = {}
  /\ users = {"default"}
  /\ jobs = [l \in Lots |-> "none"]
  /\ listed = {}
  /\ claims = [l \in Lots |-> "none"]
  /\ failures = 0
  /\ crashed = "no"

-----------------------------------------------------------------------------
(* Going on, doing something else instead, leaving.                        *)
Continue(r) == code' = [code EXCEPT ![r] = Tail(@)]
Instead(r, program) == code' = [code EXCEPT ![r] = program]
Leave(r) == Instead(r, <<>>)

ACallFails(kinds) ==
  /\ env.faults \in kinds /\ failures < MaxFailures
  /\ failures' = failures + 1

(* err := <-etcdSaveResult.                                                *)
Save(r) ==
  /\ Doing(r, "saved") \/ Doing(r, "saved blank")
  /\ \/ /\ record' = "yes"
        /\ Continue(r)
        /\ UNCHANGED failures
     \/ /\ ACallFails({"any"})
        /\ Leave(r)
        /\ UNCHANGED record
  /\ UNCHANGED <<env, n, got, sent, cancelled, clusterVars, volumeVars>>

(* A job's kpost looks at cancelled before each try, and says nil when it  *)
(* is set; then the request is under way.                                  *)
Send(r) ==
  /\ r \in Posters /\ Doing(r, "post") /\ r \notin sent
  /\ \/ /\ cancelled
        /\ Continue(r)
        /\ n' = [n EXCEPT ![r] = 0]
        /\ UNCHANGED sent
     \/ /\ ~cancelled
        /\ sent' = sent \cup {r}
        /\ UNCHANGED <<code, n>>
  /\ UNCHANGED <<env, got, cancelled, record, clusterVars, volumeVars, failures>>

(* The next of a chain of posts, which stops at the first error.           *)
PostNext(r) ==
  /\ Doing(r, "post") /\ (r \in Posters => r \in sent)
  /\ LET res == <<Now(r).group, Now(r).chain[n[r] + 1]>>
     IN \/ /\ made' = made \cup {res}
           /\ IF n[r] + 1 = Len(Now(r).chain)
                THEN Continue(r) /\ n' = [n EXCEPT ![r] = 0] /\ got' = [got EXCEPT ![r] = {}]
                ELSE /\ n' = [n EXCEPT ![r] = @ + 1]
                     /\ got' = [got EXCEPT ![r] = @ \cup {res}]
                     /\ UNCHANGED code
           /\ UNCHANGED failures
        \/ /\ ACallFails({"refused", "any"})
           /\ made' = made \/ (env.faults = "any" /\ made' = made \cup {res})
           /\ Instead(r, Now(r).else)
           /\ n' = [n EXCEPT ![r] = 0]
           /\ UNCHANGED got
  /\ sent' = sent \ {r}
  /\ UNCHANGED <<env, cancelled, record, running, draining, users, volumeVars>>

(* Mistake: an RC is deleted without being scaled down, and its pods stay. *)
DeleteUnscaled(set) ==
  /\ made' = made \ {res \in set : Kind(res) # Rc}
  /\ draining' = draining \cup {res \in set : Kind(res) \in {Rc, Dc}}
  /\ running' = running

(* kdel, odel and kdel_rc of a set of resources that exist.  An RC is      *)
(* scaled down first; a deployment config goes at once and leaves its RC.  *)
Delete(set) ==
  LET slow == {res \in set : Kind(res) \in {Rc, Dc}}
  IN /\ made' = made \ {res \in set : Kind(res) # Rc}
     /\ draining' = draining \cup slow
     /\ running' = running \ slow

(* All of them, unless a deletion fails.                                   *)
DeleteAll(set) ==
  \/ Delete(set) /\ UNCHANGED failures
  \/ ACallFails({"any"}) /\ \E res \in set : Delete(set \ {res})

UndoChain(r) ==
  /\ Doing(r, "undo")
  /\ DeleteAll(got[r] \cap Of(Now(r).group, Now(r).fields))
  /\ got' = [got EXCEPT ![r] = {}]
  /\ Continue(r)
  /\ UNCHANGED <<env, n, sent, cancelled, record, users, volumeVars>>

Kdelete(r) ==
  /\ Doing(r, "kdel")
  /\ DeleteAll(made \cap Of(Now(r).group, Now(r).fields))
  /\ Continue(r)
  /\ UNCHANGED <<env, n, got, sent, cancelled, record, users, volumeVars>>

(* Look up the next of a list; delete what was found.                      *)
LookUp(r) ==
  /\ Doing(r, "remove") /\ n[r] < Len(Now(r).list)
  /\ LET res == <<Now(r).group, Now(r).list[n[r] + 1]>>
     IN \/ /\ got' = [got EXCEPT ![r] = IF Found(res) THEN @ \cup {res} ELSE @]
           /\ UNCHANGED failures
        \/ /\ Found(res) /\ ACallFails({"any"})
           /\ UNCHANGED got
  /\ n' = [n EXCEPT ![r] = @ + 1]
  /\ UNCHANGED <<env, code, sent, cancelled, record, clusterVars, volumeVars>>

DestroyFound(r) ==
  /\ Doing(r, "remove") /\ n[r] = Len(Now(r).list)
  /\ DeleteAll(got[r] \cap made \cap Of(Now(r).group, Now(r).fields))
  /\ n' = [n EXCEPT ![r] = 0]
  /\ got' = [got EXCEPT ![r] = {}]
  /\ Continue(r)
  /\ UNCHANGED <<env, sent, cancelled, record, users, volumeVars>>

Look(r) ==
  /\ Doing(r, "find")
  /\ \/ /\ All(Now(r).group, Now(r).list) \subseteq made
        /\ Continue(r)
        /\ UNCHANGED failures
     \/ /\ \/ ~ All(Now(r).group, Now(r).list) \subseteq made /\ UNCHANGED failures
           \/ ACallFails({"any"})
        /\ Instead(r, Now(r).else)
  /\ UNCHANGED <<env, n, got, sent, cancelled, record, clusterVars, volumeVars>>

(* StartCreatePvcVolumnJob, then <-result.                                 *)
AskForVolumes(r) ==
  /\ Doing(r, "volumes") /\ jobs[Now(r).lot] = "none"
  /\ jobs' = [jobs EXCEPT ![Now(r).lot] = "creating"]
  /\ listed' = listed \cup {Now(r).lot}
  /\ UNCHANGED <<env, programVars, record, clusterVars, claims, failures>>

(* Mistake: the handler goes on while its volumes are being created.       *)
VolumesUnawaited(r) ==
  /\ Doing(r, "volumes") /\ jobs[Now(r).lot] # "none"
  /\ Continue(r)
  /\ UNCHANGED <<env, n, got, sent, cancelled, record, clusterVars, volumeVars, failures>>

VolumesAnswered(r) ==
  /\ Doing(r, "volumes")
  /\ \/ /\ jobs[Now(r).lot] = "done"
        /\ Continue(r)
     \/ /\ jobs[Now(r).lot] \in {"answered", "failed", "blocked"}
        /\ Instead(r, Now(r).else)
  /\ UNCHANGED <<env, n, got, sent, cancelled, record, clusterVars, volumeVars, failures>>

DeleteVolumes(r) ==
  /\ Doing(r, "delete volumes")
  /\ \/ /\ claims' = [claims EXCEPT ![Now(r).lot] = IF @ = "there" THEN "gone" ELSE @]
        /\ UNCHANGED failures
     \/ ACallFails({"any"}) /\ UNCHANGED claims
  /\ Continue(r)
  /\ UNCHANGED <<env, n, got, sent, cancelled, record, clusterVars, jobs, listed>>

(* startXOrchestrationJob.                                                 *)
Start(r) ==
  /\ Doing(r, "start job")
  /\ code' = [code EXCEPT ![r] = Tail(@), !["job"] = Handler.run]
  /\ UNCHANGED <<env, n, got, sent, cancelled, record, clusterVars, volumeVars, failures>>

(* Mistake: the job waits for pods without a look at cancelled.            *)
WaitForPodsOnly(r) ==
  /\ Doing(r, "wait")
  /\ Of(Now(r).group, Now(r).fields) \subseteq running
  /\ Continue(r)
  /\ UNCHANGED <<env, n, got, sent, cancelled, record, clusterVars, volumeVars, failures>>

(* What the job does between its posts.                                    *)
WaitForPods(r) ==
  /\ Doing(r, "wait")
  /\ \/ cancelled /\ Leave(r)
     \/ Of(Now(r).group, Now(r).fields) \subseteq running /\ Continue(r)
  /\ UNCHANGED <<env, n, got, sent, cancelled, record, clusterVars, volumeVars, failures>>

LookAtCancelled(r) ==
  /\ Doing(r, "check")
  /\ IF cancelled THEN Leave(r) ELSE Continue(r)
  /\ UNCHANGED <<env, n, got, sent, cancelled, record, clusterVars, volumeVars, failures>>

WaitInited(r) ==
  /\ Doing(r, "inited")
  /\ \/ (IF cancelled THEN Leave(r) ELSE Continue(r)) /\ UNCHANGED failures
     \/ ACallFails({"any"}) /\ Leave(r)
  /\ UNCHANGED <<env, n, got, sent, cancelled, record, clusterVars, volumeVars>>

FollowWatch(r) ==
  /\ Doing(r, "watch")
  /\ \/ cancelled /\ Leave(r) /\ UNCHANGED failures
     \/ /\ Of(Now(r).group, Now(r).fields) \subseteq made
        /\ Continue(r)
        /\ UNCHANGED failures
     \/ ACallFails({"any"}) /\ Instead(r, Now(r).else)
  /\ UNCHANGED <<env, n, got, sent, cancelled, record, clusterVars, volumeVars>>

StartHelper(r) ==
  /\ Doing(r, "go")
  /\ code' = [code EXCEPT ![r] = Tail(@), ![Now(r).helper] = Now(r).program]
  /\ UNCHANGED <<env, n, got, sent, cancelled, record, clusterVars, volumeVars, failures>>

(* The database answers while its pods and its service are there.  The     *)
(* first loop looks at cancelled, the second does not.                     *)
Reachable == <<"HA", "rc">> \in running /\ <<"HA", "service">> \in made

CreateTheUser(r) ==
  /\ Doing(r, "create user")
  /\ \/ /\ cancelled
        /\ Leave(r)
        /\ UNCHANGED <<users, failures>>
     \/ /\ ~cancelled /\ Reachable /\ "instance" \notin users
        /\ users' = users \cup {"instance"}
        /\ \/ Continue(r) /\ UNCHANGED failures
           \/ ACallFails({"any"}) /\ UNCHANGED code
  /\ UNCHANGED <<env, n, got, sent, cancelled, record, made, running, draining, volumeVars>>

DropTheUser(r) ==
  /\ Doing(r, "drop user")
  /\ Reachable /\ "default" \in users
  /\ users' = users \ {"default"}
  /\ \/ Continue(r) /\ UNCHANGED failures
     \/ ACallFails({"any"}) /\ UNCHANGED code
  /\ UNCHANGED <<env, n, got, sent, cancelled, record, made, running, draining, volumeVars>>

-----------------------------------------------------------------------------
(* DoDeprovision: cancel a job that is in the table, poll until there is   *)
(* none.                                                                   *)
StopVolumeJob(r) ==
  /\ Doing(r, "stop volumes")
  /\ LET l == Now(r).lot
     IN \/ l \notin listed /\ Continue(r) /\ UNCHANGED jobs
        \/ /\ l \in listed /\ jobs[l] = "creating"
           /\ jobs' = [jobs EXCEPT ![l] = "cancelled"]
           /\ UNCHANGED code
  /\ UNCHANGED <<env, n, got, sent, cancelled, record, clusterVars, listed, claims, failures>>

(* Mistake: the job is cancelled and not waited for.                       *)
StopWithoutWaiting(r) ==
  /\ Doing(r, "stop job")
  /\ cancelled' = (code["job"] # <<>>)
  /\ Continue(r)
  /\ UNCHANGED <<env, n, got, sent, record, clusterVars, volumeVars, failures>>

StopTheJob(r) ==
  /\ Doing(r, "stop job")
  /\ \/ code["job"] = <<>> /\ Continue(r) /\ UNCHANGED cancelled
     \/ /\ code["job"] # <<>> /\ ~cancelled
        /\ cancelled' = TRUE
        /\ UNCHANGED code
  /\ UNCHANGED <<env, n, got, sent, record, clusterVars, volumeVars, failures>>

(* The handler calls its own DoDeprovision.                                *)
DeprovisionSelf(r) ==
  /\ Doing(r, "deprovision")
  /\ code' = [code EXCEPT ![r] = Tail(@), !["self"] = Handler.DoDeprovision]
  /\ UNCHANGED <<env, n, got, sent, cancelled, record, clusterVars, volumeVars, failures>>

Step(r) ==
  \/ Save(r) \/ Send(r) \/ PostNext(r) \/ UndoChain(r) \/ Kdelete(r)
  \/ LookUp(r) \/ DestroyFound(r) \/ Look(r)
  \/ AskForVolumes(r) \/ VolumesAnswered(r) \/ DeleteVolumes(r)
  \/ Start(r) \/ WaitForPods(r) \/ LookAtCancelled(r) \/ WaitInited(r) \/ FollowWatch(r)
  \/ StartHelper(r) \/ CreateTheUser(r) \/ DropTheUser(r)
  \/ StopVolumeJob(r) \/ StopTheJob(r) \/ DeprovisionSelf(r)

-----------------------------------------------------------------------------
(* The volume job of a lot, as VolumeJobContract has it.  Of several       *)
(* volumes one may fail, and be answered for, while others are still being *)
(* created; two that fail can block the job.                               *)
Several(l) == Handler.volumes[l] > 1

CreateClaims(l) ==
  /\ jobs[l] \in {"creating", "cancelled", "answered"} /\ claims[l] = "none"
  /\ claims' = [claims EXCEPT ![l] = "there"]
  /\ UNCHANGED <<jobs, failures>>

VolumesBound(l) ==
  /\ jobs[l] \in {"creating", "cancelled"} /\ claims[l] = "there"
  /\ jobs' = [jobs EXCEPT ![l] = "done"]
  /\ UNCHANGED <<claims, failures>>

OneVolumeFails(l) ==
  /\ jobs[l] = "creating" /\ Several(l)
  /\ ACallFails({"refused", "any"})
  /\ jobs' = [jobs EXCEPT ![l] = "answered"]
  /\ UNCHANGED claims

VolumesFail(l) ==
  /\ \/ jobs[l] \in {"creating", "cancelled"} /\ ACallFails({"refused", "any"})
     \/ jobs[l] = "cancelled" /\ claims[l] # "none" /\ UNCHANGED failures
     \/ jobs[l] = "creating" /\ claims[l] = "gone" /\ UNCHANGED failures
     \/ jobs[l] = "answered" /\ claims[l] # "none" /\ UNCHANGED failures
  /\ \/ jobs' = [jobs EXCEPT ![l] = "failed"]
     \/ Several(l) /\ jobs' = [jobs EXCEPT ![l] = "blocked"]
  /\ UNCHANGED claims

VolumeJob(l) ==
  \/ /\ CreateClaims(l) \/ VolumesBound(l) \/ OneVolumeFails(l) \/ VolumesFail(l)
     /\ UNCHANGED <<env, programVars, record, clusterVars, listed>>
  \/ /\ l \in listed /\ jobs[l] \in {"done", "failed"}
     /\ listed' = listed \ {l}
     /\ UNCHANGED <<env, programVars, record, clusterVars, jobs, claims, failures>>

(* The cluster: pods come up, of one group at a time; kdel_rc deletes the  *)
(* RCs it has scaled down.                                                 *)
Posting == \E r \in Routines : Doing(r, "post") \/ Doing(r, "undo")

PodsRun(g) ==
  LET up == {res \in made : res[1] = g /\ Kind(res) \in {Rc, Dc}} \ (running \cup draining)
  IN /\ up # {}
     /\ env.lag => ~Posting
     /\ running' = running \cup up
     /\ UNCHANGED <<env, programVars, record, made, draining, users, volumeVars, failures>>

DeleteRCs ==
  /\ draining # {}
  /\ draining' = {}
  /\ \/ made' = made \ draining /\ UNCHANGED failures
     \/ /\ ACallFails({"any"})
        /\ \E res \in draining \cap made : made' = made \ (draining \ {res})
  /\ UNCHANGED <<env, programVars, record, running, users, volumeVars>>

-----------------------------------------------------------------------------
(* DoLastOperation.  An RC that is being scaled down wants no pods, and    *)
(* has them.                                                               *)
Up(res) == Found(res) /\ res \in running \cup draining

LastOperation ==
  LET this == Handler.DoLastOperation
      InOrder ==
        /\ \A res \in this.ready : IF this.pods THEN Up(res) ELSE Found(res)
        /\ this.user => "instance" \in users
  IN IF this.lots \cap listed # {} THEN "in progress"
     ELSE IF ~ \A res \in this.needs : Found(res) THEN "error"
     ELSE IF this.job /\ code["job"] # <<>> THEN "in progress"
     ELSE IF ~ \A res \in this.must : Found(res) THEN "failed"
     ELSE IF InOrder THEN "succeeded" ELSE "in progress"

Quiet ==
  /\ \A r \in Routines : code[r] = <<>>
  /\ draining = {}
  /\ \A l \in listed : jobs[l] = "blocked"

(* A client calls Deprovision: DoDeprovision's goroutine is started, and   *)
(* the record deleted.                                                     *)
ClientDeprovisions ==
  /\ record = "yes"
  /\ \/ env.client = "hasty"
     \/ env.client = "waits" /\ code["provisioner"] = <<>>
     \/ env.client = "polls" /\ (LastOperation \in {"succeeded", "failed"} \/ Quiet)
  /\ record' = "gone"
  /\ code' = [code EXCEPT !["client"] = Handler.DoDeprovision]
  /\ UNCHANGED <<env, n, got, sent, cancelled, clusterVars, volumeVars, failures>>

(* The process dies with its goroutines and tables; a post that was under  *)
(* way may still be carried out, and so may the claims of a volume job.    *)
(* An RC that was scaled down stays, and has the no pods it wants.         *)
Crash ==
  /\ env.faults = "crash" /\ crashed = "no"
  /\ crashed' = IF record = "gone" THEN "removing" ELSE "working"
  /\ code' = [r \in Routines |-> <<>>]
  /\ n' = [r \in Routines |-> 0]
  /\ got' = [r \in Routines |-> {}]
  /\ sent' = {}
  /\ \E late \in SUBSET {<<Now(r).group, Now(r).chain[n[r] + 1]>> : r \in sent} :
       made' = made \cup late
  /\ running' = running \cup (draining \cap made)
  /\ draining' = {}
  /\ listed' = {}
  /\ jobs' = [l \in Lots |-> IF jobs[l] \in {"none", "done"} THEN jobs[l] ELSE "failed"]
  /\ \E late \in SUBSET {l \in listed : jobs[l] \in {"creating", "cancelled"}} :
       claims' = [l \in Lots |->
                    IF l \in late /\ claims[l] = "none" THEN "there" ELSE claims[l]]
  /\ UNCHANGED <<env, cancelled, record, users, failures>>

Next ==
  \/ /\ \/ \E r \in Routines : Step(r)
        \/ \E l \in Lots : VolumeJob(l)
        \/ \E g \in DOMAIN Handler.load : PodsRun(g)
        \/ DeleteRCs
        \/ ClientDeprovisions
     /\ UNCHANGED crashed
  \/ Crash

(* A job that has created its volumes asks for a watch of each.  That      *)
(* request has no timeout, looks at no channel, and comes before the timer *)
(* of the wait (datafoundry.go:455, openshift.go:149-150): where the       *)
(* network may fail, it may never be answered.                             *)
Watching(l) ==
  /\ env.faults = "any"
  /\ jobs[l] \in {"creating", "cancelled", "answered"} /\ claims[l] # "none"

(* The goroutines run on, all other requests end, and the cluster's        *)
(* controllers do their work.  Nobody has to deprovision.                  *)
Groups == UNION {DOMAIN Handlers[e.service].load : e \in Surroundings}
Fairness ==
  /\ \A r \in Routines : WF_lifeVars(Step(r))
  /\ \A l \in Lots : WF_lifeVars(VolumeJob(l) /\ ~Watching(l))
  /\ \A g \in Groups : WF_lifeVars(g \in DOMAIN Handler.load /\ PodsRun(g))
  /\ WF_lifeVars(DeleteRCs)

Spec == Init /\ [][Next]_vars
FairSpec == Spec /\ Fairness

-----------------------------------------------------------------------------
(* Types, and besides: a post is under way only in a goroutine whose next  *)
(* step it is, and pods count as running only for an RC that exists.       *)
TypeOK ==
  /\ env \in Surroundings
  /\ DOMAIN code = Routines
  /\ n \in [Routines -> Nat]
  /\ \A r \in Routines : code[r] = <<>> => n[r] = 0
  /\ got \in [Routines -> SUBSET Resources]
  /\ sent \subseteq {r \in Posters : Doing(r, "post")}
  /\ cancelled \in BOOLEAN
  /\ record \in {"no", "yes", "gone"}
  /\ made \in SUBSET Resources /\ running \in SUBSET made
  /\ draining \in SUBSET Resources
  /\ users \in SUBSET {"default", "instance"}
  /\ jobs \in [Lots -> {"none", "creating", "cancelled", "answered",
                       "done", "failed", "blocked"}]
  /\ listed \in SUBSET Lots
  /\ claims \in [Lots -> {"none", "there", "gone"}]
  /\ failures \in 0..MaxFailures
  /\ crashed \in {"no", "working", "removing"}

(* The services whose record does not name their resources                 *)
(* (zookeeper_standalone.go:129).                                          *)
Unnamed == {"zookeeper"}

(* The services whose verdict comes before their provisioning is over: it  *)
(* does not depend on what the job posts (kafka_volumes_standalone.go:290), *)
(* or is a failure as long as DoProvision has not posted                   *)
(* (spark_standalone.go:212).                                              *)
EarlyWord == {"kafka_pvc", "spark"}

(* The services whose verdict needs only what their chain posts first:     *)
(* right as long as pods take longer than the rest of the chain.           *)
RcsFirst == {"etcd", "kettle", "nifi", "pyspider", "rabbitmq", "tensorflow",
             "elasticsearch_pvc", "neo4j_pvc", "rabbitmq_pvc", "zookeeper_pvc"}

VerdictIsLate ==
  /\ env.service \notin Unnamed \cup EarlyWord
  /\ env.service \in RcsFirst => env.lag

(* A client that waits for the verdict, and deprovisions then, leaves      *)
(* nothing of the instance behind, whatever was refused and even if the    *)
(* broker has crashed meanwhile: what was posted is looked up under the    *)
(* names it was posted under, and the volumes go too (every                *)
(* DoDeprovision, with the getX and destroyX it calls).                    *)
Clean == made = {} /\ \A l \in Lots : claims[l] # "there"
CleanRemoval ==
     /\ env.client = "polls" /\ env.faults # "any" /\ VerdictIsLate
     /\ record = "gone" /\ crashed # "removing" /\ Quiet
  => Clean

(* An instance reported as succeeded has everything its DoBind reads, and  *)
(* its volumes, although a verdict looks at pods and at the job tables     *)
(* only (DoLastOperation and DoBind).                                      *)
Interrupted == failures > 0 \/ crashed # "no"
Trusted ==
  /\ VerdictIsLate
  /\ Interrupted => env.faults # "any" /\ env.service \notin RcsFirst
SucceededIsBindable ==
  Trusted /\ record = "yes" /\ LastOperation = "succeeded"
    => /\ \A res \in Handler.DoBind : Found(res)
       /\ \A l \in DOMAIN Handler.volumes : claims[l] = "there"

(* When a call of DoProvision is refused, what it had made is undone: once *)
(* everything is at rest there is all of what it posts, or nothing         *)
(* (the error branches of DoProvision).  Some handlers do not undo, and    *)
(* some keep the node port they posted before there was a record.          *)
NotUndone == {"etcd", "elasticsearch_pvc", "kafka_pvc"}
NodePortKept ==
  {"neo4j_pvc", "rabbitmq_pvc", "redissingle_pvc", "zookeeper_pvc", "storm_external"}
Chains == {i \in 1..Len(Handler.DoProvision) : Handler.DoProvision[i].do = "post"}
Own == UNION {All(Handler.DoProvision[i].group, Handler.DoProvision[i].chain) : i \in Chains}
AllOrNothing ==
     /\ env.faults \in {"none", "refused"}
     /\ env.service \notin NotUndone \cup NodePortKept
     /\ record # "gone" /\ Quiet
  => Clean \/ Own \subseteq made

(* A client that deprovisions while the orchestration job is at work       *)
(* leaves nothing but what the job posts from a goroutine of its own: the  *)
(* job is cancelled and waited for, that goroutine is not (run and         *)
(* DoDeprovision of the handlers with a job).                              *)
Helpers == {i \in 1..Len(Handler.run) : Handler.run[i].do = "go"}
Helped == {Handler.run[i].program[1].group : i \in Helpers}
OrphansComeFromHelpers ==
     /\ env.client = "waits" /\ env.faults = "none" /\ env.service \notin Unnamed
     /\ record = "gone" /\ Quiet
  => /\ \A res \in made : res[1] \in Helped
     /\ \A l \in Lots : claims[l] # "there"

(* What the comment "wait job to exit" of DoDeprovision is for: nothing is *)
(* posted after the look-ups.  It does not hold.                           *)
NothingLeftBehind == record = "gone" /\ Quiet => Clean

(* A verdict of DoLastOperation stands as long as the instance does: the   *)
(* platform stops polling at the first (the last chain a service posts     *)
(* ends with what its verdict needs).                                      *)
Verdict == LastOperation \in {"succeeded", "failed"}
VerdictIsFinal ==
  [][record = "yes" /\ record' = "yes" /\ Verdict /\ Trusted
       => LastOperation' = LastOperation]_vars

(* Every deprovisioning comes to its end, polls of job tables included,    *)
(* unless a volume job blocks (datafoundry.go:175), or is never answered   *)
(* its request for a watch (datafoundry.go:455), or cassandra's job has    *)
(* lost the reply to its last statement and repeats it for ever            *)
(* (cassandra_standalone.go:627).  A lot is watched once, and what is      *)
(* deprovisioned stays so: a poll that does not end is one during which    *)
(* some exception holds for ever.                                          *)
Blocked == \E l \in Lots : jobs[l] = "blocked"
DropsForEver == Doing("job", "drop user") /\ "default" \notin users
Unanswered == \E l \in Lots : Watching(l)
DeprovisionEnds ==
  record = "gone" ~> code["client"] = <<>> \/ Blocked \/ Unanswered \/ DropsForEver

(* If no call fails, an instance that nobody deprovisions is some day      *)
(* reported as succeeded (the waits of the jobs' run functions are for     *)
(* what is really coming).                                                 *)
ProvisionCompletes ==
  env.faults = "none" /\ env.service \notin Unnamed /\ record = "yes"
    ~> LastOperation = "succeeded" \/ record = "gone"

-----------------------------------------------------------------------------
(* The volume jobs of the handlers are asked for, and answer, as           *)
(* VolumeJobContract has it, a lot counting as one volume.                 *)
Asker(l) == IF l = 1 THEN "provisioner" ELSE "job"
Unread(l) == Doing(Asker(l), "volumes") /\ Now(Asker(l)).lot = l

Holder(l) == IF l \in listed THEN Asker(l) ELSE "nobody"
Asked(l) == IF jobs[l] = "none" THEN {} ELSE {Asker(l)}
Settled(l, set) == [r \in {Asker(l)} |-> IF jobs[l] \in set THEN {l} ELSE {}]
Failed == {"answered", "failed", "blocked"}
Answered(l) ==
  [r \in {Asker(l)} |-> IF jobs[l] = "none" \/ Unread(l) THEN "none"
                        ELSE IF jobs[l] = "done" THEN "nil" ELSE "err"]

FirstLot == INSTANCE VolumeJobContract WITH
  Volumes <- {1}, Starters <- {Asker(1)}, Nobody <- "nobody",
  holder <- Holder(1), asked <- Asked(1), refused <- {},
  done <- Settled(1, {"done"}), failed <- Settled(1, Failed), answer <- Answered(1)

SecondLot == INSTANCE VolumeJobContract WITH
  Volumes <- {2}, Starters <- {Asker(2)}, Nobody <- "nobody",
  holder <- Holder(2), asked <- Asked(2), refused <- {},
  done <- Settled(2, {"done"}), failed <- Settled(2, Failed), answer <- Answered(2)

(* The volume jobs as they are here, and the handlers that wait for their  *)
(* answers, keep the contract that PvcVolumeJob implements: an answer is   *)
(* read only when the lot is settled, an error only when a volume failed,  *)
(* and a job stays in the table until then (StartCreatePvcVolumnJob and    *)
(* <-result in DoProvision and in kafka_pvc's run).  As long as the broker *)
(* does not crash: that takes the job and its asker at once.               *)
VolumesAsPromised == FirstLot!Spec /\ SecondLot!Spec
=============================================================================
