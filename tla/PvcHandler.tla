----------------------------- MODULE PvcHandler -----------------------------
(***************************************************************************)
(* One instance of a volume-backed service, from the broker's nil on       *)
(* etcdSaveResult to the last deletion: the etcd-pvc handler               *)
(* (servicebroker/etcd-pvc), whose goroutines use the volume jobs of       *)
(* PvcVolumeJob.                                                           *)
(*                                                                         *)
(* The provisioning goroutine asks for the volumes, then posts a chain of  *)
(* resources and, once the pods run, an init pod.  Deprovisioning          *)
(* goroutines, the clients' and the one the provisioning goroutine starts  *)
(* itself when the volumes fail, wait for the volume job, look up the      *)
(* chain, and delete what they found.  Each deployment config has a        *)
(* replication controller (RC) that has to be deleted separately; all      *)
(* instances of all services keep theirs in one namespace.                 *)
(***************************************************************************)
EXTENDS Naturals, Sequences

CONSTANTS
  Volumes,
  Provisioner,    \* the provisioning goroutine
  Updates,        \* goroutines of DoUpdate
  Deprovisions,   \* goroutines of the clients' DoDeprovision
  SelfUndo,       \* the goroutine of the provisioner's own DoDeprovision
  NoJob,
  Chain,          \* the resources, in the order they are posted
  Dcs,            \* the deployment configs among them, in order
  Pod,            \* the init pod
  Foreign         \* RCs of other instances in the namespace

Resources == {Chain[i] : i \in 1..Len(Chain)}
DcSet == {Dcs[i] : i \in 1..Len(Dcs)}
Undoers == Deprovisions \cup {SelfUndo}

ASSUME HandlerAssumption ==
  /\ Provisioner \notin Updates
  /\ NoJob \notin {Provisioner} \cup Updates
  /\ Volumes # {}
  /\ SelfUndo \notin Deprovisions
  /\ Chain \in Seq(Resources)
  /\ Dcs \in Seq(Resources) /\ Dcs # <<>>
  /\ DcSet \subseteq Resources
  /\ Pod \notin Resources
  /\ Foreign \cap Resources = {}

VARIABLES
  jobs, cancelled, spc, got, c, rpc, gpc, errChan, kpc, ktgt, dels, pvc, grown,
  stage,     \* what the provisioning goroutine is doing
  posted,    \* how many of the chain it has posted
  belated,   \* posts it gave up and the server may yet carry out
  made,      \* the resources that exist
  rcs,       \* the RCs that exist
  rolled,    \* the deployment configs whose RC has been created
  asked,     \* how many of the chain each undoer has looked up
  found,     \* those it has found
  swept,     \* for how many deployment configs it has listed the RCs
  doomed,    \* deletions of resources each undoer has in flight
  rcDoomed,  \* deletions of RCs each undoer has in flight
  env        \* what the surroundings are like, chosen once

Job == INSTANCE PvcVolumeJob WITH
         Creators <- {Provisioner}, Expanders <- Updates, Cancellers <- Undoers

volumeVars == <<jobs, cancelled, spc, got, c, rpc, gpc, errChan, kpc, ktgt, dels,
                pvc, grown>>
provisionVars == <<stage, posted, belated>>
clusterVars == <<made, rcs, rolled>>
undoVars == <<asked, found, swept, doomed, rcDoomed>>
handlerVars == <<provisionVars, clusterVars, undoVars, env>>
vars == <<volumeVars, handlerVars>>

(* callsFail: requests other than those of a job may fail.  patient: the   *)
(* clients wait for an operation to end before they deprovision.           *)
Envs == [callsFail : BOOLEAN, patient : BOOLEAN]

-----------------------------------------------------------------------------
(* Types, and that no undoer looks anything up before its wait is over.    *)
TypeOK ==
  /\ Job!TypeOK
  /\ stage \in {"volumes", "posting", "init", "undo", "over"}
  /\ posted \in 0..Len(Chain)
  /\ belated \in SUBSET (Resources \cup {Pod})
  /\ made \in SUBSET (Resources \cup {Pod})
  /\ rcs \in SUBSET (DcSet \cup Foreign)
  /\ rolled \in SUBSET DcSet
  /\ asked \in [Undoers -> 0..Len(Chain)]
  /\ \A k \in Undoers : asked[k] > 0 => kpc[k] \in {"clear", "deleting"}
  /\ found \in [Undoers -> SUBSET Resources]
  /\ swept \in [Undoers -> 0..Len(Dcs)]
  /\ doomed \in [Undoers -> SUBSET Resources]
  /\ rcDoomed \in [Undoers -> SUBSET (DcSet \cup Foreign)]
  /\ env \in Envs

Init ==
  /\ Job!Init
  /\ stage = "volumes"
  /\ posted = 0
  /\ belated = {}
  /\ made = {}
  /\ rcs = Foreign
  /\ rolled = {}
  /\ asked = [k \in Undoers |-> 0]
  /\ found = [k \in Undoers |-> {}]
  /\ swept = [k \in Undoers |-> 0]
  /\ doomed = [k \in Undoers |-> {}]
  /\ rcDoomed = [k \in Undoers |-> {}]
  /\ env \in Envs

-----------------------------------------------------------------------------
(* The provisioning goroutine of DoProvision.                              *)

(* StartCreatePvcVolumnJob.                                                *)
AskForVolumes == Job!Start(Provisioner) /\ UNCHANGED handlerVars

(* Mistakes that the checks must notice stand before the definition they   *)
(* would be made in.  Here: err is not looked at; nothing is undone.       *)
VolumesErrorIgnored ==
  /\ Job!Read(Provisioner)
  /\ stage' = "posting"
  /\ UNCHANGED <<posted, belated, clusterVars, undoVars, env>>

VolumesErrorNotUndone ==
  /\ Job!Read(Provisioner)
  /\ stage' = IF c[Provisioner] = "nil" THEN "posting" ELSE "over"
  /\ UNCHANGED <<posted, belated, clusterVars, undoVars, env>>

(* err = <-result: go on to the resources, or undo.                        *)
VolumesAnswered ==
  /\ Job!Read(Provisioner)
  /\ stage' = IF c[Provisioner] = "nil" THEN "posting" ELSE "undo"
  /\ UNCHANGED <<posted, belated, clusterVars, undoVars, env>>

(* createEtcdResources_HA: the chain of posts stops at the first error,    *)
(* which is logged and no more.  A post that timed out (30s) may yet be    *)
(* carried out.                                                            *)
Post ==
  /\ stage = "posting" /\ posted < Len(Chain)
  /\ \/ /\ posted' = posted + 1
        /\ made' = made \cup {Chain[posted + 1]}
        /\ UNCHANGED <<stage, belated>>
     \/ /\ env.callsFail
        /\ stage' = "init"
        /\ belated' \in {belated, belated \cup {Chain[posted + 1]}}
        /\ UNCHANGED <<posted, made>>
  /\ UNCHANGED <<volumeVars, rcs, rolled, undoVars, env>>

ChainPosted ==
  /\ stage = "posting" /\ posted = Len(Chain)
  /\ stage' = "init"
  /\ UNCHANGED <<volumeVars, posted, belated, clusterVars, undoVars, env>>

(* Pods of a deployment config run when its RC and the volumes are there.  *)
PodsRun(d) == d \in rcs /\ \A v \in Volumes : pvc[v] = "bound"

(* initEtcdRootPassword: post the init pod if all pods are seen running in *)
(* one of nine tries.  Either way the goroutine is over.                   *)
InitPod ==
  /\ stage = "init"
  /\ \/ /\ \A d \in DcSet : PodsRun(d)
        /\ \/ made' = made \cup {Pod} /\ UNCHANGED belated
           \/ env.callsFail /\ belated' = belated \cup {Pod} /\ UNCHANGED made
     \/ UNCHANGED <<made, belated>>
  /\ stage' = "over"
  /\ UNCHANGED <<volumeVars, posted, rcs, rolled, undoVars, env>>

(* The server carries out a post that was given up, whatever has happened  *)
(* to the instance since.                                                  *)
LatePost(r) ==
  /\ r \in belated
  /\ belated' = belated \ {r}
  /\ made' = made \cup {r}
  /\ UNCHANGED <<volumeVars, stage, posted, rcs, rolled, undoVars, env>>

(* handler.DoDeprovision(&serviceInfo, true) after a volume failure, which *)
(* starts a goroutine and returns.                                         *)
UndoSelf ==
  /\ stage = "undo"
  /\ Job!Look(SelfUndo)
  /\ stage' = "over"
  /\ UNCHANGED <<posted, belated, clusterVars, undoVars, env>>

-----------------------------------------------------------------------------
(* The goroutine of DoDeprovision.                                         *)

AtRest(k) == \/ kpc[k] = "look"
             \/ /\ kpc[k] = "deleting"
                /\ dels[k] = {} /\ doomed[k] = {} /\ rcDoomed[k] = {}

(* A client may deprovision a registered instance at any time.  A patient  *)
(* one waits until the provisioning goroutine and the undoers are over and *)
(* everything posted has been rolled out.                                  *)
Deprovision(k) ==
  /\ k \in Deprovisions
  /\ env.patient => /\ stage = "over" /\ DcSet \cap made \subseteq rolled
                /\ \A i \in Undoers : AtRest(i)
  /\ Job!Look(k)
  /\ UNCHANGED handlerVars

(* Mistake: the job found is cancelled and not waited for.                 *)
CancelOnly(k) ==
  /\ kpc[k] = "cancel"
  /\ cancelled' = [cancelled EXCEPT ![ktgt[k]] = TRUE]
  /\ kpc' = [kpc EXCEPT ![k] = "clear"]
  /\ UNCHANGED <<jobs, spc, got, c, rpc, gpc, errChan, ktgt, dels, pvc, grown,
                 handlerVars>>

(* Cancel the job found, then wait until the table has none.               *)
WaitForJob(k) == (Job!Cancel(k) \/ Job!PollExit(k)) /\ UNCHANGED handlerVars

(* One Get of getEtcdResources_HA, for the next resource of the chain; a   *)
(* failed Get is as if the resource were not there.                        *)
Get(k) ==
  /\ asked[k] < Len(Chain)
  /\ LET r == Chain[asked[k] + 1] IN
       \/ r \in made /\ found' = [found EXCEPT ![k] = @ \cup {r}]
       \/ (r \notin made \/ env.callsFail) /\ UNCHANGED found
  /\ asked' = [asked EXCEPT ![k] = @ + 1]
  /\ UNCHANGED <<volumeVars, provisionVars, clusterVars, swept, doomed, rcDoomed, env>>

(* Mistake: the look-up comes before the job is cancelled and waited for.  *)
LookUpFirst(k) == kpc[k] \in {"cancel", "poll", "clear"} /\ Get(k)

(* getEtcdResources_HA, after the job; the init pod is not looked up.      *)
LookUp(k) == kpc[k] = "clear" /\ Get(k)

(* destroyEtcdResources_HA, first part: one goroutine per resource found.  *)
(* kdel and odel of an empty name do nothing.                              *)
DestroyFound(k) ==
  /\ kpc[k] = "clear" /\ asked[k] = Len(Chain) /\ swept[k] = 0
  /\ doomed' = [doomed EXCEPT ![k] = found[k]]

(* Mistake: the RCs are thought to go with their deployment config.        *)
NoRCs(k, d) == {}

(* Its second part, for each deployment config in turn: the RCs with its   *)
(* labels.  One that was not found has no labels, and the list is then     *)
(* that of the whole namespace.  The goroutines share the loop variable,   *)
(* so that some RCs of a list may be missed; the last one is not.          *)
ListRCs(k, d) == IF d \in found[k] THEN rcs \cap {d} ELSE rcs

SweepRCs(k) ==
  /\ kpc[k] = "clear" /\ asked[k] = Len(Chain) /\ swept[k] < Len(Dcs)
  /\ IF swept[k] = 0 THEN DestroyFound(k) ELSE UNCHANGED doomed
  /\ LET list == ListRCs(k, Dcs[swept[k] + 1]) IN
       \/ \E s \in SUBSET list :
            /\ list # {} => s # {}
            /\ rcDoomed' = [rcDoomed EXCEPT ![k] = @ \cup s]
       \/ env.callsFail /\ UNCHANGED rcDoomed
  /\ swept' = [swept EXCEPT ![k] = @ + 1]
  /\ UNCHANGED <<volumeVars, provisionVars, clusterVars, asked, found, env>>

(* DeleteVolumns comes last.                                               *)
DeleteVolumns(k) ==
  /\ asked[k] = Len(Chain) /\ swept[k] = Len(Dcs)
  /\ Job!DeleteVolumns(k)
  /\ UNCHANGED handlerVars

(* kdel, odel: five tries, then the error is dropped.  A deletion that was *)
(* given up and is carried out late is this step taken late.               *)
DeleteResource(k, r) ==
  /\ r \in doomed[k]
  /\ doomed' = [doomed EXCEPT ![k] = @ \ {r}]
  /\ \/ made' = made \ {r}
     \/ env.callsFail /\ UNCHANGED made
  /\ UNCHANGED <<volumeVars, provisionVars, rcs, rolled, asked, found, swept, rcDoomed, env>>

(* kdel_rc: scale to zero, watch, delete; any error ends it.               *)
DeleteRC(k, r) ==
  /\ r \in rcDoomed[k]
  /\ rcDoomed' = [rcDoomed EXCEPT ![k] = @ \ {r}]
  /\ \/ rcs' = rcs \ {r}
     \/ env.callsFail /\ UNCHANGED rcs
  /\ UNCHANGED <<volumeVars, provisionVars, made, rolled, asked, found, swept, doomed, env>>

DeleteVolumn(k, v) ==
  /\ v \in dels[k]
  /\ Job!DeleteVolumn(k, v)
  /\ env.callsFail \/ pvc'[v] = "absent"
  /\ UNCHANGED handlerVars

-----------------------------------------------------------------------------
(* The goroutines of the job, of updates, and the cluster.                 *)

JobStep ==
  /\ \/ Job!RunStep(Provisioner)
     \/ \E u \in Updates : Job!Start(u) \/ Job!Read(u) \/ Job!RunStep(u)
     \/ \E j \in {Provisioner} \cup Updates, v \in Volumes :
          Job!VolumeStep(j, v) \/ Job!RemoteStep(j, v)
  /\ UNCHANGED handlerVars

ClusterBind(v) == Job!ClusterBind(v) /\ UNCHANGED handlerVars

(* The cluster rolls a deployment config out: it creates its RC.           *)
ClusterRoll(d) ==
  /\ d \in made \ rolled
  /\ rolled' = rolled \cup {d}
  /\ rcs' = rcs \cup {d}
  /\ UNCHANGED <<volumeVars, provisionVars, made, undoVars, env>>

ProvisionerStep == VolumesAnswered \/ Post \/ ChainPosted \/ InitPod \/ UndoSelf
UndoStep(k) == WaitForJob(k) \/ LookUp(k) \/ SweepRCs(k) \/ DeleteVolumns(k)

Next ==
  \/ AskForVolumes \/ ProvisionerStep \/ JobStep
  \/ \E k \in Undoers : Deprovision(k) \/ UndoStep(k)
  \/ \E k \in Undoers, r \in Resources : DeleteResource(k, r)
  \/ \E k \in Undoers, r \in DcSet \cup Foreign : DeleteRC(k, r)
  \/ \E k \in Undoers, v \in Volumes : DeleteVolumn(k, v)
  \/ \E v \in Volumes : ClusterBind(v)
  \/ \E d \in DcSet : ClusterRoll(d)
  \/ \E r \in Resources \cup {Pod} : LatePost(r)

(* Started goroutines run on, and so does the cluster's rollout.  A claim  *)
(* need not ever be bound, a watch request need not return (Job!KWatch),   *)
(* and what was given up need not be carried out.                          *)
Fairness ==
  /\ WF_vars(AskForVolumes) /\ WF_vars(ProvisionerStep)
  /\ \A j \in {Provisioner} \cup Updates :
       /\ WF_vars(Job!Read(j) /\ UNCHANGED handlerVars)
       /\ WF_vars(Job!RunStep(j) /\ UNCHANGED handlerVars)
       /\ \A v \in Volumes : WF_vars(Job!VolumeStep(j, v) /\ UNCHANGED handlerVars)
  /\ \A k \in Undoers :
       /\ WF_vars(UndoStep(k))
       /\ \A r \in Resources : WF_vars(DeleteResource(k, r))
       /\ \A r \in DcSet \cup Foreign : WF_vars(DeleteRC(k, r))
       /\ \A v \in Volumes : WF_vars(DeleteVolumn(k, v))
  /\ \A d \in DcSet : WF_vars(ClusterRoll(d))

Spec == Init /\ [][Next]_vars
FairSpec == Spec /\ Fairness

-----------------------------------------------------------------------------
(* Mistake: the init pod is waited for, which may never have been posted.  *)
LastOperationWithPod ==
  IF jobs = NoJob /\ Pod \in made THEN "succeeded" ELSE "in progress"

(* DoLastOperation: in progress while a job of the name is in the table,   *)
(* and until all deployment configs are found with their pods running.     *)
LastOperation == IF jobs = NoJob /\ \A d \in DcSet : d \in made /\ PodsRun(d)
                 THEN "succeeded" ELSE "in progress"

(* The handler drives the volume jobs as PvcVolumeJob expects: what is     *)
(* proved of the jobs holds inside the handler, and no undoer deletes      *)
(* volumes while the job it found is in the table.                         *)
UsesJobsProperly == Job!Spec

(* The claim was asked for by a request that was given up, and made late.  *)
Straggled(v) == gpc[Provisioner][v] = "straggled"

(* A client that waits for each operation to end gets a clean removal: no  *)
(* resource of the chain, no RC and no volume of the instance survives its *)
(* deprovisioning, whether the provisioning had succeeded or not, when     *)
(* requests succeed.  Those of the volume job may fail, and then there is  *)
(* one exception: the claim of a create request that was given up and      *)
(* carried out late.                                                       *)
CleanRemoval ==
  /\ env = [callsFail |-> FALSE, patient |-> TRUE]
  /\ \A k \in Undoers : AtRest(k)
  /\ \E k \in Deprovisions : kpc[k] = "deleting"
  => /\ made \cap Resources = {}
     /\ rcs \cap DcSet = {}
     /\ \A v \in Volumes : pvc[v] = "absent" \/ Straggled(v)

(* What destroyEtcdResources_HA sets out to do, down to the init pod       *)
(* (line 583).                                                             *)
NothingLeft ==
  /\ env = [callsFail |-> FALSE, patient |-> TRUE]
  /\ \A k \in Undoers : AtRest(k)
  /\ \E k \in Deprovisions : kpc[k] = "deleting"
  => made = {}

(* "create volume (to delete created ones)", line 152: undoing an instance *)
(* removes what was created for it and not what belongs to others.         *)
OthersUntouched == Foreign \subseteq rcs

(* What is built is built on bound volumes, and the provisioner's own undo *)
(* never touches it: only a client's deprovisioning takes the volumes away *)
(* from under resources that were posted ("todo: consider if DoDeprovision *)
(* is called now", line 159, is about exactly that case).                  *)
BuiltOnBoundVolumes ==
  made # {} =>
    /\ kpc[SelfUndo] = "look"
    /\ \/ \A v \in Volumes : pvc[v] = "bound"
       \/ \E k \in Deprovisions : kpc[k] = "deleting"

(* Liveness: a provisioning whose volumes failed leaves no volume and no   *)
(* resource behind, even when a client deprovisions meanwhile, unless the  *)
(* job is stuck, because two volumes failed in the way that blocks it or   *)
(* because a watch request never returns.  A create that was given up may  *)
(* be carried out after the undo and then its claim stays; if none is      *)
(* outstanding any more when the job is over, the undo, which is still     *)
(* ahead, removes those that came late as well.                            *)
FailureIsCleaned ==
  /\ ~env.callsFail /\ got[Provisioner] = "err" ~>
       \/ made = {} /\ \A v \in Volumes : pvc[v] = "absent" \/ Straggled(v)
       \/ Job!Blocked(Provisioner) \/ Job!InWatch(Provisioner)
  /\ /\ ~env.callsFail /\ got[Provisioner] = "err"
     /\ jobs = NoJob /\ kpc[SelfUndo] # "deleting"
     /\ \A v \in Volumes : gpc[Provisioner][v] # "timedOut"
     ~> made = {} /\ \A v \in Volumes : pvc[v] = "absent"

(* Liveness: once the volumes are there the platform is eventually told    *)
(* that the operation succeeded, if requests do, or somebody deprovisions. *)
ProvisionCompletes ==
  ~env.callsFail /\ got[Provisioner] = "nil" ~>
    LastOperation = "succeeded" \/ \E k \in Deprovisions : kpc[k] # "look"
=============================================================================
