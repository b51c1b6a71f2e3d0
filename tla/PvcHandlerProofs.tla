-------------------------- MODULE PvcHandlerProofs --------------------------
(***************************************************************************)
(* Proofs about PvcHandler: every step of the handler is a step, or a      *)
(* stutter, of the volume jobs, so that what PvcVolumeJobProofs proves of  *)
(* them holds of any handler.                                              *)
(***************************************************************************)
EXTENDS PvcHandler, TLAPS

JobProofs == INSTANCE PvcVolumeJobProofs WITH
               Creators <- {Provisioner}, Expanders <- Updates, Cancellers <- Undoers

(* The handler uses the volume jobs as they expect to be used.             *)
THEOREM HandlerUsesJobs == Spec => UsesJobsProperly
<1>1. Init => Job!Init
  BY DEF Init
<1>2. [Next]_vars => [Job!Next]_(Job!vars)
  <2> SUFFICES ASSUME [Next]_vars PROVE Job!Next \/ UNCHANGED Job!vars
    OBVIOUS
  <2> USE DEF Job!Starters
  <2>1. CASE AskForVolumes
    BY <2>1 DEF AskForVolumes, Job!Next
  <2>2. CASE VolumesAnswered
    BY <2>2 DEF VolumesAnswered, Job!Next
  <2>3. CASE UndoSelf
    BY <2>3 DEF UndoSelf, Job!Next, Job!CancellerStep, Undoers
  <2>4. CASE Post \/ ChainPosted \/ InitPod
    BY <2>4 DEF Post, ChainPosted, InitPod, volumeVars, Job!vars, Job!jobVars,
                Job!starterVars, Job!cancellerVars, Job!cluster
  <2>5. CASE JobStep
    BY <2>5 DEF JobStep, Job!Next
  <2>6. ASSUME NEW k \in Undoers, Deprovision(k) \/ UndoStep(k)
        PROVE  Job!Next \/ UNCHANGED Job!vars
    <3>1. CASE Deprovision(k) \/ WaitForJob(k) \/ DeleteVolumns(k)
      BY <3>1 DEF Deprovision, WaitForJob, DeleteVolumns, Job!Next, Job!CancellerStep
    <3>2. CASE LookUp(k) \/ SweepRCs(k)
      BY <3>2 DEF LookUp, Get, SweepRCs, volumeVars, Job!vars, Job!jobVars,
                  Job!starterVars, Job!cancellerVars, Job!cluster
    <3>3. QED
      BY <2>6, <3>1, <3>2 DEF UndoStep
  <2>7. ASSUME NEW k \in Undoers, NEW v \in Volumes, DeleteVolumn(k, v)
        PROVE  Job!Next
    BY <2>7 DEF DeleteVolumn, Job!Next
  <2>8. ASSUME NEW v \in Volumes, ClusterBind(v)
        PROVE  Job!Next
    BY <2>8 DEF ClusterBind, Job!Next
  <2>9. CASE \/ \E k \in Undoers, r \in Resources : DeleteResource(k, r)
             \/ \E k \in Undoers, r \in DcSet \cup Foreign : DeleteRC(k, r)
             \/ \E d \in DcSet : ClusterRoll(d)
             \/ \E r \in Resources \cup {Pod} : LatePost(r)
             \/ UNCHANGED vars
    BY <2>9 DEF DeleteResource, DeleteRC, ClusterRoll, LatePost, vars, volumeVars, Job!vars,
                Job!jobVars, Job!starterVars, Job!cancellerVars, Job!cluster
  <2>10. QED
    BY <2>1, <2>2, <2>3, <2>4, <2>5, <2>6, <2>7, <2>8, <2>9
       DEF Next, ProvisionerStep
<1>3. QED
  BY <1>1, <1>2, PTL DEF Spec, UsesJobsProperly, Job!Spec

(* The assumption on the jobs' constants is met.                           *)
LEMMA JobsAssumption ==
  /\ {Provisioner} \cap Updates = {}
  /\ NoJob \notin JobProofs!Starters
  /\ Volumes # {}
  BY HandlerAssumption DEF JobProofs!Starters

(* The two instances of PvcVolumeJob, this one and that of its proofs, are *)
(* the same specification.                                                 *)
LEMMA SameSpec == Job!Spec => JobProofs!Spec
<1>1. Job!Init => JobProofs!Init
  BY DEF Job!Init, JobProofs!Init, Job!Starters, JobProofs!Starters
<1>2. [Job!Next]_(Job!vars) => [JobProofs!Next]_(JobProofs!vars)
  BY DEF
         Job!Next, JobProofs!Next, Job!VolumeStep, JobProofs!VolumeStep,
         Job!RunStep, JobProofs!RunStep, Job!CancellerStep,
         JobProofs!CancellerStep, Job!Starters, JobProofs!Starters, Job!vars,
         JobProofs!vars, Job!jobVars, JobProofs!jobVars, Job!starterVars,
         JobProofs!starterVars, Job!cancellerVars, JobProofs!cancellerVars,
         Job!cluster, JobProofs!cluster, Job!Send, JobProofs!Send, Job!Goto,
         JobProofs!Goto, Job!Settled, JobProofs!Settled, Job!Start,
         JobProofs!Start, Job!Read, JobProofs!Read, Job!CreateVolumn,
         JobProofs!CreateVolumn, Job!ExpandVolumn, JobProofs!ExpandVolumn,
         Job!RequestError, JobProofs!RequestError, Job!EnterWait,
         JobProofs!EnterWait, Job!WaitBound, JobProofs!WaitBound,
         Job!WaitError, JobProofs!WaitError, Job!ReportWaitError,
         JobProofs!ReportWaitError, Job!AllDone, JobProofs!AllDone,
         Job!SendNil, JobProofs!SendNil, Job!SendJoined,
         JobProofs!SendJoined, Job!SendTrailingNil,
         JobProofs!SendTrailingNil, Job!Unregister, JobProofs!Unregister,
         Job!Look, JobProofs!Look, Job!Cancel, JobProofs!Cancel,
         Job!PollExit, JobProofs!PollExit, Job!DeleteVolumns,
         JobProofs!DeleteVolumns, Job!DeleteVolumn, JobProofs!DeleteVolumn,
         Job!ClusterBind, JobProofs!ClusterBind, Job!RemoteStep,
         JobProofs!RemoteStep, Job!KWatch, JobProofs!KWatch,
         Job!LateRequest, JobProofs!LateRequest, Job!RequestErrors,
         JobProofs!RequestErrors
<1>3. QED
  BY <1>1, <1>2, PTL DEF Job!Spec, JobProofs!Spec

(* A provisioner told nil finds every claim bound until an undoer deletes. *)
THEOREM HandlerVolumesBound == Spec => []Job!ClaimsBoundWhenTold
<1>1. JobProofs!Spec => []JobProofs!ClaimsBoundWhenTold
  BY JobsAssumption, JobProofs!ToldMeansBound
<1>2. JobProofs!ClaimsBoundWhenTold => Job!ClaimsBoundWhenTold
  BY DEF JobProofs!ClaimsBoundWhenTold, Job!ClaimsBoundWhenTold
<1>3. QED
  BY <1>1, <1>2, HandlerUsesJobs, SameSpec, PTL DEF UsesJobsProperly

-----------------------------------------------------------------------------
(* What the provisioning goroutine does, what has been made and whether it *)
(* undoes itself all follow from the one message it read.                  *)
Stages ==
  /\ stage = "volumes" <=> got[Provisioner] = "none"
  /\ stage \in {"posting", "init"} => got[Provisioner] = "nil"
  /\ stage = "undo" => got[Provisioner] = "err"
  /\ made \cup belated # {} => got[Provisioner] = "nil"
  /\ kpc[SelfUndo] # "look" => got[Provisioner] = "err"

(* The two facts about the jobs that Stages rests on.                      *)
JobFacts ==
  /\ got \in [{Provisioner} \cup Updates -> {"none", "nil", "err"}]
  /\ c \in [{Provisioner} \cup Updates -> {"empty", "nil", "err"}]
  /\ kpc \in [Undoers -> {"look", "cancel", "poll", "clear", "deleting"}]
  /\ spc[Provisioner] = "reading" => got[Provisioner] = "none"

LEMMA JobFactsHold == Spec => []JobFacts
<1>1. JobProofs!Spec => []JobProofs!IInv
  BY JobsAssumption, JobProofs!Invariance
<1>2. JobProofs!IInv => JobFacts
  BY DEF JobProofs!IInv, JobProofs!TypeOK, JobProofs!Shape, JobProofs!Starters, JobFacts
<1>3. QED
  BY <1>1, <1>2, HandlerUsesJobs, SameSpec, PTL DEF UsesJobsProperly

LEMMA StagesStep ==
  ASSUME JobFacts, Stages, [Next]_vars
  PROVE  Stages'
<1> USE DEF Stages, Undoers
<1>1. CASE AskForVolumes
  BY <1>1 DEF AskForVolumes, Job!Start, Job!cancellerVars, handlerVars,
              provisionVars, clusterVars
<1>2. CASE VolumesAnswered
  BY <1>2 DEF JobFacts, VolumesAnswered, Job!Read, Job!cancellerVars, clusterVars
<1>3. CASE Post \/ ChainPosted \/ InitPod
  BY <1>3 DEF Post, ChainPosted, InitPod, volumeVars, clusterVars
<1>4. CASE UndoSelf
  BY <1>4 DEF JobFacts, UndoSelf, Job!Look, Job!starterVars, clusterVars
<1>5. CASE JobStep
  <2>1. UNCHANGED <<stage, made, belated, kpc>>
    BY <1>5 DEF JobStep, handlerVars, provisionVars, clusterVars, Job!cancellerVars,
                Job!RunStep, Job!VolumeStep, Job!RemoteStep, Job!KWatch,
                Job!LateRequest, Job!Start, Job!Read, Job!AllDone,
                Job!SendNil, Job!SendJoined, Job!SendTrailingNil, Job!Unregister,
                Job!CreateVolumn, Job!ExpandVolumn, Job!RequestError, Job!EnterWait,
                Job!WaitBound, Job!WaitError, Job!ReportWaitError
  <2>2. got'[Provisioner] = got[Provisioner]
    BY <1>5, HandlerAssumption
       DEF JobFacts, JobStep, Job!starterVars, Job!RemoteStep, Job!KWatch,
           Job!LateRequest, Job!RunStep, Job!VolumeStep, Job!Start, Job!Read, Job!AllDone,
           Job!SendNil, Job!SendJoined, Job!SendTrailingNil, Job!Unregister,
           Job!CreateVolumn, Job!ExpandVolumn, Job!RequestError, Job!EnterWait,
           Job!WaitBound, Job!WaitError, Job!ReportWaitError
  <2>3. QED
    BY <2>1, <2>2
<1>6. ASSUME NEW k \in Undoers, Deprovision(k)
      PROVE  Stages'
  BY <1>6, HandlerAssumption
     DEF JobFacts, Deprovision, Job!Look, Job!starterVars, handlerVars,
         provisionVars, clusterVars
<1>7. ASSUME NEW k \in Undoers, UndoStep(k)
      PROVE  Stages'
  <2>1. kpc[k] # "look" /\ UNCHANGED <<stage, made, belated, got>>
    BY <1>7 DEF UndoStep, WaitForJob, LookUp, Get, SweepRCs, DeleteVolumns, Job!Cancel,
                Job!PollExit, Job!DeleteVolumns, Job!starterVars, volumeVars,
                handlerVars, provisionVars, clusterVars
  <2>2. \A i \in Undoers \ {k} : kpc'[i] = kpc[i]
    BY <1>7 DEF JobFacts, UndoStep, WaitForJob, LookUp, Get, SweepRCs, DeleteVolumns,
                Job!Cancel, Job!PollExit, Job!DeleteVolumns, volumeVars
  <2>3. QED
    BY <2>1, <2>2
<1>8. ASSUME NEW k \in Undoers,
             \/ \E r \in Resources : DeleteResource(k, r)
             \/ \E r \in DcSet \cup Foreign : DeleteRC(k, r)
             \/ \E v \in Volumes : DeleteVolumn(k, v)
      PROVE  Stages'
  BY <1>8 DEF DeleteResource, DeleteRC, DeleteVolumn, Job!DeleteVolumn,
              Job!starterVars, volumeVars, handlerVars, provisionVars, clusterVars
<1>9. CASE \/ \E v \in Volumes : ClusterBind(v)
           \/ \E d \in DcSet : ClusterRoll(d)
           \/ \E r \in Resources \cup {Pod} : LatePost(r)
           \/ UNCHANGED vars
  BY <1>9 DEF ClusterBind, ClusterRoll, LatePost, Job!ClusterBind, Job!starterVars,
              Job!cancellerVars, vars, volumeVars, handlerVars, provisionVars,
              clusterVars
<1>10. QED
  BY <1>1, <1>2, <1>3, <1>4, <1>5, <1>6, <1>7, <1>8, <1>9 DEF Next, ProvisionerStep

(* Whatever exists of an instance was built on bound volumes and is not    *)
(* undone by the provisioner itself; the volumes go before it only by a    *)
(* client's deprovisioning.                                                *)
THEOREM HandlerBuildsOnBound == Spec => []BuiltOnBoundVolumes
<1>1. Init => Stages
  BY DEF Init, Job!Init, Job!Starters, Stages, Undoers
<1>2. JobFacts /\ Stages /\ [Next]_vars => Stages'
  BY StagesStep
<1>3. Stages /\ Job!ClaimsBoundWhenTold => BuiltOnBoundVolumes
  BY DEF Stages, Job!ClaimsBoundWhenTold, BuiltOnBoundVolumes, Undoers
<1>4. QED
  BY <1>1, <1>2, <1>3, JobFactsHold, HandlerVolumesBound, PTL DEF Spec

-----------------------------------------------------------------------------
(* The types of the handler's own variables.                               *)
OwnTypes ==
  /\ stage \in {"volumes", "posting", "init", "undo", "over"}
  /\ posted \in 0..Len(Chain)
  /\ belated \in SUBSET (Resources \cup {Pod})
  /\ made \in SUBSET (Resources \cup {Pod})
  /\ rcs \in SUBSET (DcSet \cup Foreign)
  /\ rolled \in SUBSET DcSet
  /\ asked \in [Undoers -> 0..Len(Chain)]
  /\ found \in [Undoers -> SUBSET Resources]
  /\ swept \in [Undoers -> 0..Len(Dcs)]
  /\ doomed \in [Undoers -> SUBSET Resources]
  /\ rcDoomed \in [Undoers -> SUBSET (DcSet \cup Foreign)]
  /\ env \in Envs

LEMMA JobTypesHold == Spec => []Job!TypeOK
<1>1. JobProofs!Spec => []JobProofs!TypeOK
  BY JobsAssumption, JobProofs!TypeCorrect
<1>2. JobProofs!TypeOK => Job!TypeOK
  BY DEF JobProofs!TypeOK, Job!TypeOK, JobProofs!Starters, Job!Starters, JobProofs!Running,
         Job!Running, JobProofs!Settled, Job!Settled, JobProofs!RequestErrors,
         Job!RequestErrors, JobProofs!Phases, Job!Phases
<1>3. QED
  BY <1>1, <1>2, HandlerUsesJobs, SameSpec, PTL DEF UsesJobsProperly

LEMMA Lengths ==
  /\ Len(Chain) \in Nat \ {0} /\ Len(Dcs) \in Nat \ {0}
  /\ \A i \in 1..Len(Chain) : Chain[i] \in Resources
  /\ \A i \in 1..Len(Dcs) : Dcs[i] \in DcSet
<1>1. Len(Chain) \in Nat /\ Len(Dcs) \in Nat /\ Len(Dcs) # 0
  BY HandlerAssumption
<1>2. Dcs[1] \in Resources
  BY <1>1, HandlerAssumption DEF DcSet
<1>3. Len(Chain) # 0
  BY <1>1, <1>2 DEF Resources
<1>4. QED
  BY <1>1, <1>3 DEF Resources, DcSet

LEMMA OwnTypesStep ==
  ASSUME OwnTypes, [Next]_vars
  PROVE  OwnTypes'
<1> USE Lengths DEF OwnTypes
<1>1. CASE AskForVolumes \/ JobStep \/ \E v \in Volumes : ClusterBind(v)
  BY <1>1 DEF AskForVolumes, JobStep, ClusterBind, handlerVars, provisionVars, clusterVars,
              undoVars
<1>2. CASE VolumesAnswered \/ ChainPosted \/ InitPod \/ UndoSelf
  BY <1>2 DEF VolumesAnswered, ChainPosted, InitPod, UndoSelf, clusterVars, undoVars
<1>3. CASE Post
  <2>1. posted + 1 \in 1..Len(Chain)
    BY <1>3 DEF Post
  <2>2. Chain[posted + 1] \in Resources
    BY <2>1
  <2>3. /\ posted' \in 0..Len(Chain) /\ made' \in SUBSET (Resources \cup {Pod})
        /\ belated' \in SUBSET (Resources \cup {Pod})
    BY <1>3, <2>1, <2>2 DEF Post
  <2>4. QED
    BY <1>3, <2>3 DEF Post, undoVars
<1>4. ASSUME NEW k \in Undoers, Deprovision(k) \/ WaitForJob(k) \/ DeleteVolumns(k)
      PROVE  OwnTypes'
  BY <1>4 DEF Deprovision, WaitForJob, DeleteVolumns, handlerVars, provisionVars, clusterVars,
              undoVars
<1>5. ASSUME NEW k \in Undoers, LookUp(k) PROVE OwnTypes'
  <2>1. asked[k] + 1 \in 1..Len(Chain)
    BY <1>5 DEF LookUp, Get
  <2>2. Chain[asked[k] + 1] \in Resources
    BY <2>1
  <2>3. asked' \in [Undoers -> 0..Len(Chain)]
    BY <1>5, <2>1 DEF LookUp, Get
  <2>4. found' \in [Undoers -> SUBSET Resources]
    <3>1. PICK r \in Resources : found' \in {found, [found EXCEPT ![k] = @ \cup {r}]}
      BY <1>5, <2>2 DEF LookUp, Get
    <3>2. CASE found' = found
      BY <3>2
    <3>3. CASE found' = [found EXCEPT ![k] = @ \cup {r}]
      BY <3>3
    <3>4. QED
      BY <3>1, <3>2, <3>3
  <2>5. QED
    BY <1>5, <2>3, <2>4 DEF LookUp, Get, provisionVars, clusterVars
<1>6. ASSUME NEW k \in Undoers, SweepRCs(k) PROVE OwnTypes'
  <2>1. \A d : ListRCs(k, d) \subseteq DcSet \cup Foreign
    BY DEF ListRCs
  <2>2. rcDoomed' \in [Undoers -> SUBSET (DcSet \cup Foreign)]
    BY <1>6, <2>1 DEF SweepRCs
  <2>3. doomed' \in [Undoers -> SUBSET Resources]
    BY <1>6 DEF SweepRCs, DestroyFound
  <2>4. swept[k] + 1 \in 1..Len(Dcs)
    BY <1>6 DEF SweepRCs
  <2>5. swept' \in [Undoers -> 0..Len(Dcs)]
    BY <1>6, <2>4 DEF SweepRCs
  <2>6. QED
    BY <1>6, <2>2, <2>3, <2>5 DEF SweepRCs, provisionVars, clusterVars
<1>7. ASSUME NEW k \in Undoers, NEW r, DeleteResource(k, r) \/ DeleteRC(k, r) PROVE OwnTypes'
  BY <1>7 DEF DeleteResource, DeleteRC, provisionVars
<1>8. ASSUME NEW k \in Undoers, NEW v \in Volumes, DeleteVolumn(k, v) PROVE OwnTypes'
  BY <1>8 DEF DeleteVolumn, handlerVars, provisionVars, clusterVars, undoVars
<1>9. ASSUME NEW d \in DcSet, ClusterRoll(d) PROVE OwnTypes'
  BY <1>9 DEF ClusterRoll, provisionVars, undoVars
<1>10. ASSUME NEW r \in Resources \cup {Pod}, LatePost(r) PROVE OwnTypes'
  BY <1>10 DEF LatePost, undoVars
<1>11. CASE UNCHANGED vars
  BY <1>11 DEF vars, handlerVars, provisionVars, clusterVars, undoVars
<1>12. QED
  BY <1>1, <1>2, <1>3, <1>4, <1>5, <1>6, <1>7, <1>8, <1>9, <1>10, <1>11
     DEF Next, ProvisionerStep, UndoStep

(* No undoer has looked anything up before its wait for the job is over.   *)
AskedAfterWait == \A k \in Undoers : asked[k] > 0 => kpc[k] \in {"clear", "deleting"}

LEMMA AskedStep ==
  ASSUME Job!TypeOK, OwnTypes, AskedAfterWait, [Next]_vars
  PROVE  AskedAfterWait'
<1> USE DEF Job!TypeOK, OwnTypes, AskedAfterWait
<1>1. ASSUME UNCHANGED <<asked, kpc>> PROVE AskedAfterWait'
  BY <1>1
<1>2. ASSUME NEW k \in Undoers, Job!Look(k) \/ Job!Cancel(k) \/ Job!PollExit(k)
                                \/ Job!DeleteVolumns(k),
             UNCHANGED asked
      PROVE  AskedAfterWait'
  BY <1>2 DEF Job!Look, Job!Cancel, Job!PollExit, Job!DeleteVolumns
<1>3. ASSUME NEW k \in Undoers, LookUp(k) PROVE AskedAfterWait'
  BY <1>3 DEF LookUp, Get, volumeVars
<1>4. CASE UndoSelf \/ \E k \in Undoers : Deprovision(k) \/ WaitForJob(k) \/ DeleteVolumns(k)
  BY <1>4, <1>2 DEF UndoSelf, Deprovision, WaitForJob, DeleteVolumns, handlerVars,
                    undoVars, Undoers
<1>5. CASE JobStep
  BY <1>1, <1>5 DEF JobStep, handlerVars, undoVars, Job!cancellerVars,
                Job!RunStep, Job!VolumeStep, Job!RemoteStep, Job!KWatch,
                Job!LateRequest, Job!Start, Job!Read, Job!AllDone,
                Job!SendNil, Job!SendJoined, Job!SendTrailingNil, Job!Unregister,
                Job!CreateVolumn, Job!ExpandVolumn, Job!RequestError, Job!EnterWait,
                Job!WaitBound, Job!WaitError, Job!ReportWaitError
<1>6. CASE \/ AskForVolumes \/ VolumesAnswered \/ Post \/ ChainPosted \/ InitPod
           \/ \E k \in Undoers : SweepRCs(k)
           \/ \E k \in Undoers, v \in Volumes : DeleteVolumn(k, v)
           \/ \E v \in Volumes : ClusterBind(v)
  BY <1>1, <1>6 DEF AskForVolumes, VolumesAnswered, Post, ChainPosted, InitPod, SweepRCs,
                DeleteVolumn, ClusterBind, Job!Start, Job!Read, Job!DeleteVolumn,
                Job!ClusterBind, Job!cancellerVars, handlerVars, undoVars, volumeVars
<1>7. CASE \/ \E k \in Undoers, r \in Resources : DeleteResource(k, r)
           \/ \E k \in Undoers, r \in DcSet \cup Foreign : DeleteRC(k, r)
           \/ \E d \in DcSet : ClusterRoll(d)
           \/ \E r \in Resources \cup {Pod} : LatePost(r)
           \/ UNCHANGED vars
  BY <1>1, <1>7 DEF DeleteResource, DeleteRC, ClusterRoll, LatePost, vars, volumeVars,
                handlerVars, undoVars
<1>8. QED
  BY <1>3, <1>4, <1>5, <1>6, <1>7 DEF Next, ProvisionerStep, UndoStep

(* The handler's variables, those of its volume jobs among them, are of    *)
(* their types.                                                            *)
THEOREM HandlerTypes == Spec => []TypeOK
<1>1. Init => OwnTypes
  BY Lengths DEF Init, OwnTypes
<1>2. OwnTypes /\ [Next]_vars => OwnTypes'
  BY OwnTypesStep
<1>3. Init => AskedAfterWait
  BY DEF Init, AskedAfterWait
<1>4. Job!TypeOK /\ OwnTypes /\ AskedAfterWait /\ [Next]_vars => AskedAfterWait'
  BY AskedStep
<1>5. Job!TypeOK /\ OwnTypes /\ AskedAfterWait => TypeOK
  BY DEF TypeOK, OwnTypes, AskedAfterWait
<1>6. QED
  BY <1>1, <1>2, <1>3, <1>4, <1>5, JobTypesHold, PTL DEF Spec

-----------------------------------------------------------------------------
(***************************************************************************)
(* A client that waits for each operation to end gets a clean removal, for *)
(* every chain of resources, every set of volumes and any number of        *)
(* clients: Clearing is what the goroutine of DoDeprovision establishes    *)
(* and keeps as it goes along.                                             *)
(***************************************************************************)
(* The behaviours that are spoken of: no request fails, and the clients    *)
(* wait for each operation to end.                                         *)
Orderly == env = [callsFail |-> FALSE, patient |-> TRUE]

(* One undoer at a time is under way.                                      *)
OneUndoer == \A i, k \in Undoers : AtRest(i) \/ AtRest(k) \/ i = k

(* An undoer finds the provisioning over and its rollout done, and once it *)
(* is past the wait for the job no claim can appear any more.              *)
AfterProvision ==
  \A k \in Undoers :
    /\ kpc[k] # "look" => stage = "over" /\ DcSet \cap made \subseteq rolled
    /\ kpc[k] \in {"clear", "deleting"} => jobs # Provisioner

(* Before the look-up, and before the deletions.                           *)
NotBegun ==
  \A k \in Undoers :
    /\ kpc[k] \in {"look", "cancel", "poll"} =>
         asked[k] = 0 /\ swept[k] = 0 /\ found[k] = {}
    /\ swept[k] = 0 => doomed[k] = {} /\ rcDoomed[k] = {}

(* The RCs of the instance belong to deployment configs that exist, but    *)
(* while an undoer deletes.                                                *)
RCsOwned ==
  (\A k \in Undoers : AtRest(k) \/ swept[k] = 0) => rcs \cap DcSet \subseteq made

(* The look-up finds what there is, the deployment configs of the RCs      *)
(* among it.                                                               *)
LookedUp ==
  \A k \in Undoers :
    /\ swept[k] > 0 => asked[k] = Len(Chain)
    /\ kpc[k] = "clear" =>
         \A i \in 1..asked[k] : Chain[i] \in made => Chain[i] \in found[k]
    /\ asked[k] = Len(Chain) => rcs \cap DcSet \subseteq found[k]

(* The claim is gone, or was asked for by a request that was given up.     *)
Gone(v) == pvc[v] = "absent" \/ Straggled(v)

(* What still exists is about to be deleted.                               *)
Doomed ==
  \A k \in Undoers :
    /\ swept[k] > 0 => made \cap Resources \subseteq doomed[k]
    /\ \A i \in 1..swept[k] : Dcs[i] \in rcs => Dcs[i] \in rcDoomed[k]
    /\ kpc[k] = "deleting" => /\ swept[k] = Len(Dcs)
                              /\ \A v \in Volumes : Gone(v) \/ v \in dels[k]

Clearing == OneUndoer /\ AfterProvision /\ NotBegun /\ RCsOwned /\ LookedUp /\ Doomed

(* What the proofs before this one provide.                                *)
Claiming ==
  /\ spc[Provisioner] = "ready" =>
       got[Provisioner] = "none" /\ \A v \in Volumes : gpc[Provisioner][v] = "none"
  /\ \A v \in Volumes : gpc[Provisioner][v] = "request" => jobs = Provisioner
  /\ \A k \in Undoers : dels[k] # {} => kpc[k] = "deleting"

Base == Job!TypeOK /\ OwnTypes /\ JobFacts /\ Stages /\ Claiming

LEMMA ClaimingHolds == Spec => []Claiming
<1>1. JobProofs!Spec => []JobProofs!IInv
  BY JobsAssumption, JobProofs!Invariance
<1>2. JobProofs!IInv => Claiming
  BY DEF JobProofs!IInv, JobProofs!TypeOK, JobProofs!Shape, JobProofs!Starters,
         JobProofs!Running, JobProofs!Settled, JobProofs!RequestErrors,
         JobProofs!Claims, Claiming
<1>3. QED
  BY <1>1, <1>2, HandlerUsesJobs, SameSpec, PTL DEF UsesJobsProperly

(* A post is given up only where requests fail.                            *)
NothingBelated == ~env.callsFail => belated = {}

LEMMA NothingBelatedHolds == Spec => []NothingBelated
<1>1. Init => NothingBelated
  BY DEF Init, NothingBelated
<1>2. NothingBelated /\ [Next]_vars => NothingBelated'
  BY DEF NothingBelated, Next, vars, ProvisionerStep, UndoStep, AskForVolumes,
         VolumesAnswered, Post, ChainPosted, InitPod, UndoSelf, JobStep, Deprovision,
         WaitForJob, LookUp, Get, SweepRCs, DeleteVolumns, DeleteResource, DeleteRC,
         DeleteVolumn, ClusterBind, ClusterRoll, LatePost, handlerVars, provisionVars
<1>3. QED
  BY <1>1, <1>2, PTL DEF Spec

LEMMA StagesHold == Spec => []Stages
<1>1. Init => Stages
  BY DEF Init, Job!Init, Job!Starters, Stages, Undoers
<1>2. JobFacts /\ Stages /\ [Next]_vars => Stages'
  BY StagesStep
<1>3. QED
  BY <1>1, <1>2, JobFactsHold, PTL DEF Spec

LEMMA BaseHolds == Spec => []Base
<1>1. TypeOK => OwnTypes
  BY DEF TypeOK, OwnTypes
<1>2. QED
  BY <1>1, JobTypesHold, HandlerTypes, JobFactsHold, StagesHold, ClaimingHolds, PTL DEF Base

-----------------------------------------------------------------------------
(* Before the provisioning is over no undoer has come.                     *)
LEMMA NobodyYet ==
  ASSUME AfterProvision, stage # "over"
  PROVE  \A k \in Undoers : kpc[k] = "look"
  BY DEF AfterProvision

(* The steps of the volume jobs, of the updates and of the binder.         *)
LEMMA JobKeeps ==
  ASSUME Base, AskForVolumes \/ JobStep \/ \E v \in Volumes : ClusterBind(v)
  PROVE  /\ UNCHANGED <<handlerVars, kpc, dels>>
         /\ jobs' = Provisioner => jobs = Provisioner \/ got[Provisioner] = "none"
         /\ \A v \in Volumes : Gone(v) => Gone(v)' \/ jobs = Provisioner
<1> USE HandlerAssumption DEF Base, Job!TypeOK, Job!Starters, Job!cancellerVars, Job!cluster,
        Job!starterVars, Job!jobVars, Gone, Straggled
<1>1. ASSUME NEW j \in {Provisioner} \cup Updates, Job!Start(j), UNCHANGED handlerVars
      PROVE  /\ UNCHANGED <<handlerVars, kpc, dels>> /\ \A v \in Volumes : Gone(v) => Gone(v)'
             /\ jobs' = Provisioner => jobs = Provisioner \/ got[Provisioner] = "none"
  BY <1>1 DEF Claiming, Job!Start
<1>2. ASSUME NEW j \in {Provisioner} \cup Updates, Job!Read(j) \/ Job!RunStep(j)
      PROVE  UNCHANGED <<kpc, dels, pvc, gpc>> /\ jobs' \in {jobs, NoJob}
  BY <1>2 DEF Job!Read, Job!RunStep, Job!AllDone, Job!SendNil, Job!SendJoined,
              Job!SendTrailingNil, Job!Unregister
<1>3. ASSUME NEW j \in {Provisioner} \cup Updates, NEW u \in Volumes,
             Job!VolumeStep(j, u) \/ Job!RemoteStep(j, u)
      PROVE  /\ UNCHANGED <<kpc, dels, jobs>>
             /\ \A v \in Volumes : Gone(v) => Gone(v)' \/ jobs = Provisioner
  BY <1>3 DEF Claiming, Job!VolumeStep, Job!RemoteStep, Job!KWatch, Job!LateRequest, Job!Goto, Job!CreateVolumn, Job!ExpandVolumn, Job!RequestError,
              Job!EnterWait, Job!WaitBound, Job!WaitError, Job!ReportWaitError
<1>4. ASSUME NEW u \in Volumes, Job!ClusterBind(u)
      PROVE  /\ UNCHANGED <<kpc, dels, jobs>>
             /\ \A v \in Volumes : Gone(v) => Gone(v)'
  BY <1>4 DEF Job!ClusterBind
<1>5. QED
  BY <1>1, <1>2, <1>3, <1>4 DEF AskForVolumes, JobStep, ClusterBind

LEMMA JobClears ==
  ASSUME Base, Clearing, AskForVolumes \/ JobStep \/ \E v \in Volumes : ClusterBind(v)
  PROVE  Clearing'
<1>1. /\ UNCHANGED <<stage, made, rcs, rolled, asked, found, swept, doomed, rcDoomed, kpc, dels>>
      /\ jobs' = Provisioner => jobs = Provisioner \/ got[Provisioner] = "none"
      /\ \A v \in Volumes : Gone(v) => Gone(v)' \/ jobs = Provisioner
  BY JobKeeps DEF handlerVars, provisionVars, clusterVars, undoVars
<1>2. OneUndoer' /\ NotBegun' /\ RCsOwned' /\ LookedUp'
  BY <1>1 DEF Clearing, OneUndoer, NotBegun, RCsOwned, LookedUp, AtRest
<1>3. AfterProvision'
  BY <1>1 DEF Base, Stages, Clearing, AfterProvision
<1>4. Doomed'
  BY <1>1 DEF Clearing, AfterProvision, Doomed, Gone, Straggled
<1>5. QED
  BY <1>2, <1>3, <1>4 DEF Clearing

(* The provisioning goroutine is at work while nobody undoes.              *)
LEMMA ProvisionerClears ==
  ASSUME Base, Clearing, VolumesAnswered \/ Post \/ ChainPosted \/ InitPod
  PROVE  Clearing'
<1>1. stage # "over"
  BY DEF VolumesAnswered, Post, ChainPosted, InitPod, Job!Read, Base, Stages, JobFacts
<1>2. \A k \in Undoers : kpc[k] = "look"
  BY <1>1, NobodyYet DEF Clearing
<1>3. /\ UNCHANGED <<kpc, rcs, rolled, asked, found, swept, doomed, rcDoomed>>
      /\ made \subseteq made'
  BY DEF VolumesAnswered, Post, ChainPosted, InitPod, Job!Read, Job!cancellerVars, volumeVars,
         clusterVars, undoVars
<1>4. \A k \in Undoers : /\ asked[k] = 0 /\ swept[k] = 0 /\ found[k] = {}
                         /\ doomed[k] = {} /\ rcDoomed[k] = {}
  BY <1>2 DEF Clearing, NotBegun
<1>5. OneUndoer' /\ AfterProvision' /\ NotBegun'
  BY <1>2, <1>3, <1>4 DEF OneUndoer, AfterProvision, NotBegun, AtRest
<1>6. RCsOwned'
  BY <1>2, <1>3 DEF Clearing, RCsOwned, AtRest
<1>7. LookedUp' /\ Doomed'
  BY <1>2, <1>3, <1>4, Lengths DEF LookedUp, Doomed, Gone, Straggled
<1>8. QED
  BY <1>5, <1>6, <1>7 DEF Clearing

(* A deprovisioning begins when all others are at rest.                    *)
LEMMA LookClears ==
  ASSUME Base, Clearing, NEW k \in Undoers, Job!Look(k),
         \A i \in Undoers : AtRest(i),
         stage' = "over", DcSet \cap made \subseteq rolled,
         UNCHANGED <<clusterVars, undoVars>>
  PROVE  Clearing'
<1> USE DEF clusterVars, undoVars
<1>1. /\ kpc[k] = "look"
      /\ \/ kpc'[k] = "clear" /\ jobs # Provisioner
         \/ kpc'[k] = "cancel"
      /\ \A i \in Undoers \ {k} : kpc'[i] = kpc[i]
      /\ UNCHANGED <<jobs, dels, pvc, gpc>>
  BY HandlerAssumption
     DEF Base, Job!TypeOK, Job!Look, Job!jobVars, Job!cluster
<1>2. \A i \in Undoers \ {k} : AtRest(i)'
  BY <1>1 DEF AtRest
<1>3. OneUndoer'
  BY <1>2 DEF OneUndoer
<1>4. AfterProvision'
  BY <1>1 DEF Clearing, AfterProvision
<1>5. asked[k] = 0 /\ swept[k] = 0 /\ found[k] = {}
  BY <1>1 DEF Clearing, NotBegun
<1>6. NotBegun'
  BY <1>1, <1>5 DEF Clearing, NotBegun
<1>7. RCsOwned'
  BY DEF Clearing, RCsOwned
<1>8. LookedUp'
  BY <1>1, <1>5 DEF Clearing, LookedUp
<1>9. Doomed'
  BY <1>1 DEF Clearing, Doomed, Gone, Straggled
<1>10. QED
  BY <1>3, <1>4, <1>6, <1>7, <1>8, <1>9 DEF Clearing

LEMMA BeginClears ==
  ASSUME Base, Orderly, Clearing, UndoSelf \/ \E k \in Undoers : Deprovision(k)
  PROVE  Clearing'
<1>1. ASSUME UndoSelf PROVE Clearing'
  <2>1. \A i \in Undoers : AtRest(i)
    BY <1>1, NobodyYet DEF UndoSelf, Clearing, AtRest
  <2>2. made = {}
    BY <1>1 DEF UndoSelf, Base, Stages
  <2>3. QED
    BY <1>1, <2>1, <2>2, LookClears DEF UndoSelf, Undoers
<1>2. ASSUME NEW k \in Undoers, Deprovision(k) PROVE Clearing'
  <2>1. env.patient
    BY DEF Orderly
  <2>2. QED
    BY <1>2, <2>1, LookClears DEF Deprovision, handlerVars, provisionVars
<1>3. QED
  BY <1>1, <1>2

(* The wait for the job, and the last step.                                *)
LEMMA WaitClears ==
  ASSUME Base, Clearing, NEW k \in Undoers, WaitForJob(k)
  PROVE  Clearing'
<1>1. /\ \/ kpc[k] = "cancel" /\ kpc'[k] = "poll"
         \/ kpc[k] = "poll" /\ kpc'[k] = "clear" /\ jobs # Provisioner
      /\ \A i \in Undoers \ {k} : kpc'[i] = kpc[i]
      /\ UNCHANGED <<jobs, dels, pvc, gpc>>
  BY HandlerAssumption
     DEF Base, Job!TypeOK, WaitForJob, Job!Cancel, Job!PollExit, Job!jobVars, Job!cluster
<1>2. UNCHANGED <<stage, made, rcs, rolled, asked, found, swept, doomed, rcDoomed>>
  BY DEF WaitForJob, handlerVars, provisionVars, clusterVars, undoVars
<1>3. \A i \in Undoers : AtRest(i)' <=> AtRest(i)
  BY <1>1, <1>2 DEF AtRest
<1>4. OneUndoer' /\ RCsOwned'
  BY <1>2, <1>3 DEF Clearing, OneUndoer, RCsOwned
<1>5. AfterProvision'
  BY <1>1, <1>2 DEF Clearing, AfterProvision
<1>6. asked[k] = 0 /\ swept[k] = 0 /\ found[k] = {}
  BY <1>1 DEF Clearing, NotBegun
<1>7. NotBegun' /\ LookedUp'
  BY <1>1, <1>2, <1>6 DEF Clearing, NotBegun, LookedUp
<1>8. Doomed'
  BY <1>1, <1>2 DEF Clearing, Doomed, Gone, Straggled
<1>9. QED
  BY <1>4, <1>5, <1>7, <1>8 DEF Clearing

(* An undoer that is under way is the only one, and nothing is made or     *)
(* rolled out meanwhile.                                                   *)
LEMMA OnlyUndoer ==
  ASSUME Clearing, NEW k \in Undoers, ~AtRest(k)
  PROVE  /\ \A i \in Undoers \ {k} : AtRest(i)
         /\ stage = "over" /\ DcSet \cap made \subseteq rolled
  BY DEF Clearing, OneUndoer, AfterProvision, AtRest

(* The look-up.                                                            *)
LEMMA LookUpClears ==
  ASSUME Base, Orderly, Clearing, NEW k \in Undoers, LookUp(k)
  PROVE  Clearing'
<1> DEFINE n == asked[k] + 1
<1> USE Lengths DEF Base, OwnTypes
<1>1. /\ kpc[k] = "clear" /\ n \in 1..Len(Chain) /\ asked[k] \in Nat
      /\ UNCHANGED <<jobs, kpc, dels, pvc, gpc, stage, made, rcs, rolled, swept, doomed, rcDoomed>>
      /\ asked' = [asked EXCEPT ![k] = n]
      /\ \/ Chain[n] \in made /\ found' = [found EXCEPT ![k] = @ \cup {Chain[n]}]
         \/ Chain[n] \notin made /\ UNCHANGED found
  <2>1. ~env.callsFail
    BY DEF Orderly
  <2>2. QED
    BY <2>1 DEF LookUp, Get, volumeVars, provisionVars, clusterVars
<1>2. asked'[k] = n /\ \A i \in Undoers \ {k} : asked'[i] = asked[i] /\ found'[i] = found[i]
  BY <1>1
<1>3. found[k] \subseteq found'[k] /\ (Chain[n] \in made => Chain[n] \in found'[k])
  BY <1>1
<1>4. swept[k] = 0
  BY <1>1 DEF Clearing, LookedUp
<1>5. OneUndoer' /\ AfterProvision' /\ RCsOwned'
  BY <1>1 DEF Clearing, OneUndoer, AfterProvision, RCsOwned, AtRest
<1>6. NotBegun'
  BY <1>1, <1>2 DEF Clearing, NotBegun
<1>7. ASSUME NEW i \in 1..n, Chain[i] \in made PROVE Chain[i] \in found'[k]
  <2>1. CASE i = n
    BY <1>3, <1>7, <2>1
  <2>2. CASE i # n
    <3>1. i \in 1..asked[k]
      BY <1>1, <2>2
    <3>2. QED
      BY <1>1, <1>3, <1>7, <3>1 DEF Clearing, LookedUp
  <2>3. QED
    BY <2>1, <2>2
<1>8. ASSUME n = Len(Chain) PROVE rcs \cap DcSet \subseteq found'[k]
  <2>1. \A i \in Undoers : AtRest(i) \/ swept[i] = 0
    <3>1. ~AtRest(k)
      BY <1>1 DEF AtRest
    <3>2. QED
      BY <1>4, <3>1, OnlyUndoer
  <2>2. rcs \cap DcSet \subseteq made
    BY <2>1 DEF Clearing, RCsOwned
  <2>3. \A d \in DcSet : \E i \in 1..n : d = Chain[i]
    BY <1>8, HandlerAssumption DEF Resources
  <2>4. QED
    BY <1>7, <2>2, <2>3
<1> HIDE DEF n
<1>9. LookedUp'
  <2> SUFFICES ASSUME NEW i \in Undoers
               PROVE  /\ swept'[i] > 0 => asked'[i] = Len(Chain)
                      /\ kpc'[i] = "clear" =>
                           \A j \in 1..asked'[i] : Chain[j] \in made' => Chain[j] \in found'[i]
                      /\ asked'[i] = Len(Chain) => rcs' \cap DcSet \subseteq found'[i]
    BY DEF LookedUp
  <2>1. CASE i = k
    BY <1>1, <1>2, <1>4, <1>7, <1>8, <2>1
  <2>2. CASE i # k
    BY <1>1, <1>2, <2>2 DEF Clearing, LookedUp
  <2>3. QED
    BY <2>1, <2>2
<1>10. Doomed'
  BY <1>1 DEF Clearing, Doomed, Gone, Straggled
<1>11. QED
  BY <1>5, <1>6, <1>9, <1>10 DEF Clearing

(* The deletions of resources start, and the RCs of one more deployment    *)
(* config are listed.                                                      *)
LEMMA SweepClears ==
  ASSUME Base, Orderly, Clearing, NEW k \in Undoers, SweepRCs(k)
  PROVE  Clearing'
<1> DEFINE n == swept[k] + 1
<1> USE Lengths DEF Base, OwnTypes
<1>1. /\ kpc[k] = "clear" /\ asked[k] = Len(Chain)
      /\ n \in 1..Len(Dcs) /\ swept[k] \in Nat
      /\ UNCHANGED <<jobs, kpc, dels, pvc, gpc, stage, made, rcs, rolled, asked, found>>
      /\ swept' = [swept EXCEPT ![k] = n]
      /\ IF swept[k] = 0 THEN doomed' = [doomed EXCEPT ![k] = found[k]] ELSE UNCHANGED doomed
  BY DEF SweepRCs, DestroyFound, volumeVars, provisionVars, clusterVars
<1>2. PICK s \in SUBSET ListRCs(k, Dcs[n]) :
        /\ ListRCs(k, Dcs[n]) # {} => s # {}
        /\ rcDoomed' = [rcDoomed EXCEPT ![k] = @ \cup s]
  BY DEF SweepRCs, Orderly
<1>3. rcs \cap DcSet \subseteq found[k] /\ Dcs[n] \in DcSet
  BY <1>1 DEF Clearing, LookedUp
<1>4. Dcs[n] \in rcs => Dcs[n] \in s
  BY <1>2, <1>3 DEF ListRCs
<1>5. /\ rcDoomed[k] \subseteq rcDoomed'[k] /\ (Dcs[n] \in rcs => Dcs[n] \in rcDoomed'[k])
      /\ swept'[k] = n
      /\ \A i \in Undoers \ {k} : /\ swept'[i] = swept[i] /\ doomed'[i] = doomed[i]
                                  /\ rcDoomed'[i] = rcDoomed[i]
  BY <1>1, <1>2, <1>4
<1>6. made \cap Resources \subseteq doomed'[k]
  <2>1. CASE swept[k] = 0
    <3>1. \A r \in Resources : \E i \in 1..asked[k] : r = Chain[i]
      BY <1>1 DEF Resources
    <3>2. made \cap Resources \subseteq found[k]
      BY <1>1, <3>1 DEF Clearing, LookedUp
    <3>3. QED
      BY <1>1, <2>1, <3>2
  <2>2. CASE swept[k] # 0
    BY <1>1, <2>2 DEF Clearing, Doomed, Gone, Straggled
  <2>3. QED
    BY <2>1, <2>2
<1> HIDE DEF n
<1>7. /\ \A i \in Undoers \ {k} : AtRest(i) /\ AtRest(i)'
      /\ ~AtRest(k)' /\ swept'[k] # 0
  <2>1. ~AtRest(k) /\ ~AtRest(k)'
    BY <1>1 DEF AtRest
  <2>2. \A i \in Undoers \ {k} : AtRest(i) /\ AtRest(i)'
    BY <1>1, <1>5, <2>1, OnlyUndoer DEF AtRest
  <2>3. QED
    BY <1>1, <1>5, <2>1, <2>2
<1>8. OneUndoer' /\ RCsOwned'
  BY <1>7 DEF OneUndoer, RCsOwned
<1>9. AfterProvision'
  BY <1>1 DEF Clearing, AfterProvision
<1>10. NotBegun' /\ LookedUp'
  BY <1>1, <1>5, <1>7 DEF Clearing, NotBegun, LookedUp
<1>11. Doomed'
  <2> SUFFICES ASSUME NEW i \in Undoers
               PROVE  /\ swept'[i] > 0 => made' \cap Resources \subseteq doomed'[i]
                      /\ \A j \in 1..swept'[i] : Dcs[j] \in rcs' => Dcs[j] \in rcDoomed'[i]
                      /\ kpc'[i] = "deleting" =>
                           /\ swept'[i] = Len(Dcs)
                           /\ \A v \in Volumes : Gone(v)' \/ v \in dels'[i]
    BY DEF Doomed, Gone, Straggled
  <2>1. CASE i # k
    BY <1>1, <1>5, <2>1 DEF Clearing, Doomed, Gone, Straggled
  <2>2. CASE i = k
    <3>1. \A j \in 1..n : j = n \/ j \in 1..swept[k]
      BY <1>1 DEF n
    <3>2. \A j \in 1..n : Dcs[j] \in rcs => Dcs[j] \in rcDoomed'[k]
      BY <1>5, <3>1 DEF Clearing, Doomed, Gone, Straggled
    <3>3. QED
      BY <1>1, <1>5, <1>6, <2>2, <3>2
  <2>3. QED
    BY <2>1, <2>2
<1>12. QED
  BY <1>8, <1>9, <1>10, <1>11 DEF Clearing

(* The deletions of the volumes start.                                     *)
LEMMA DeleteVolumnsClears ==
  ASSUME Base, Clearing, NEW k \in Undoers, DeleteVolumns(k)
  PROVE  Clearing'
<1>1. /\ kpc[k] = "clear" /\ kpc'[k] = "deleting"
      /\ swept[k] = Len(Dcs) /\ dels'[k] = Volumes
      /\ \A i \in Undoers \ {k} : kpc'[i] = kpc[i] /\ dels'[i] = dels[i]
      /\ UNCHANGED <<jobs, pvc, gpc, stage, made, rcs, rolled, asked, found, swept, doomed, rcDoomed>>
  BY DEF Base, Job!TypeOK, DeleteVolumns, Job!DeleteVolumns, Job!jobVars, Job!cluster,
         handlerVars, provisionVars, clusterVars, undoVars
<1>2. ~AtRest(k) /\ ~AtRest(k)' /\ \A i \in Undoers \ {k} : AtRest(i)' <=> AtRest(i)
  BY <1>1, HandlerAssumption DEF AtRest
<1>3. OneUndoer' /\ RCsOwned'
  BY <1>1, <1>2 DEF Clearing, OneUndoer, RCsOwned
<1>4. AfterProvision' /\ NotBegun' /\ LookedUp' /\ Doomed'
  BY <1>1 DEF Clearing, AfterProvision, NotBegun, LookedUp, Doomed, Gone, Straggled
<1>5. QED
  BY <1>3, <1>4 DEF Clearing

(* A deletion, when all that is left to do is known to the undoer.         *)
LEMMA DeletionClears ==
  ASSUME Base, Clearing, NEW k \in Undoers, ~AtRest(k), swept[k] > 0,
         UNCHANGED <<jobs, kpc, stage, rolled, asked, found, swept>>,
         made' \subseteq made, rcs' \subseteq rcs,
         \A v \in Volumes : Gone(v) => Gone(v)',
         \A i \in Undoers \ {k} : /\ doomed'[i] = doomed[i] /\ rcDoomed'[i] = rcDoomed[i]
                                  /\ dels'[i] = dels[i],
         \A r \in Resources : r \in doomed[k] => r \in doomed'[k] \/ r \notin made',
         \A r \in DcSet : r \in rcDoomed[k] => r \in rcDoomed'[k] \/ r \notin rcs',
         \A v \in Volumes : v \in dels[k] => v \in dels'[k] \/ Gone(v)'
  PROVE  Clearing'
<1> USE Lengths DEF Base, OwnTypes
<1>1. \A i \in Undoers \ {k} : AtRest(i) /\ AtRest(i)'
  BY OnlyUndoer DEF AtRest
<1>2. OneUndoer' /\ AfterProvision'
  BY <1>1 DEF Clearing, OneUndoer, AfterProvision
<1>3. NotBegun' /\ LookedUp'
  <2>1. NotBegun'
    BY DEF Clearing, NotBegun
  <2>2. LookedUp'
    BY DEF Clearing, LookedUp
  <2>3. QED
    BY <2>1, <2>2
<1>4. Doomed'
  <2> SUFFICES ASSUME NEW i \in Undoers
               PROVE  /\ swept'[i] > 0 => made' \cap Resources \subseteq doomed'[i]
                      /\ \A j \in 1..swept'[i] : Dcs[j] \in rcs' => Dcs[j] \in rcDoomed'[i]
                      /\ kpc'[i] = "deleting" =>
                           /\ swept'[i] = Len(Dcs)
                           /\ \A v \in Volumes : Gone(v)' \/ v \in dels'[i]
    BY DEF Doomed, Gone, Straggled
  <2>1. /\ swept[i] > 0 => made \cap Resources \subseteq doomed[i]
        /\ \A j \in 1..swept[i] : Dcs[j] \in rcs => Dcs[j] \in rcDoomed[i]
        /\ kpc[i] = "deleting" => /\ swept[i] = Len(Dcs)
                                  /\ \A v \in Volumes : Gone(v) \/ v \in dels[i]
    BY DEF Clearing, Doomed, Gone, Straggled
  <2>2. \A j \in 1..swept[i] : Dcs[j] \in DcSet
    OBVIOUS
  <2>3. CASE i = k
    BY <2>1, <2>2, <2>3
  <2>4. CASE i # k
    BY <2>1, <2>4
  <2>5. QED
    BY <2>3, <2>4
<1>5. RCsOwned'
  <2> SUFFICES ASSUME AtRest(k)' PROVE rcs' \cap DcSet = {}
    BY DEF RCsOwned
  <2>1. kpc'[k] = "deleting" /\ rcDoomed'[k] = {}
    BY DEF AtRest
  <2>2. \A j \in 1..Len(Dcs) : Dcs[j] \notin rcs'
    BY <1>4, <2>1 DEF Doomed, Gone, Straggled
  <2>3. QED
    BY <2>2 DEF DcSet
<1>6. QED
  BY <1>2, <1>3, <1>4, <1>5 DEF Clearing

LEMMA DeletionsClear ==
  ASSUME Base, Orderly, Clearing, NEW k \in Undoers,
         \/ \E r \in Resources : DeleteResource(k, r)
         \/ \E r \in DcSet \cup Foreign : DeleteRC(k, r)
         \/ \E v \in Volumes : DeleteVolumn(k, v)
  PROVE  Clearing'
<1> USE DEF Base, OwnTypes
<1>1. ASSUME doomed[k] # {} \/ rcDoomed[k] # {} \/ dels[k] # {}
      PROVE  ~AtRest(k) /\ swept[k] > 0
  <2>1. swept[k] # 0
    <3>1. swept[k] = 0 => doomed[k] = {} /\ rcDoomed[k] = {}
      BY DEF Clearing, NotBegun
    <3>2. kpc[k] = "deleting" => swept[k] # 0
      BY Lengths DEF Clearing, Doomed, Gone, Straggled
    <3>3. QED
      BY <1>1, <3>1, <3>2 DEF Claiming
  <2>2. ~AtRest(k)
    BY <1>1, <2>1 DEF AtRest, Clearing, NotBegun
  <2>3. QED
    BY <2>1, <2>2, Lengths
<1>2. ~env.callsFail
  BY DEF Orderly
<1>3. ASSUME NEW r \in Resources, DeleteResource(k, r) PROVE Clearing'
  <2>1. /\ r \in doomed[k] /\ doomed' = [doomed EXCEPT ![k] = @ \ {r}] /\ made' = made \ {r}
        /\ UNCHANGED <<jobs, kpc, dels, pvc, gpc, stage, rcs, rolled, asked, found, swept, rcDoomed>>
    BY <1>2, <1>3 DEF DeleteResource, volumeVars, provisionVars
  <2>2. ~AtRest(k) /\ swept[k] > 0
    BY <1>1, <2>1
  <2>3. QED
    BY <2>1, <2>2, DeletionClears DEF Gone, Straggled
<1>4. ASSUME NEW r \in DcSet \cup Foreign, DeleteRC(k, r) PROVE Clearing'
  <2>1. /\ r \in rcDoomed[k] /\ rcDoomed' = [rcDoomed EXCEPT ![k] = @ \ {r}]
        /\ rcs' = rcs \ {r}
        /\ UNCHANGED <<jobs, kpc, dels, pvc, gpc, stage, made, rolled, asked, found, swept, doomed>>
    BY <1>2, <1>4 DEF DeleteRC, volumeVars, provisionVars
  <2>2. ~AtRest(k) /\ swept[k] > 0
    BY <1>1, <2>1
  <2>3. QED
    BY <2>1, <2>2, DeletionClears DEF Gone, Straggled
<1>5. ASSUME NEW v \in Volumes, DeleteVolumn(k, v) PROVE Clearing'
  <2>1. /\ v \in dels[k] /\ dels' = [dels EXCEPT ![k] = @ \ {v}]
        /\ pvc'[v] = "absent" /\ \A w \in Volumes \ {v} : pvc'[w] = pvc[w]
        /\ UNCHANGED <<jobs, gpc, kpc, stage, made, rcs, rolled, asked, found, swept,
                       doomed, rcDoomed>>
    BY <1>2, <1>5 DEF Job!TypeOK, DeleteVolumn, Job!DeleteVolumn, Job!jobVars, Job!cluster,
                      handlerVars, provisionVars, clusterVars, undoVars
  <2>2. ~AtRest(k) /\ swept[k] > 0
    BY <1>1, <2>1
  <2>3. /\ \A w \in Volumes : Gone(w) => Gone(w)'
        /\ \A w \in Volumes : w \in dels[k] => w \in dels'[k] \/ Gone(w)'
        /\ \A i \in Undoers \ {k} : dels'[i] = dels[i]
    BY <2>1 DEF Gone, Straggled, Job!TypeOK
  <2>4. QED
    BY <2>1, <2>2, <2>3, DeletionClears
<1>6. QED
  BY <1>3, <1>4, <1>5

(* The rollout of a deployment config, which precedes every undoer.        *)
LEMMA RollClears ==
  ASSUME Base, Clearing, NEW d \in DcSet, ClusterRoll(d)
  PROVE  Clearing'
<1>1. /\ d \in made /\ d \notin rolled /\ rcs' = rcs \cup {d}
      /\ UNCHANGED <<jobs, kpc, dels, pvc, gpc, stage, made, asked, found, swept, doomed, rcDoomed>>
  BY DEF ClusterRoll, volumeVars, provisionVars, undoVars
<1>2. \A k \in Undoers : kpc[k] = "look"
  BY <1>1 DEF Clearing, AfterProvision
<1>3. OneUndoer' /\ AfterProvision' /\ NotBegun' /\ RCsOwned'
  BY <1>1, <1>2 DEF Clearing, OneUndoer, AfterProvision, NotBegun, RCsOwned, AtRest
<1>4. \A k \in Undoers : asked[k] = 0 /\ swept[k] = 0
  BY <1>2 DEF Clearing, NotBegun
<1>5. LookedUp' /\ Doomed'
  BY <1>1, <1>2, <1>4, Lengths DEF LookedUp, Doomed, Gone, Straggled
<1>6. QED
  BY <1>3, <1>5 DEF Clearing

-----------------------------------------------------------------------------
LEMMA ClearingStep ==
  ASSUME Base, NothingBelated, Orderly => Clearing, [Next]_vars
  PROVE  (Orderly => Clearing)'
<1>1. UNCHANGED env
  BY DEF Next, vars, ProvisionerStep, UndoStep, AskForVolumes, VolumesAnswered, Post,
         ChainPosted, InitPod, UndoSelf, JobStep, Deprovision, WaitForJob, LookUp, SweepRCs,
         Get, DeleteVolumns, DeleteResource, DeleteRC, DeleteVolumn, ClusterBind, ClusterRoll,
         LatePost,
         handlerVars
<1> SUFFICES ASSUME Orderly, Clearing PROVE Clearing'
  BY <1>1 DEF Orderly
<1>2. CASE AskForVolumes \/ JobStep \/ \E v \in Volumes : ClusterBind(v)
  BY <1>2, JobClears
<1>3. CASE ProvisionerStep
  BY <1>3, ProvisionerClears, BeginClears DEF ProvisionerStep
<1>4. ASSUME NEW k \in Undoers, Deprovision(k) \/ UndoStep(k) PROVE Clearing'
  BY <1>4, BeginClears, WaitClears, LookUpClears, SweepClears, DeleteVolumnsClears DEF UndoStep
<1>5. ~(\E r \in Resources \cup {Pod} : LatePost(r))
  BY DEF NothingBelated, Orderly, LatePost
<1>6. CASE UNCHANGED vars
  BY <1>6 DEF vars, volumeVars, handlerVars, provisionVars, clusterVars, undoVars, Clearing,
              OneUndoer, AfterProvision, NotBegun, RCsOwned, LookedUp, Doomed, AtRest,
              Gone, Straggled
<1>7. QED
  BY <1>2, <1>3, <1>4, <1>5, <1>6, DeletionsClear, RollClears DEF Next

(* A client that waits for each operation to end gets a clean removal, if  *)
(* requests succeed: nothing of the chain, no RC and no volume is left,    *)
(* but what the server made late for a create that was given up.           *)
THEOREM RemovalIsClean == Spec => []CleanRemoval
<1>1. Init => (Orderly => Clearing)
  <2> SUFFICES ASSUME Init PROVE Clearing
    OBVIOUS
  <2>1. \A k \in Undoers : kpc[k] = "look" /\ asked[k] = 0 /\ swept[k] = 0
    BY DEF Init, Job!Init
  <2>2. OneUndoer /\ AfterProvision /\ NotBegun
    BY <2>1 DEF Init, OneUndoer, AfterProvision, NotBegun, AtRest
  <2>3. RCsOwned
    BY HandlerAssumption DEF Init, RCsOwned
  <2>4. LookedUp /\ Doomed
    BY <2>1, Lengths DEF LookedUp, Doomed, Gone, Straggled
  <2>5. QED
    BY <2>2, <2>3, <2>4 DEF Clearing
<1>2. Base /\ NothingBelated /\ (Orderly => Clearing) /\ [Next]_vars => (Orderly => Clearing)'
  BY ClearingStep
<1>3. (Orderly => Clearing) => CleanRemoval
  <2> SUFFICES ASSUME Clearing, NEW k \in Deprovisions, AtRest(k), kpc[k] = "deleting"
               PROVE  /\ made \cap Resources = {} /\ rcs \cap DcSet = {}
                      /\ \A v \in Volumes : Gone(v)
    BY DEF Orderly, CleanRemoval, Undoers, Gone
  <2>1. dels[k] = {} /\ doomed[k] = {} /\ rcDoomed[k] = {} /\ swept[k] = Len(Dcs)
    BY DEF AtRest, Clearing, Doomed, Gone, Straggled, Undoers
  <2>2. made \cap Resources = {} /\ \A i \in 1..Len(Dcs) : Dcs[i] \notin rcs
    BY <2>1, Lengths DEF Clearing, Doomed, Gone, Straggled, Undoers
  <2>3. \A v \in Volumes : Gone(v)
    BY <2>1 DEF Clearing, Doomed, Gone, Straggled, Undoers
  <2>4. QED
    BY <2>2, <2>3 DEF DcSet
<1>4. QED
  BY <1>1, <1>2, <1>3, BaseHolds, NothingBelatedHolds, PTL DEF Spec
=============================================================================
