------------------------- MODULE ServiceRemovalProofs -------------------------
(***************************************************************************)
(* Proofs about ServiceInstance for every table that keeps the conditions  *)
(* of ServiceTables: what DoDeprovision leaves behind.                     *)
(***************************************************************************)
EXTENDS ServiceInstanceProofs, ServiceTables

-----------------------------------------------------------------------------
(* Programs and what is in them.                                           *)

(* Less to be done brings less.                                            *)
LEMMA LessIsLess ==
  ASSUME NEW p, NEW q,
         \A step \in Steps(q) : step \in Steps(p) \/ step.do \in UndoSteps
  PROVE  /\ Brought(q) \subseteq Brought(p) /\ PostedBy(q) \subseteq PostedBy(p)
         /\ \A what : what \notin UndoSteps => /\ Having(q, what) \subseteq Having(p, what)
                                               /\ LotsOf(q, what) \subseteq LotsOf(p, what)
<1>1. \A what : what \notin UndoSteps => /\ Having(q, what) \subseteq Having(p, what)
                                         /\ LotsOf(q, what) \subseteq LotsOf(p, what)
  BY DEF Having, LotsOf
<1>2. "post" \notin UndoSteps /\ "go" \notin UndoSteps
  BY DEF UndoSteps
<1>3. Having(q, "post") \subseteq Having(p, "post") /\ Having(q, "go") \subseteq Having(p, "go")
  BY <1>1, <1>2
<1>4. PostedBy(q) \subseteq PostedBy(p)
  BY <1>3 DEF PostedBy
<1> QED
  BY <1>1, <1>3, <1>4 DEF Brought

LEMMA NothingBrings ==
  /\ Steps(<<>>) = {} /\ DOMAIN <<>> = {}
  /\ Brought(<<>>) = {} /\ PostedBy(<<>>) = {}
  /\ \A what : Having(<<>>, what) = {} /\ LotsOf(<<>>, what) = {}
<1>1. Steps(<<>>) = {} /\ DOMAIN <<>> = {}
  BY DEF Steps
<1> QED
  BY <1>1 DEF Brought, PostedBy, Having, LotsOf

(* A program is its first step and the rest.                               *)
LEMMA ProgramOf ==
  ASSUME Programmed, NEW r \in Routines, code[r] # <<>>
  PROVE  /\ Now(r) = code[r][1] /\ 1 \in DOMAIN code[r]
         /\ Now(r) \in Steps(code[r]) /\ Now(r).do \in Repertoire(r)
         /\ Loaded(Handler.load, Now(r))
         /\ \A i \in DOMAIN code[r] : i \in Nat /\ i >= 1
         /\ \A i \in DOMAIN Tail(code[r]) :
              /\ i \in Nat /\ i >= 1
              /\ i + 1 \in DOMAIN code[r] /\ Tail(code[r])[i] = code[r][i + 1]
         /\ \A i \in DOMAIN code[r] : i # 1 =>
              /\ i - 1 \in DOMAIN Tail(code[r]) /\ code[r][i] = Tail(code[r])[i - 1]
         /\ Steps(code[r]) = {Now(r)} \cup Steps(Tail(code[r]))
<1> DEFINE p == code[r]
           S == {step \in Steps(p) : step.do \in Repertoire(r) /\ Loaded(Handler.load, step)}
<1>1. Straight(Handler.load, Repertoire(r), p)
  BY DEF Programmed, WellFormed
<1>2. p \in Seq(S)
  BY <1>1 DEF Straight
<1>3. /\ Head(p) \in Steps(p) /\ Head(p).do \in Repertoire(r) /\ Loaded(Handler.load, Head(p))
      /\ Head(p) = p[1] /\ 1 \in DOMAIN p
  BY <1>1, RestIsStraight
<1> HIDE DEF S, p
<1>4. /\ Len(p) \in Nat /\ Len(p) > 0 /\ DOMAIN p = 1..Len(p)
      /\ Tail(p) \in Seq(S) /\ Len(Tail(p)) = Len(p) - 1
      /\ DOMAIN Tail(p) = 1..Len(Tail(p))
      /\ \A i \in 1..Len(Tail(p)) : Tail(p)[i] = p[i + 1]
  BY <1>2 DEF p
<1>5. /\ \A i \in DOMAIN p : i \in Nat /\ i >= 1
      /\ \A i \in DOMAIN Tail(p) :
           /\ i \in Nat /\ i >= 1
           /\ i + 1 \in DOMAIN p /\ Tail(p)[i] = p[i + 1]
  BY <1>4
<1>6. \A i \in DOMAIN p : i # 1 => i - 1 \in DOMAIN Tail(p) /\ p[i] = Tail(p)[i - 1]
  <2> SUFFICES ASSUME NEW i \in DOMAIN p, i # 1
               PROVE  i - 1 \in DOMAIN Tail(p) /\ p[i] = Tail(p)[i - 1]
    OBVIOUS
  <2>1. i - 1 \in 1..Len(Tail(p)) /\ (i - 1) + 1 = i
    BY <1>4
  <2>2. Tail(p)[i - 1] = p[(i - 1) + 1]
    BY <1>4, <2>1
  <2> QED
    BY <1>4, <2>1, <2>2
<1>7. Steps(p) = {Head(p)} \cup Steps(Tail(p))
  <2>1. Steps(p) \subseteq {Head(p)} \cup Steps(Tail(p))
    <3> SUFFICES ASSUME NEW i \in DOMAIN p
                 PROVE  p[i] \in {Head(p)} \cup Steps(Tail(p))
      BY DEF Steps
    <3> QED
      BY <1>3, <1>6 DEF p, Steps
  <2>2. Steps(Tail(p)) \subseteq Steps(p)
    BY <1>5 DEF Steps
  <2> QED
    BY <1>3, <2>1, <2>2 DEF p
<1> QED
  BY <1>3, <1>5, <1>6, <1>7 DEF p, Now

LEMMA StraightIsSeq ==
  ASSUME NEW load, NEW kinds, NEW p, Straight(load, kinds, p)
  PROVE  Len(p) \in Nat /\ DOMAIN p = 1..Len(p) /\ (Len(p) = 0 => p = <<>>)
<1> DEFINE S == {step \in Steps(p) : step.do \in kinds /\ Loaded(load, step)}
<1>1. p \in Seq(S)
  BY DEF Straight
<1> HIDE DEF S
<1> QED
  BY <1>1, EmptySeq

(* Nobody is without steps who has something to do.                        *)
LEMMA StepsOfNone ==
  ASSUME Programmed, NEW r \in Routines, Steps(code[r]) = {}
  PROVE  code[r] = <<>>
BY ProgramOf

-----------------------------------------------------------------------------
(* What becomes of a goroutine's program.                                  *)
Turns(x) ==
  \/ code'[x] = code[x]
  \/ code[x] # <<>> /\ Step(x) /\ Follows(x, code'[x])
  \/ /\ x = "job" /\ Start("provisioner")
     /\ code[x] = <<>> /\ code'[x] = Handler.run
  \/ /\ x \in {"helper", "helper2"} /\ StartHelper("job") /\ Now("job").helper = x
     /\ code[x] = <<>> /\ code'[x] = Now("job").program
  \/ /\ x = "self" /\ \E r \in {"provisioner", "job"} : DeprovisionSelf(r)
     /\ code[x] = <<>> /\ code'[x] = Handler.DoDeprovision
  \/ /\ x = "client" /\ ClientDeprovisions
     /\ code[x] = <<>> /\ code'[x] = Handler.DoDeprovision
  \/ Crash /\ code'[x] = <<>>

LEMMA HandsOverExactly ==
  ASSUME IInv, NEW r \in Routines, HandsOver(r)
  PROVE  \A x \in Routines : Turns(x)
<1>1. DOMAIN code = Routines /\ code[r] # <<>> /\ Now(r).do \in Repertoire(r)
  <2>1. code[r] # <<>>
    BY DEF HandsOver, Start, StartHelper, DeprovisionSelf, Doing
  <2> QED
    BY <2>1, ProgramOf DEF IInv, TypeOK
<1>2. PICK s, p :
        /\ Starts(r, s, p)
        /\ \/ r = "provisioner" /\ s = "job" /\ Tail(code[r]) = <<>>
           \/ /\ r = "job" /\ Now(r).do = "go"
              /\ s \in {"helper", "helper2"} /\ s = Now(r).helper
           \/ r \in {"provisioner", "job"} /\ s = "self" /\ Tail(code[r]) = <<>>
  BY HandsOverTo DEF IInv
<1>3. Turns(r)
  BY <1>1, <1>2 DEF Turns, Starts, Follows, Step, HandsOver
<1>4. \A x \in Routines \ {r, s} : Turns(x)
  BY <1>2 DEF Turns, Starts
<1>5. Turns(s)
  <2>1. s # r /\ code[s] = <<>> /\ s \in Routines
    BY <1>2 DEF Starts
  <2>2. CASE Start(r)
    <3>1. r = "provisioner"
      BY <1>1, <2>2 DEF Start, Doing, Routines, Repertoire, ProvisionSteps, RunSteps, UndoSteps,
                        DeprovisionSteps
    <3>2. code' = [code EXCEPT ![r] = Tail(@), !["job"] = Handler.run]
      BY <2>2 DEF Start
    <3>3. s # "job" => code'[s] = code[s]
      BY <1>1, <2>1, <3>1, <3>2
    <3>4. s = "job" => code'[s] = Handler.run
      BY <1>1, <2>1, <3>2
    <3> QED
      BY <2>1, <2>2, <3>1, <3>3, <3>4 DEF Turns
  <2>3. CASE StartHelper(r)
    <3>1. r = "job"
      BY <1>1, <2>3 DEF StartHelper, Doing, Routines, Repertoire, ProvisionSteps, RunSteps,
                        UndoSteps, DeprovisionSteps
    <3>2. code' = [code EXCEPT ![r] = Tail(@), ![Now(r).helper] = Now(r).program]
      BY <2>3 DEF StartHelper
    <3>3. s # Now(r).helper => code'[s] = code[s]
      BY <1>1, <2>1, <3>2
    <3>4. s = Now(r).helper => code'[s] = Now(r).program /\ s \in {"helper", "helper2"}
      <4>1. s = Now(r).helper => code'[s] = Now(r).program
        BY <1>1, <2>1, <3>2
      <4>2. Now(r).helper \in {"helper", "helper2"}
        <5>1. Now(r) \in Steps(code[r]) /\ Now(r).do = "go"
          BY <1>1, <2>3, ProgramOf DEF StartHelper, Doing, IInv
        <5> QED
          BY <5>1 DEF IInv, Programmed, WellFormed
      <4> QED
        BY <4>1, <4>2
    <3> QED
      BY <2>1, <2>3, <3>1, <3>3, <3>4 DEF Turns
  <2>4. CASE DeprovisionSelf(r)
    <3>1. r \in {"provisioner", "job"}
      BY <1>1, <2>4 DEF DeprovisionSelf, Doing, Routines, Repertoire, ProvisionSteps, RunSteps,
                        UndoSteps, DeprovisionSteps
    <3>2. code' = [code EXCEPT ![r] = Tail(@), !["self"] = Handler.DoDeprovision]
      BY <2>4 DEF DeprovisionSelf
    <3>3. s # "self" => code'[s] = code[s]
      BY <1>1, <2>1, <3>2
    <3>4. s = "self" => code'[s] = Handler.DoDeprovision
      BY <1>1, <2>1, <3>2
    <3> QED
      BY <2>1, <2>4, <3>1, <3>3, <3>4 DEF Turns
  <2> QED
    BY <2>2, <2>3, <2>4 DEF HandsOver
<1> QED
  BY <1>3, <1>4, <1>5

LEMMA CodeTurns ==
  ASSUME IInv, [Next]_vars, NEW x \in Routines
  PROVE  Turns(x)
<1>1. DOMAIN code = Routines
  BY DEF IInv, TypeOK
<1>2. ASSUME NEW r \in Routines, Step(r)
      PROVE  Turns(x)
  <2>1. CASE HandsOver(r)
    BY <2>1, HandsOverExactly
  <2>2. CASE \E q : Follows(r, q) /\ Becomes(r, q)
    <3>1. x = r => Follows(x, code'[x]) /\ code[x] # <<>> /\ Step(x)
      BY <1>2, <2>2, StepMoves DEF Becomes, IInv
    <3>2. x # r => code'[x] = code[x]
      BY <2>2 DEF Becomes
    <3> QED
      BY <3>1, <3>2 DEF Turns
  <2> QED
    BY <1>2, <2>1, <2>2, StepMoves DEF IInv
<1>3. CASE ClientDeprovisions
  <2>1. code["client"] = <<>>
    BY <1>3 DEF ClientDeprovisions, IInv, Succession
  <2>2. /\ x = "client" => code'[x] = Handler.DoDeprovision
        /\ x # "client" => code'[x] = code[x]
    BY <1>1, <1>3 DEF ClientDeprovisions
  <2> QED
    BY <1>3, <2>1, <2>2 DEF Turns
<1>4. CASE Crash
  BY <1>4 DEF Crash, Turns
<1> QED
  BY <1>2, <1>3, <1>4, NextMoves DEF IInv, vars, lifeVars, programVars, Turns

(* What a goroutine that goes on has left is from its program or undoes.   *)
LEMMA FollowersUndo ==
  ASSUME IInv, NEW x \in Routines, code[x] # <<>>, NEW q, Follows(x, q)
  PROVE  /\ \A step \in Steps(q) : step \in Steps(code[x]) \/ step.do \in UndoSteps
         /\ x \notin {"provisioner", "job"} => Steps(q) \subseteq Steps(code[x])
BY FollowsWellFormed DEF IInv

(* What is done in a goroutine that is not started by the step was to be   *)
(* done before, or undoes.                                                 *)
LEMMA StepsTurn ==
  ASSUME IInv, [Next]_vars, NEW x \in Routines
  PROVE  \A step \in Steps(code'[x]) :
           \/ step \in Steps(code[x])
           \/ step.do \in UndoSteps /\ x \in {"provisioner", "job"}
           \/ /\ x = "job" /\ Start("provisioner")
              /\ code[x] = <<>> /\ code'[x] = Handler.run
           \/ /\ x \in {"helper", "helper2"} /\ StartHelper("job")
              /\ code[x] = <<>> /\ code'[x] = Now("job").program
           \/ /\ x = "self" /\ \E r \in {"provisioner", "job"} : DeprovisionSelf(r)
              /\ code[x] = <<>> /\ code'[x] = Handler.DoDeprovision
           \/ /\ x = "client" /\ ClientDeprovisions
              /\ code[x] = <<>> /\ code'[x] = Handler.DoDeprovision
<1>1. Turns(x)
  BY CodeTurns
<1>2. CASE code[x] # <<>> /\ Step(x) /\ Follows(x, code'[x])
  BY <1>2, FollowersUndo
<1>3. CASE Crash /\ code'[x] = <<>>
  BY <1>3, NothingBrings
<1> QED
  BY <1>1, <1>2, <1>3 DEF Turns

-----------------------------------------------------------------------------
(* Who touches what.                                                       *)

(* The next of a chain is of the chain.                                    *)
Posted(r) == <<Now(r).group, Now(r).chain[n[r] + 1]>>

LEMMA PostedIsBrought ==
  ASSUME IInv, NEW r \in Routines, Doing(r, "post")
  PROVE  /\ n[r] \in Nat /\ n[r] + 1 \in 1..Len(Now(r).chain) /\ Len(Now(r).chain) \in Nat
         /\ Now(r) \in Having(code[r], "post")
         /\ Posted(r) \in All(Now(r).group, Now(r).chain)
         /\ Posted(r) \in Brought(code[r])
<1>1. code[r] # <<>> /\ n[r] < Len(Now(r).chain) /\ n[r] \in Nat /\ Now(r).do = "post"
  BY DEF IInv, TypeOK, Counted, Doing
<1>2. Now(r) \in Steps(code[r]) /\ Len(Now(r).chain) \in Nat
  BY <1>1, ProgramOf, ListsName DEF IInv
<1>3. n[r] + 1 \in 1..Len(Now(r).chain)
  BY <1>1, <1>2
<1>4. Posted(r) \in All(Now(r).group, Now(r).chain)
  BY <1>3 DEF Posted, All
<1> QED
  BY <1>1, <1>2, <1>3, <1>4 DEF Having, PostedBy, Brought

Deletes(r) == UndoChain(r) \/ Kdelete(r) \/ DestroyFound(r)

LEMMA ClusterMoves ==
  ASSUME IInv, [Next]_vars
  PROVE  \/ UNCHANGED <<made, draining>>
         \/ \E r \in Routines : PostNext(r)
         \/ \E r \in Routines : Deletes(r)
         \/ DeleteRCs
         \/ Crash
<1>1. ASSUME NEW r \in Routines, Step(r), ~PostNext(r), ~Deletes(r)
      PROVE  UNCHANGED <<made, draining>>
  <2>1. CASE Save(r) \/ Send(r) \/ LookUp(r) \/ Look(r)
             \/ AskForVolumes(r) \/ VolumesAnswered(r) \/ DeleteVolumes(r)
    BY <2>1 DEF Save, Send, LookUp, Look, AskForVolumes, VolumesAnswered, DeleteVolumes,
       clusterVars
  <2>2. CASE CreateTheUser(r) \/ DropTheUser(r)
    BY <2>2 DEF CreateTheUser, DropTheUser
  <2>3. CASE WaitForPods(r) \/ LookAtCancelled(r) \/ WaitInited(r) \/ FollowWatch(r)
             \/ StopVolumeJob(r) \/ StopTheJob(r) \/ HandsOver(r)
    BY <2>3 DEF WaitForPods, LookAtCancelled, WaitInited, FollowWatch, StopVolumeJob,
       StopTheJob, HandsOver, Start, StartHelper, DeprovisionSelf, clusterVars
  <2> QED
    BY <1>1, <2>1, <2>2, <2>3 DEF Step, HandsOver, Deletes
<1>2. CASE (\E l \in Lots : VolumeJob(l)) \/ ClientDeprovisions
  BY <1>2 DEF VolumeJob, ClientDeprovisions, clusterVars
<1>3. CASE \E g \in DOMAIN Handler.load : PodsRun(g)
  BY <1>3 DEF PodsRun
<1> QED
  BY <1>1, <1>2, <1>3 DEF Next, vars, lifeVars, clusterVars

LEMMA VolumesMove ==
  ASSUME [Next]_vars
  PROVE  \/ UNCHANGED <<jobs, listed, claims>>
         \/ \E r \in Routines : AskForVolumes(r)
         \/ \E r \in Routines : StopVolumeJob(r)
         \/ \E r \in Routines : DeleteVolumes(r)
         \/ \E l \in Lots : VolumeJob(l)
         \/ Crash
<1>1. ASSUME NEW r \in Routines, Step(r), ~AskForVolumes(r), ~StopVolumeJob(r), ~DeleteVolumes(r)
      PROVE  UNCHANGED <<jobs, listed, claims>>
  <2>1. CASE Save(r) \/ Send(r) \/ PostNext(r) \/ UndoChain(r) \/ Kdelete(r) \/ LookUp(r)
             \/ DestroyFound(r) \/ Look(r) \/ VolumesAnswered(r)
    BY <2>1 DEF Save, Send, PostNext, UndoChain, Kdelete, LookUp, DestroyFound, Look,
       VolumesAnswered, volumeVars
  <2>2. CASE Start(r) \/ WaitForPods(r) \/ LookAtCancelled(r) \/ WaitInited(r) \/ FollowWatch(r)
             \/ StartHelper(r) \/ CreateTheUser(r) \/ DropTheUser(r) \/ StopTheJob(r)
             \/ DeprovisionSelf(r)
    BY <2>2 DEF Start, WaitForPods, LookAtCancelled, WaitInited, FollowWatch, StartHelper,
       CreateTheUser, DropTheUser, StopTheJob, DeprovisionSelf, volumeVars
  <2> QED
    BY <1>1, <2>1, <2>2 DEF Step
<1>2. CASE ClientDeprovisions \/ DeleteRCs \/ \E g \in DOMAIN Handler.load : PodsRun(g)
  BY <1>2 DEF ClientDeprovisions, DeleteRCs, PodsRun, volumeVars
<1> QED
  BY <1>1, <1>2 DEF Next, vars, lifeVars, volumeVars

(* What a deletion takes is gone, or is being scaled down.                 *)
LEMMA DeletionTakes ==
  ASSUME NEW set, Delete(set)
  PROVE  made' \subseteq made /\ made' \ draining' = (made \ draining) \ set
<1>1. /\ made' = made \ {res \in set : Kind(res) # Rc}
      /\ draining' = draining \cup {res \in set : Kind(res) \in {Rc, Dc}}
  BY DEF Delete
<1> QED
  BY <1>1

LEMMA DeletionsTake ==
  ASSUME NEW r \in Routines, Deletes(r)
  PROVE  made' \subseteq made /\ made' \ draining' \subseteq made \ draining
<1>1. PICK set : DeleteAll(set)
  BY DEF Deletes, UndoChain, Kdelete, DestroyFound
<1>2. \E taken : Delete(taken)
  BY <1>1 DEF DeleteAll
<1> QED
  BY <1>2, DeletionTakes

(* The record, the surroundings and the crash.                             *)
LEMMA RecordMoves ==
  ASSUME IInv, [Next]_vars
  PROVE  /\ env' = env /\ Handler' = Handler
         /\ \/ record' = record
            \/ record = "no" /\ record' = "yes"
            \/ record = "yes" /\ record' = "gone" /\ ClientDeprovisions
         /\ crashed' = crashed \/ (Crash /\ env.faults = "crash")
         /\ Crash => record' = record
<1>1. env' = env
  BY NextMoves DEF IInv, vars, lifeVars
<1>2. ASSUME NEW r \in Routines, Step(r), record' # record
      PROVE  record = "no" /\ record' = "yes"
  <2>1. Save(r) /\ record' = "yes" /\ code[r] # <<>>
    BY <1>2, StepMoves DEF IInv
  <2>2. Now(r).do \in Repertoire(r) /\ Now(r) \in Steps(code[r])
    BY <2>1, ProgramOf DEF IInv
  <2>3. r = "provisioner" /\ Now(r).do \in {"saved", "saved blank"}
    BY <2>1, <2>2 DEF Save, Doing, Routines, Repertoire, ProvisionSteps, RunSteps, UndoSteps,
                      DeprovisionSteps
  <2> QED
    BY <2>1, <2>2, <2>3 DEF IInv, Succession
<1>3. Next => \/ record' = record
              \/ record = "no" /\ record' = "yes"
              \/ record = "yes" /\ record' = "gone" /\ ClientDeprovisions
  BY <1>2, NextMoves DEF IInv, ClientDeprovisions, Crash
<1>4. crashed' = crashed \/ (Crash /\ env.faults = "crash")
  BY DEF Next, Crash, vars
<1>5. Crash => record' = record
  BY DEF Crash
<1> QED
  BY <1>1, <1>3, <1>4, <1>5 DEF Handler, vars, lifeVars

-----------------------------------------------------------------------------
(* What there can be of an instance: what its programs bring.              *)
Steady(l) == jobs[l] \notin {"creating", "cancelled", "answered"}

BroughtOnly ==
  /\ made \subseteq Everything(Handler)
  /\ \A r \in Routines : /\ Brought(code[r]) \subseteq Everything(Handler)
                         /\ LotsOf(code[r], "volumes") \subseteq VolumesOf(Handler)

JobOnly ==
  /\ \A r \in Posters : code[r] # <<>> => Handler.run # <<>>
  /\ Having(code["job"], "go") \subseteq Having(Handler.run, "go")
  /\ \A r \in {"helper", "helper2"} : \A step \in Steps(code[r]) : step.group \in Helped

VolumesOnly ==
  \A l \in Lots :
    /\ claims[l] # "none" => jobs[l] # "none"
    /\ jobs[l] # "none" => l \in VolumesOf(Handler)
    /\ ~Steady(l) => l \in listed
    /\ env.faults = "none" => jobs[l] # "answered"

Known ==
  BroughtOnly /\ JobOnly /\ VolumesOnly /\ (crashed # "no" => env.faults = "crash")

LEMMA TheTables ==
  ASSUME TypeOK
  PROVE  /\ IsThorough(Handler)
         /\ env.service \notin Unnamed => IsNamed(Handler)
         /\ env.service \notin Unnamed \cup EarlyWord =>
              /\ IsOrderly(Handler) /\ WaitsForJobs(Handler) /\ BindsWhatThereIs(Handler)
              /\ env.service \in RcsFirst => NeedsPods(Handler)
              /\ env.service \notin RcsFirst => NeedsFinal(Handler)
<1>1. env.service \in DOMAIN Handlers
  BY InstanceAssumption DEF TypeOK
<1> QED
  BY <1>1, TablesAssumption DEF Handler

(* What the programs of a handler that undo bring: nothing.                *)
LEMMA UndoingBringsNothing ==
  ASSUME NEW p, \A step \in Steps(p) : step.do \in DeprovisionSteps \cup UndoSteps
  PROVE  /\ Brought(p) = {} /\ PostedBy(p) = {} /\ LotsOf(p, "volumes") = {}
         /\ Having(p, "go") = {} /\ Having(p, "post") = {}
<1>1. \A what \in {"post", "go", "volumes"} : Having(p, what) = {}
  BY DEF Having, DeprovisionSteps, UndoSteps
<1> QED
  BY <1>1 DEF Brought, PostedBy, LotsOf

LEMMA DoDeprovisionUndoes ==
  ASSUME IInv
  PROVE  \A step \in Steps(Handler.DoDeprovision) : step.do \in DeprovisionSteps
BY HandlerIsHandler, StepsAreOfKind DEF IInv, IsHandler, WellFormed

(* The job starts those of its helpers that are in its program.            *)
LEMMA HelperOfTheRun ==
  ASSUME IInv, JobOnly, StartHelper("job")
  PROVE  /\ Now("job") \in Having(Handler.run, "go")
         /\ Now("job") \in Having(code["job"], "go")
         /\ \A post \in Steps(Now("job").program) : post.do = "post" /\ post.group \in Helped
<1>1. code["job"] # <<>> /\ Now("job").do = "go"
  BY DEF StartHelper, Doing
<1>2. Now("job") \in Having(code["job"], "go")
  BY <1>1, ProgramOf DEF IInv, Having, Routines
<1>3. Now("job") \in Having(Handler.run, "go")
  BY <1>2 DEF JobOnly
<1>4. WellFormed(Handler.load, RunSteps, Handler.run)
  BY HandlerIsHandler DEF IInv, IsHandler
<1>5. Now("job").program[1].group \in Helped
  <2>1. PICK i \in DOMAIN Handler.run : Now("job") = Handler.run[i] /\ Handler.run[i].do = "go"
    BY <1>3 DEF Having, Steps
  <2>2. DOMAIN Handler.run = 1..Len(Handler.run)
    BY <1>4, StraightIsSeq DEF WellFormed
  <2> QED
    BY <2>1, <2>2 DEF Helped, Helpers
<1>6. \A post \in Steps(Now("job").program) : post.do = "post"
  <2>1. Straight(Handler.load, {"post"}, Now("job").program)
    BY <1>3, <1>4 DEF WellFormed, Having
  <2> QED
    BY <2>1, StepsAreOfKind
<1> QED
  BY <1>2, <1>3, <1>5, <1>6, TheTables DEF IInv, IsThorough

LEMMA BroughtOnlyStep ==
  ASSUME IInv, BroughtOnly, JobOnly, [Next]_vars
  PROVE  BroughtOnly'
<1>1. Handler' = Handler
  BY RecordMoves
<1>2. ASSUME NEW r \in Routines
      PROVE  /\ Brought(code'[r]) \subseteq Everything(Handler)
             /\ LotsOf(code'[r], "volumes") \subseteq VolumesOf(Handler)
  <2>1. /\ Brought(code[r]) \subseteq Everything(Handler)
        /\ LotsOf(code[r], "volumes") \subseteq VolumesOf(Handler)
        /\ "volumes" \notin UndoSteps
    BY DEF BroughtOnly, UndoSteps
  <2>2. CASE \A step \in Steps(code'[r]) : step \in Steps(code[r]) \/ step.do \in UndoSteps
    BY <2>1, <2>2, LessIsLess
  <2>3. CASE code'[r] = Handler.run
    BY <2>3 DEF Everything, VolumesOf
  <2>4. CASE StartHelper("job") /\ code'[r] = Now("job").program
    <3>1. /\ Now("job") \in Having(Handler.run, "go")
          /\ \A post \in Steps(code'[r]) : post.do = "post"
      BY <2>4, HelperOfTheRun
    <3>2. Having(code'[r], "go") = {} /\ LotsOf(code'[r], "volumes") = {}
      BY <3>1 DEF Having, LotsOf
    <3>3. PostedBy(code'[r]) \subseteq Brought(Handler.run)
      BY <2>4, <3>1 DEF Brought
    <3> QED
      BY <3>2, <3>3 DEF Everything, Brought
  <2>5. CASE code'[r] = Handler.DoDeprovision
    BY <2>5, DoDeprovisionUndoes, UndoingBringsNothing
  <2> QED
    BY <2>2, <2>3, <2>4, <2>5, StepsTurn
<1>3. made' \subseteq Everything(Handler)
  <2>1. made \subseteq Everything(Handler)
    BY DEF BroughtOnly
  <2>2. \A r \in Routines : Doing(r, "post") => Posted(r) \in Everything(Handler)
    BY PostedIsBrought DEF BroughtOnly
  <2>3. CASE \E r \in Routines : PostNext(r)
    <3>1. PICK r \in Routines : PostNext(r)
      BY <2>3
    <3>2. Doing(r, "post") /\ (made' = made \/ made' = made \cup {Posted(r)})
      BY <3>1 DEF PostNext, Posted
    <3> QED
      BY <2>1, <2>2, <3>2
  <2>4. CASE \E r \in Routines : Deletes(r)
    BY <2>1, <2>4, DeletionsTake
  <2>5. CASE DeleteRCs
    BY <2>1, <2>5 DEF DeleteRCs
  <2>6. CASE Crash
    <3>1. \A r \in sent : r \in Routines /\ Doing(r, "post")
      BY DEF IInv, TypeOK, Posters, Routines
    <3>2. PICK late \in SUBSET {Posted(r) : r \in sent} : made' = made \cup late
      BY <2>6 DEF Crash, Posted
    <3> QED
      BY <2>1, <2>2, <3>1, <3>2
  <2> QED
    BY <2>1, <2>3, <2>4, <2>5, <2>6, ClusterMoves
<1> QED
  BY <1>1, <1>2, <1>3 DEF BroughtOnly

LEMMA JobOnlyStep ==
  ASSUME IInv, JobOnly, [Next]_vars
  PROVE  JobOnly'
<1>1. Handler' = Handler /\ Helped' = Helped
  BY RecordMoves DEF Helped, Helpers
<1>2. ASSUME NEW r \in Posters, code'[r] # <<>>
      PROVE  Handler.run # <<>>
  <2>1. r \in Routines /\ "job" \in Posters
    BY DEF Posters, Routines
  <2>2. CASE code[r] # <<>>
    BY <2>2 DEF JobOnly
  <2>3. CASE code[r] = <<>> /\ StartHelper("job")
    BY <2>1, <2>3 DEF StartHelper, Doing, JobOnly
  <2>4. CASE code[r] = <<>> /\ ~StartHelper("job")
    BY <1>2, <2>1, <2>4, CodeTurns DEF Turns, Posters
  <2> QED
    BY <2>2, <2>3, <2>4
<1>3. Having(code'["job"], "go") \subseteq Having(Handler.run, "go")
  <2>1. \A step \in Having(code'["job"], "go") :
          step \in Having(code["job"], "go") \/ step \in Having(Handler.run, "go")
    BY StepsTurn DEF Having, UndoSteps, Routines
  <2> QED
    BY <2>1 DEF JobOnly
<1>4. ASSUME NEW r \in {"helper", "helper2"}, NEW step \in Steps(code'[r])
      PROVE  step.group \in Helped
  <2>1. \/ step \in Steps(code[r])
        \/ StartHelper("job") /\ code'[r] = Now("job").program
    BY StepsTurn DEF Routines
  <2> QED
    BY <2>1, HelperOfTheRun DEF JobOnly
<1> QED
  BY <1>1, <1>2, <1>3, <1>4 DEF JobOnly, Posters

LEMMA VolumesOnlyStep ==
  ASSUME IInv, BroughtOnly, VolumesOnly, [Next]_vars
  PROVE  VolumesOnly'
<1>1. env' = env /\ Handler' = Handler
  BY RecordMoves
<1>2. /\ jobs \in [Lots -> {"none", "creating", "cancelled", "answered",
                            "done", "failed", "blocked"}]
      /\ claims \in [Lots -> {"none", "there", "gone"}]
  BY DEF IInv, TypeOK
<1> SUFFICES ASSUME NEW l \in Lots
             PROVE  /\ claims'[l] # "none" => jobs'[l] # "none"
                    /\ jobs'[l] # "none" => l \in VolumesOf(Handler)
                    /\ ~Steady(l)' => l \in listed'
                    /\ env.faults = "none" => jobs'[l] # "answered"
  BY <1>1 DEF VolumesOnly
<1>3. /\ claims[l] # "none" => jobs[l] # "none"
      /\ jobs[l] # "none" => l \in VolumesOf(Handler)
      /\ ~Steady(l) => l \in listed
      /\ env.faults = "none" => jobs[l] # "answered"
  BY DEF VolumesOnly
<1>4. CASE UNCHANGED <<jobs, listed, claims>>
  BY <1>3, <1>4 DEF Steady
<1>5. CASE \E r \in Routines : AskForVolumes(r)
  <2>1. PICK r \in Routines : AskForVolumes(r)
    BY <1>5
  <2>2. /\ Doing(r, "volumes") /\ jobs' = [jobs EXCEPT ![Now(r).lot] = "creating"]
        /\ listed' = listed \cup {Now(r).lot} /\ claims' = claims
    BY <2>1 DEF AskForVolumes
  <2>3. Now(r).lot \in VolumesOf(Handler)
    <3>1. Now(r) \in Having(code[r], "volumes")
      BY <2>2, ProgramOf DEF IInv, Doing, Having
    <3> QED
      BY <3>1 DEF LotsOf, BroughtOnly
  <2> QED
    BY <1>2, <1>3, <2>2, <2>3 DEF Steady
<1>6. CASE \E r \in Routines : StopVolumeJob(r)
  <2>1. /\ UNCHANGED <<listed, claims>>
        /\ \/ jobs' = jobs
           \/ \E k \in listed : jobs[k] = "creating" /\ jobs' = [jobs EXCEPT ![k] = "cancelled"]
    BY <1>6 DEF StopVolumeJob
  <2> QED
    BY <1>2, <1>3, <2>1 DEF Steady
<1>7. CASE \E r \in Routines : DeleteVolumes(r)
  <2>1. /\ UNCHANGED <<jobs, listed>>
        /\ \/ claims' = claims
           \/ \E k : claims' = [claims EXCEPT ![k] = IF @ = "there" THEN "gone" ELSE @]
    BY <1>7 DEF DeleteVolumes
  <2> QED
    BY <1>2, <1>3, <2>1 DEF Steady
<1>8. CASE \E k \in Lots : VolumeJob(k)
  <2>1. PICK k \in Lots : VolumeJob(k)
    BY <1>8
  <2>2. CASE CreateClaims(k) /\ listed' = listed
    <3>1. ~Steady(k) /\ jobs' = jobs /\ claims' = [claims EXCEPT ![k] = "there"]
      BY <2>2 DEF CreateClaims, Steady
    <3> QED
      BY <1>2, <1>3, <2>2, <3>1 DEF Steady
  <2>3. CASE (VolumesBound(k) \/ VolumesFail(k)) /\ listed' = listed
    <3>1. /\ ~Steady(k) /\ claims' = claims
          /\ \/ jobs' = [jobs EXCEPT ![k] = "done"]
             \/ jobs' = [jobs EXCEPT ![k] = "failed"]
             \/ jobs' = [jobs EXCEPT ![k] = "blocked"]
      BY <2>3 DEF VolumesBound, VolumesFail, Steady
    <3> QED
      BY <1>2, <1>3, <2>3, <3>1 DEF Steady
  <2>4. CASE OneVolumeFails(k) /\ listed' = listed
    <3>1. /\ ~Steady(k) /\ claims' = claims /\ env.faults # "none"
          /\ jobs' = [jobs EXCEPT ![k] = "answered"]
      BY <2>4 DEF OneVolumeFails, ACallFails, Steady
    <3> QED
      BY <1>2, <1>3, <2>4, <3>1 DEF Steady
  <2>5. CASE jobs[k] \in {"done", "failed"} /\ listed' = listed \ {k} /\ UNCHANGED <<jobs, claims>>
    BY <1>2, <1>3, <2>5 DEF Steady
  <2> QED
    BY <2>1, <2>2, <2>3, <2>4, <2>5 DEF VolumeJob
<1>9. CASE Crash
  <2>1. /\ jobs' = [k \in Lots |-> IF jobs[k] \in {"none", "done"} THEN jobs[k] ELSE "failed"]
        /\ \E late \in SUBSET {k \in listed : jobs[k] \in {"creating", "cancelled"}} :
             claims' = [k \in Lots |->
                          IF k \in late /\ claims[k] = "none" THEN "there" ELSE claims[k]]
    BY <1>9 DEF Crash
  <2>2. jobs'[l] = (IF jobs[l] \in {"none", "done"} THEN jobs[l] ELSE "failed")
    BY <2>1
  <2>3. claims'[l] = claims[l] \/ jobs[l] \in {"creating", "cancelled"}
    BY <2>1
  <2> QED
    BY <1>2, <1>3, <2>2, <2>3 DEF Steady
<1> QED
  BY <1>4, <1>5, <1>6, <1>7, <1>8, <1>9, VolumesMove

LEMMA KnownStep ==
  ASSUME IInv, Known, [Next]_vars
  PROVE  Known'
<1>1. BroughtOnly' /\ JobOnly' /\ VolumesOnly'
  BY BroughtOnlyStep, JobOnlyStep, VolumesOnlyStep DEF Known
<1> QED
  BY <1>1, RecordMoves DEF Known

LEMMA InitKnown ==
  ASSUME Init
  PROVE  Known
<1>1. /\ code["provisioner"] = Handler.DoProvision
      /\ \A r \in Routines \ {"provisioner"} : code[r] = <<>>
      /\ made = {} /\ listed = {} /\ crashed = "no"
      /\ \A l \in Lots : jobs[l] = "none" /\ claims[l] = "none"
  BY DEF Init, Routines
<1>2. BroughtOnly
  BY <1>1, NothingBrings DEF BroughtOnly, Everything, VolumesOf
<1>3. JobOnly
  BY <1>1, NothingBrings DEF JobOnly, Posters, Routines
<1>4. VolumesOnly
  BY <1>1 DEF VolumesOnly, Steady
<1> QED
  BY <1>1, <1>2, <1>3, <1>4 DEF Known

-----------------------------------------------------------------------------
(* Looking up and deleting.                                                *)

(* A goroutine is going to look for a resource, or has found it.           *)
Seeks(r, res) ==
  \E i \in DOMAIN code[r] :
    /\ code[r][i].do = "remove" /\ res \in Sought(code[r][i])
    /\ i = 1 => \/ res \in got[r]
                \/ \E k \in 1..Len(code[r][1].list) :
                     n[r] < k /\ res = <<code[r][1].group, code[r][1].list[k]>>
Frees(r, l) == l \in LotsOf(code[r], "delete volumes")

LEMMA SeeksFromTheStart ==
  ASSUME NEW r, n'[r] = 0, NEW res \in Removed(code'[r])
  PROVE  Seeks(r, res)'
<1>1. PICK i \in DOMAIN code'[r] : code'[r][i].do = "remove" /\ res \in Sought(code'[r][i])
  BY DEF Removed, Having, Steps
<1>2. PICK k \in 1..Len(code'[r][i].list) : res = <<code'[r][i].group, code'[r][i].list[k]>>
  BY <1>1 DEF Sought, All
<1>3. \E j \in 1..Len(code'[r][i].list) :
        0 < j /\ res = <<code'[r][i].group, code'[r][i].list[j]>>
  BY <1>2
<1> QED
  BY <1>1, <1>3 DEF Seeks

(* What is not sought by the first step of a program is by the rest.       *)
LEMMA SeeksInTheRest ==
  ASSUME IInv, NEW r \in Routines, code[r] # <<>>, NEW res, Seeks(r, res),
         code'[r] = Tail(code[r]), n'[r] = 0,
         Now(r).do = "remove" /\ res \in Sought(Now(r)) =>
           /\ res \notin got[r]
           /\ \A k \in 1..Len(Now(r).list) :
                n[r] < k => res # <<Now(r).group, Now(r).list[k]>>
  PROVE  Seeks(r, res)'
<1>1. PICK i \in DOMAIN code[r] :
        /\ code[r][i].do = "remove" /\ res \in Sought(code[r][i])
        /\ i = 1 => \/ res \in got[r]
                    \/ \E k \in 1..Len(code[r][1].list) :
                         n[r] < k /\ res = <<code[r][1].group, code[r][1].list[k]>>
  BY DEF Seeks
<1>2. Now(r) = code[r][1]
  BY ProgramOf DEF IInv
<1>3. i # 1
  BY <1>1, <1>2
<1>4. i - 1 \in DOMAIN code'[r] /\ code'[r][i - 1] = code[r][i]
  BY <1>3, ProgramOf DEF IInv
<1>5. code'[r][i - 1] \in Having(code'[r], "remove")
  BY <1>1, <1>4 DEF Having, Steps
<1>6. res \in Removed(code'[r])
  BY <1>1, <1>4, <1>5 DEF Removed
<1> QED
  BY <1>6, SeeksFromTheStart

(* What a goroutine of DoDeprovision does.                                 *)
LEMMA UndoerDoes ==
  ASSUME IInv, NEW r \in {"client", "self"}, Step(r)
  PROVE  \/ LookUp(r) \/ DestroyFound(r)
         \/ /\ DeleteVolumes(r) \/ StopVolumeJob(r) \/ StopTheJob(r)
            /\ Now(r).do # "remove" /\ UNCHANGED <<n, got>> /\ n[r] = 0
<1>1. r \in Routines
  BY DEF Routines
<1>2. code[r] # <<>>
  BY <1>1, StepMoves DEF IInv
<1>3. Now(r).do \in DeprovisionSteps
  BY <1>1, <1>2, ProgramOf DEF IInv, Repertoire
<1>4. CASE DeleteVolumes(r) \/ StopVolumeJob(r) \/ StopTheJob(r)
  <2>1. Now(r).do \notin {"remove", "post"} /\ UNCHANGED <<n, got>>
    BY <1>4 DEF DeleteVolumes, StopVolumeJob, StopTheJob, Doing
  <2>2. n[r] = 0
    BY <1>1, <2>1 DEF IInv, Counted, TypeOK, Doing
  <2> QED
    BY <1>4, <2>1, <2>2
<1>5. ~Save(r) /\ ~Send(r) /\ ~PostNext(r) /\ ~UndoChain(r) /\ ~Kdelete(r) /\ ~Look(r)
      /\ ~AskForVolumes(r) /\ ~VolumesAnswered(r)
  BY <1>3 DEF DeprovisionSteps, Doing, Save, Send, PostNext, UndoChain, Kdelete, Look,
              AskForVolumes, VolumesAnswered
<1>6. ~Start(r) /\ ~WaitForPods(r) /\ ~LookAtCancelled(r) /\ ~WaitInited(r) /\ ~FollowWatch(r)
      /\ ~StartHelper(r) /\ ~CreateTheUser(r) /\ ~DropTheUser(r) /\ ~DeprovisionSelf(r)
  BY <1>3 DEF DeprovisionSteps, Doing, Start, WaitForPods, LookAtCancelled, WaitInited,
              FollowWatch, StartHelper, CreateTheUser, DropTheUser, DeprovisionSelf
<1> QED
  BY <1>4, <1>5, <1>6 DEF Step

(* It deletes what it seeks: as long as no deletion fails, it goes on      *)
(* seeking what is still there.                                            *)
LEMMA SeekingGoesOn ==
  ASSUME IInv, NEW r \in {"client", "self"}, Step(r), env.faults # "any", ~Blank,
         NEW res, res \in made', res \notin draining', Seeks(r, res)
  PROVE  Seeks(r, res)'
<1>1. r \in Routines /\ DOMAIN code = Routines
      /\ n \in [Routines -> Nat] /\ got \in [Routines -> SUBSET Resources]
  BY DEF Routines, IInv, TypeOK
<1>2. code[r] # <<>>
  BY <1>1, StepMoves DEF IInv
<1>3. Now(r) = code[r][1] /\ 1 \in DOMAIN code[r]
  BY <1>1, <1>2, ProgramOf DEF IInv
<1>4. \A kinds : kinds = {"any"} => ~ACallFails(kinds)
  BY DEF ACallFails
<1>5. CASE LookUp(r)
  <2> DEFINE next == <<Now(r).group, Now(r).list[n[r] + 1]>>
  <2>1. /\ made' = made /\ code' = code /\ n' = [n EXCEPT ![r] = @ + 1]
        /\ got' = [got EXCEPT ![r] = IF Found(next) THEN @ \cup {next} ELSE @]
    BY <1>4, <1>5 DEF LookUp, clusterVars
  <2>2. res = next => Found(next)
    BY <2>1 DEF Found
  <2> HIDE DEF next
  <2>3. /\ code'[r] = code[r] /\ n'[r] = n[r] + 1
        /\ got[r] \subseteq got'[r] /\ (res = next => res \in got'[r])
    BY <1>1, <2>1, <2>2
  <2>4. \A k \in 1..Len(Now(r).list) :
          n[r] < k /\ res = <<Now(r).group, Now(r).list[k]>> => res \in got'[r] \/ n'[r] < k
    <3> SUFFICES ASSUME NEW k \in 1..Len(Now(r).list), n[r] < k, ~(n'[r] < k),
                        res = <<Now(r).group, Now(r).list[k]>>
                 PROVE  res \in got'[r]
      OBVIOUS
    <3>1. k = n[r] + 1
      BY <1>1, <2>3
    <3> QED
      BY <2>3, <3>1 DEF next
  <2>5. PICK i \in DOMAIN code[r] :
          /\ code[r][i].do = "remove" /\ res \in Sought(code[r][i])
          /\ i = 1 => \/ res \in got[r]
                      \/ \E k \in 1..Len(code[r][1].list) :
                           n[r] < k /\ res = <<code[r][1].group, code[r][1].list[k]>>
    BY DEF Seeks
  <2>6. i = 1 => \/ res \in got'[r]
                 \/ \E k \in 1..Len(code'[r][1].list) :
                      n'[r] < k /\ res = <<code'[r][1].group, code'[r][1].list[k]>>
    BY <1>3, <2>3, <2>4, <2>5
  <2> QED
    BY <2>3, <2>5, <2>6 DEF Seeks
<1>6. CASE DestroyFound(r)
  <2> DEFINE set == got[r] \cap made \cap Of(Now(r).group, Now(r).fields)
  <2>1. /\ n[r] = Len(Now(r).list) /\ n'[r] = 0 /\ code'[r] = Tail(code[r])
        /\ Delete(set)
    BY <1>1, <1>4, <1>6 DEF DestroyFound, Continue, DeleteAll
  <2>2. res \in made /\ res \notin set
    BY <2>1, DeletionTakes
  <2> HIDE DEF set
  <2>3. ASSUME res \in Sought(Now(r))
        PROVE  res \notin got[r]
    <3>1. res \in Of(Now(r).group, Now(r).fields)
      BY <2>3 DEF Sought, All, Of
    <3> QED
      BY <2>2, <3>1 DEF set
  <2>4. \A k \in 1..Len(Now(r).list) : ~(n[r] < k)
    BY <1>1, <2>1
  <2> QED
    BY <1>1, <1>2, <2>1, <2>3, <2>4, SeeksInTheRest
<1>7. CASE /\ DeleteVolumes(r) \/ StopVolumeJob(r) \/ StopTheJob(r)
           /\ Now(r).do # "remove" /\ UNCHANGED <<n, got>> /\ n[r] = 0
  <2>1. code'[r] = code[r] \/ code'[r] = Tail(code[r])
    BY <1>1, <1>7 DEF DeleteVolumes, StopVolumeJob, StopTheJob, Continue
  <2>2. CASE code'[r] = code[r]
    BY <1>7, <2>2 DEF Seeks
  <2>3. CASE code'[r] = Tail(code[r])
    BY <1>1, <1>2, <1>7, <2>3, SeeksInTheRest
  <2> QED
    BY <2>1, <2>2, <2>3
<1> QED
  BY <1>5, <1>6, <1>7, UndoerDoes

LEMMA FreeingGoesOn ==
  ASSUME IInv, NEW r \in {"client", "self"}, Step(r), env.faults # "any",
         NEW l \in Lots, Frees(r, l), claims'[l] = "there" \/ Now(r).do # "delete volumes"
  PROVE  Frees(r, l)'
<1>1. r \in Routines /\ DOMAIN code = Routines
      /\ claims \in [Lots -> {"none", "there", "gone"}]
  BY DEF Routines, IInv, TypeOK
<1>2. code[r] # <<>>
  BY <1>1, StepMoves DEF IInv
<1>3. Steps(code[r]) = {Now(r)} \cup Steps(Tail(code[r]))
  BY <1>1, <1>2, ProgramOf DEF IInv
<1>4. PICK step \in Steps(code[r]) : step.do = "delete volumes" /\ step.lot = l
  BY DEF Frees, LotsOf, Having
<1>5. CASE LookUp(r)
  BY <1>5 DEF LookUp, Frees
<1>6. CASE DestroyFound(r) \/ StopVolumeJob(r) \/ StopTheJob(r)
  <2>1. code'[r] = code[r] \/ code'[r] = Tail(code[r])
    BY <1>1, <1>6 DEF DestroyFound, StopVolumeJob, StopTheJob, Continue
  <2>2. Now(r).do # "delete volumes"
    BY <1>6 DEF DestroyFound, StopVolumeJob, StopTheJob, Doing
  <2>3. step \in Steps(code'[r])
    BY <1>3, <1>4, <2>1, <2>2
  <2> QED
    BY <1>4, <2>3 DEF Frees, LotsOf, Having
<1>7. CASE DeleteVolumes(r)
  <2>1. /\ claims' = [claims EXCEPT ![Now(r).lot] = IF @ = "there" THEN "gone" ELSE @]
        /\ code'[r] = Tail(code[r])
    BY <1>1, <1>7 DEF DeleteVolumes, ACallFails, Continue
  <2>2. Now(r).lot # l
    <3>1. claims'[l] = "there"
      BY <1>7 DEF DeleteVolumes, Doing
    <3> QED
      BY <1>1, <2>1, <3>1
  <2>3. step \in Steps(code'[r])
    BY <1>3, <1>4, <2>1, <2>2
  <2> QED
    BY <1>4, <2>3 DEF Frees, LotsOf, Having
<1> QED
  BY <1>5, <1>6, <1>7, UndoerDoes

(* The others leave a goroutine alone.                                     *)
LEMMA StaysAlone ==
  ASSUME IInv, [Next]_vars, NEW x \in Routines, ~Step(x), ~Crash
  PROVE  n'[x] = n[x] /\ got'[x] = got[x]
<1>1. ASSUME NEW r \in Routines, Step(r)
      PROVE  n'[x] = n[x] /\ got'[x] = got[x]
  BY <1>1, StepCounts
<1> QED
  BY <1>1, NextMoves DEF IInv, ClientDeprovisions, vars, lifeVars, programVars

-----------------------------------------------------------------------------
(* Who leads on to more of the instance.                                   *)
Late == env.service \notin Unnamed \cup EarlyWord
Leads(r) == \E step \in Steps(code[r]) : step.do \in Bringing

(* How the goroutines of a service cease to lead.                          *)
End(r) ==
  CASE r = "provisioner" -> EndOf(Handler)
    [] r = "job" -> GoOf(Handler)
    [] OTHER -> LastPost(Handler)

(* One goroutine leads, with a certain last step, and until it is done the *)
(* final resource is not posted.                                           *)
Ordered ==
  Late =>
    /\ \A r \in Routines : Leads(r) => EndsIn(code[r], End(r)) /\ Final(Handler) \notin made
    /\ \A r, q \in Routines : Leads(r) /\ Leads(q) => r = q
    /\ \A r \in Routines : \A post \in Having(code[r], "post") \ {End(r)} :
         Final(Handler) \notin All(post.group, post.chain)

(* Who undoes does nothing else, and the provisioner posts what is in      *)
(* DoProvision.                                                            *)
Undoing(r) == \E step \in Steps(code[r]) : step.do \in UndoSteps
Pure ==
  /\ \A r \in {"provisioner", "job"} :
       Undoing(r) => \A step \in Steps(code[r]) : step.do \in UndoSteps
  /\ Having(code["provisioner"], "post") \subseteq Having(Handler.DoProvision, "post")

(* The user is created when everything is posted.                          *)
HasUser ==
  Late /\ Final(Handler) = <<"HA", "service">> /\ "instance" \in users
    => \A r \in Routines : ~Leads(r)

(* The pods come up when everything is posted.                             *)
PodsLate ==
  Late /\ env.service \in RcsFirst /\ Leads("provisioner") =>
    /\ (\E res \in made : Kind(res) \in {Rc, Dc}) => Now("provisioner") = EndOf(Handler)
    /\ env.lag /\ record # "gone" => running = {} /\ draining = {}

OInv == Ordered /\ Pure /\ HasUser /\ PodsLate

LEMMA UndoersDoNotLead ==
  /\ Bringing \cap (UndoSteps \cup DeprovisionSteps) = {}
  /\ ProvisionSteps \subseteq Bringing
  /\ {"post", "go", "start job", "volumes"} \subseteq Bringing
BY DEF Bringing, UndoSteps, DeprovisionSteps, ProvisionSteps

(* Who is about to lead on leads.                                          *)
LEMMA DoingLeads ==
  ASSUME IInv, NEW r \in Routines, NEW what \in Bringing, Doing(r, what)
  PROVE  Leads(r) /\ r \in {"provisioner", "job", "helper", "helper2"}
<1>1. Now(r) \in Steps(code[r]) /\ Now(r).do \in Repertoire(r) /\ Now(r).do = what
  BY ProgramOf DEF IInv, Doing
<1> QED
  BY <1>1, UndoersDoNotLead DEF Leads, Repertoire, Routines

LEMMA EndsInTheRest ==
  ASSUME IInv, NEW r \in Routines, code[r] # <<>>, NEW last, EndsIn(code[r], last)
  PROVE  /\ EndsIn(Tail(code[r]), last)
         /\ Now(r) = last => \A step \in Steps(Tail(code[r])) : step.do \notin Bringing
<1> DEFINE p == code[r]
<1>1. /\ p[1] = Now(r) /\ 1 \in DOMAIN p
      /\ \A i \in DOMAIN p : i \in Nat /\ i >= 1
      /\ \A i \in DOMAIN Tail(p) : i \in Nat /\ i >= 1 /\ i + 1 \in DOMAIN p /\ Tail(p)[i] = p[i + 1]
      /\ \A i \in DOMAIN p : i # 1 => i - 1 \in DOMAIN Tail(p) /\ p[i] = Tail(p)[i - 1]
  BY ProgramOf DEF IInv
<1>2. /\ \A i \in DOMAIN p : p[i].do \in Bringing => \E j \in DOMAIN p : i <= j /\ p[j] = last
      /\ \A i, j \in DOMAIN p : p[i] = last /\ i < j => p[j].do \notin Bringing
  BY DEF EndsIn
<1> HIDE DEF p
<1>3. ASSUME NEW i \in DOMAIN Tail(p), Tail(p)[i].do \in Bringing
      PROVE  \E j \in DOMAIN Tail(p) : i <= j /\ Tail(p)[j] = last
  <2>1. PICK j \in DOMAIN p : i + 1 <= j /\ p[j] = last
    BY <1>1, <1>2, <1>3
  <2>2. j # 1 /\ i <= j - 1
    BY <1>1, <2>1
  <2> QED
    BY <1>1, <2>1, <2>2
<1>4. ASSUME NEW i \in DOMAIN Tail(p), NEW j \in DOMAIN Tail(p), Tail(p)[i] = last, i < j
      PROVE  Tail(p)[j].do \notin Bringing
  <2>1. i + 1 \in DOMAIN p /\ j + 1 \in DOMAIN p /\ p[i + 1] = last /\ i + 1 < j + 1
    BY <1>1, <1>4
  <2> QED
    BY <1>1, <1>2, <2>1
<1>5. ASSUME Now(r) = last, NEW j \in DOMAIN Tail(p)
      PROVE  Tail(p)[j].do \notin Bringing
  <2>1. j + 1 \in DOMAIN p /\ 1 < j + 1
    BY <1>1
  <2> QED
    BY <1>1, <1>2, <1>5, <2>1
<1> QED
  BY <1>3, <1>4, <1>5 DEF EndsIn, Steps, p

(* Who leads after a step led before, or was started by who did.           *)
LEMMA LeadsTurn ==
  ASSUME IInv, [Next]_vars, NEW x \in Routines, Leads(x)'
  PROVE  /\ ~Crash
         /\ \/ Leads(x) /\ code[x] # <<>> /\ code'[x] \in {code[x], Tail(code[x])}
            \/ /\ x = "job" /\ Start("provisioner") /\ Leads("provisioner")
               /\ code[x] = <<>> /\ code'[x] = Handler.run
            \/ /\ x \in {"helper", "helper2"} /\ StartHelper("job") /\ Leads("job")
               /\ Now("job").helper = x /\ code[x] = <<>> /\ code'[x] = Now("job").program
<1>1. PICK step \in Steps(code'[x]) : step.do \in Bringing
  BY DEF Leads
<1>2. step.do \notin UndoSteps /\ step.do \notin DeprovisionSteps
  BY <1>1, UndoersDoNotLead
<1>3. code'[x] # <<>>
  BY <1>1, NothingBrings
<1>4. ~Crash
  BY <1>3 DEF Crash
<1>5. CASE code'[x] = code[x]
  BY <1>1, <1>3, <1>4, <1>5 DEF Leads
<1>6. CASE code[x] # <<>> /\ Step(x) /\ Follows(x, code'[x])
  <2>1. CASE Now(x).do \in Branching /\ code'[x] = Now(x).else
    <3>1. Now(x) \in Steps(code[x])
      BY <1>6, ProgramOf DEF IInv
    <3>2. Straight(Handler.load, UndoSteps, code'[x])
      BY <2>1, <3>1 DEF IInv, Programmed, WellFormed
    <3> QED
      BY <1>1, <1>2, <3>2, StepsAreOfKind
  <2>2. CASE code'[x] \in {code[x], Tail(code[x])}
    <3>1. Steps(code'[x]) \subseteq Steps(code[x])
      BY <1>6, <2>2, ProgramOf DEF IInv
    <3> QED
      BY <1>1, <1>4, <1>6, <2>2, <3>1 DEF Leads
  <2> QED
    BY <1>3, <1>6, <2>1, <2>2 DEF Follows
<1>7. CASE code'[x] = Handler.DoDeprovision
  BY <1>1, <1>2, <1>7, DoDeprovisionUndoes
<1>8. Start("provisioner") => Leads("provisioner")
  BY DoingLeads, UndoersDoNotLead DEF Start, Routines
<1>9. StartHelper("job") => Leads("job")
  BY DoingLeads, UndoersDoNotLead DEF StartHelper, Routines
<1> QED
  BY <1>4, <1>5, <1>6, <1>7, <1>8, <1>9, CodeTurns DEF Turns

LEMMA NobodyLeadsAgain ==
  ASSUME IInv, [Next]_vars, \A r \in Routines : ~Leads(r)
  PROVE  \A r \in Routines : ~Leads(r)'
<1>1. "provisioner" \in Routines /\ "job" \in Routines
  BY DEF Routines
<1> QED
  BY <1>1, LeadsTurn

(* The last post of a leader is the last post of all.                      *)
LEMMA LastPostIsLast ==
  ASSUME IInv, JobOnly, Late, NEW r \in Routines, Doing(r, "post"), Now(r) = End(r)
  PROVE  Now(r) = LastPost(Handler)
<1>1. r \in {"provisioner", "job", "helper", "helper2"}
  BY DoingLeads, UndoersDoNotLead
<1>2. IsOrderly(Handler)
  BY TheTables DEF IInv, Late
<1>3. r # "job"
  <2> SUFFICES ASSUME r = "job"
               PROVE  FALSE
    OBVIOUS
  <2>1. Handler.run # <<>>
    BY DEF JobOnly, Doing, Posters
  <2>2. GoOf(Handler).do = "go"
    BY <1>2, <2>1 DEF IsOrderly, Having
  <2> QED
    BY <2>2 DEF Doing, End
<1>4. CASE r = "provisioner"
  BY <1>2, <1>4 DEF IsOrderly, Doing, End, LastPost
<1> QED
  BY <1>1, <1>3, <1>4 DEF End

(* What the start of a helper hands over.                                  *)
LEMMA HelperEnds ==
  ASSUME IInv, JobOnly, Ordered, Late, StartHelper("job")
  PROVE  /\ Now("job") = GoOf(Handler) /\ code'["job"] = Tail(code["job"])
         /\ \A step \in Steps(code'["job"]) : step.do \notin Bringing
         /\ Steps(Now("job").program) = {LastPost(Handler)}
         /\ EndsIn(Now("job").program, LastPost(Handler))
<1>1. "job" \in Routines /\ code["job"] # <<>> /\ Leads("job")
  BY DoingLeads, UndoersDoNotLead DEF StartHelper, Doing, Routines
<1>2. Handler.run # <<>> /\ IsOrderly(Handler)
  BY <1>1, TheTables DEF JobOnly, Posters, IInv, Late
<1>3. Now("job") = GoOf(Handler) /\ Len(GoOf(Handler).program) = 1
      /\ LastPost(Handler) = GoOf(Handler).program[1]
  BY <1>2, HelperOfTheRun DEF IsOrderly, LastPost
<1>4. EndsIn(code["job"], GoOf(Handler))
  BY <1>1 DEF Ordered, End
<1>5. code'["job"] = Tail(code["job"]) /\ DOMAIN code = Routines
  <2>1. code' = [code EXCEPT !["job"] = Tail(@), ![Now("job").helper] = Now("job").program]
    BY DEF StartHelper
  <2>2. Now("job").helper \in {"helper", "helper2"}
    BY <1>1, ProgramOf DEF IInv, Programmed, WellFormed, StartHelper, Doing
  <2> QED
    BY <1>1, <2>1, <2>2 DEF IInv, TypeOK
<1>6. Straight(Handler.load, {"post"}, Now("job").program)
  BY <1>1, ProgramOf DEF IInv, Programmed, WellFormed, StartHelper, Doing
<1>7. DOMAIN Now("job").program = {1}
  <2>1. DOMAIN Now("job").program = 1..Len(Now("job").program)
    BY <1>6, StraightIsSeq
  <2> QED
    BY <1>3, <2>1
<1>8. /\ Steps(Now("job").program) = {LastPost(Handler)}
      /\ EndsIn(Now("job").program, LastPost(Handler))
  BY <1>3, <1>7 DEF Steps, EndsIn
<1> QED
  BY <1>1, <1>3, <1>4, <1>5, <1>8, EndsInTheRest

LEMMA OrderedStep ==
  ASSUME IInv, Known, Ordered, [Next]_vars
  PROVE  Ordered'
<1>1. env' = env /\ Handler' = Handler
  BY RecordMoves
<1> SUFFICES ASSUME Late
             PROVE  Ordered'
  BY <1>1 DEF Ordered, Late
<1>2. /\ \A r \in Routines : Leads(r) => EndsIn(code[r], End(r)) /\ Final(Handler) \notin made
      /\ \A r, q \in Routines : Leads(r) /\ Leads(q) => r = q
      /\ \A r \in Routines : \A post \in Having(code[r], "post") \ {End(r)} :
           Final(Handler) \notin All(post.group, post.chain)
  BY DEF Ordered
<1>3. IsOrderly(Handler) /\ \A r : End(r)' = End(r)
  BY <1>1, TheTables DEF IInv, Late, End
<1>4. /\ {"provisioner", "job", "helper", "helper2", "client", "self"} = Routines
      /\ DOMAIN code = Routines /\ JobOnly
  BY DEF Routines, IInv, TypeOK, Known
<1>5. ASSUME NEW r \in Routines, NEW post \in Having(code'[r], "post") \ {End(r)}
      PROVE  Final(Handler) \notin All(post.group, post.chain)
  <2>1. post.do = "post" /\ post \in Steps(code'[r]) /\ post # End(r)
    BY <1>5 DEF Having
  <2>2. CASE post \in Steps(code[r])
    BY <1>2, <2>1, <2>2 DEF Having
  <2>3. CASE r = "job" /\ code'[r] = Handler.run
    <3>1. Handler.run # <<>>
      BY <2>1, <2>3, NothingBrings
    <3> QED
      BY <1>3, <2>1, <2>3, <3>1 DEF IsOrderly, Having
  <2>4. CASE r \in {"helper", "helper2"} /\ StartHelper("job") /\ code'[r] = Now("job").program
    <3>1. post = LastPost(Handler) /\ End(r) = LastPost(Handler)
      BY <1>4, <2>1, <2>4, HelperEnds DEF End
    <3> QED
      BY <2>1, <3>1
  <2>5. CASE post.do \in UndoSteps \/ code'[r] = Handler.DoDeprovision
    BY <2>1, <2>5, DoDeprovisionUndoes DEF UndoSteps, DeprovisionSteps
  <2> QED
    BY <2>1, <2>2, <2>3, <2>4, <2>5, StepsTurn
<1>6. ASSUME NEW r \in Routines, Leads(r)'
      PROVE  EndsIn(code'[r], End(r))
  <2>1. CASE Leads(r) /\ code[r] # <<>> /\ code'[r] \in {code[r], Tail(code[r])}
    BY <1>2, <2>1, EndsInTheRest
  <2>2. CASE r = "job" /\ code'[r] = Handler.run
    <3>1. Handler.run # <<>>
      BY <1>6, <2>2, NothingBrings DEF Leads
    <3> QED
      BY <1>3, <2>2, <3>1 DEF IsOrderly, End
  <2>3. CASE r \in {"helper", "helper2"} /\ StartHelper("job") /\ code'[r] = Now("job").program
    BY <1>4, <2>3, HelperEnds DEF End
  <2> QED
    BY <1>6, <2>1, <2>2, <2>3, LeadsTurn
<1>7. ASSUME NEW r \in Routines, Leads(r)', NEW q \in Routines, Leads(q)'
      PROVE  r = q
  <2>1. ASSUME Start("provisioner"), Leads("provisioner")'
        PROVE  FALSE
    <3>1. code["provisioner"] # <<>> /\ Now("provisioner").do = "start job"
      BY <2>1 DEF Start, Doing
    <3>2. Now("provisioner") = code["provisioner"][1] /\ 1 \in DOMAIN code["provisioner"]
      BY <1>4, <3>1, ProgramOf DEF IInv
    <3>3. Straight(Handler.load, Repertoire("provisioner"), code["provisioner"])
      BY <1>4 DEF IInv, Programmed, WellFormed
    <3>4. Len(code["provisioner"]) = 1
      BY <3>1, <3>2, <3>3 DEF Straight
    <3>5. Tail(code["provisioner"]) = <<>>
      BY <3>1, <3>3, <3>4, RestIsStraight
    <3>6. code'["provisioner"] = <<>>
      BY <1>4, <2>1, <3>5 DEF Start
    <3> QED
      BY <2>1, <3>6, NothingBrings DEF Leads
  <2>2. ASSUME StartHelper("job"), Leads("job")'
        PROVE  FALSE
    BY <1>4, <2>2, HelperEnds DEF Leads
  <2>3. Start("provisioner") => ~StartHelper("job") /\ Leads("provisioner")
    BY <1>4, DoingLeads, UndoersDoNotLead DEF Start, StartHelper, Doing, IInv, Succession
  <2>4. StartHelper("job") => Leads("job")
    BY <1>4, DoingLeads, UndoersDoNotLead DEF StartHelper
  <2>5. ASSUME NEW x \in Routines, Leads(x)'
        PROVE  \/ Leads(x) /\ ~Start("provisioner") /\ ~StartHelper("job")
               \/ x = "job" /\ Start("provisioner")
               \/ StartHelper("job") /\ x = Now("job").helper
    <3>1. Leads(x) /\ Start("provisioner") => x = "provisioner"
      BY <1>2, <1>4, <2>3
    <3>2. Leads(x) /\ StartHelper("job") => x = "job"
      BY <1>2, <1>4, <2>4
    <3> QED
      BY <2>1, <2>2, <2>5, <3>1, <3>2, LeadsTurn
  <2> QED
    BY <1>2, <1>7, <2>3, <2>5
<1>8. ASSUME NEW r \in Routines, Leads(r)'
      PROVE  Final(Handler) \notin made'
  <2>1. Final(Handler) \notin made /\ ~Crash
    BY <1>2, <1>4, <1>8, LeadsTurn
  <2>2. ASSUME NEW q \in Routines, PostNext(q)
        PROVE  Final(Handler) \notin made'
    <3>1. Doing(q, "post") /\ (made' = made \/ made' = made \cup {Posted(q)})
      BY <2>2 DEF PostNext, Posted
    <3>2. Leads(q) /\ q \in {"provisioner", "job", "helper", "helper2"}
      BY <3>1, DoingLeads, UndoersDoNotLead
    <3>3. code[q] # <<>> /\ ~Start("provisioner") /\ ~StartHelper("job")
      <4>1. CASE Start("provisioner")
        <5>1. Doing("provisioner", "start job")
          BY <4>1 DEF Start
        <5>2. q = "provisioner"
          BY <1>2, <1>4, <3>2, <5>1, DoingLeads, UndoersDoNotLead
        <5> QED
          BY <3>1, <5>1, <5>2 DEF Doing
      <4>2. CASE StartHelper("job")
        <5>1. Doing("job", "go")
          BY <4>2 DEF StartHelper
        <5>2. q = "job"
          BY <1>2, <1>4, <3>2, <5>1, DoingLeads, UndoersDoNotLead
        <5> QED
          BY <3>1, <5>1, <5>2 DEF Doing
      <4> QED
        BY <3>1, <4>1, <4>2 DEF Doing
    <3>4. r = q /\ code'[q] \in {code[q], Tail(code[q])}
      BY <1>2, <1>8, <3>2, <3>3, LeadsTurn
    <3>5. CASE Now(q) # End(q)
      <4>1. Final(Handler) \notin All(Now(q).group, Now(q).chain)
        BY <1>2, <3>1, <3>5, PostedIsBrought
      <4> QED
        BY <2>1, <3>1, <4>1, PostedIsBrought
    <3>6. CASE Now(q) = End(q)
      <4>1. Now(q) = LastPost(Handler)
        BY <1>4, <3>1, <3>6, LastPostIsLast
      <4>2. \A step \in Steps(Tail(code[q])) : step.do \notin Bringing
        BY <1>2, <3>2, <3>3, <3>6, EndsInTheRest
      <4>3. code'[q] # Tail(code[q])
        BY <1>8, <3>4, <4>2 DEF Leads
      <4>4. code'[q] = code[q]
        BY <3>4, <4>3
      <4>5. Leads(q)' /\ code' # [code EXCEPT ![q] = Tail(@)]
        BY <1>4, <1>8, <3>4, <4>3
      <4>6. CASE made' = made
        BY <2>1, <4>6
      <4>7. CASE n[q] + 1 # Len(Now(q).chain)
        <5>1. n[q] + 1 \in 1..(Len(Now(q).chain) - 1)
          <6>1. n[q] + 1 \in 1..Len(Now(q).chain) /\ Len(Now(q).chain) \in Nat /\ n[q] \in Nat
            BY <3>1, PostedIsBrought
          <6> QED
            BY <4>7, <6>1
        <5>2. Now(q).chain[n[q] + 1] # LastOf(Now(q).chain)
          BY <1>3, <4>1, <5>1 DEF IsOrderly
        <5>3. Posted(q) # Final(Handler)
          BY <4>1, <5>2 DEF Posted, Final
        <5> QED
          BY <2>1, <3>1, <5>3
      <4>8. CASE n[q] + 1 = Len(Now(q).chain) /\ made' # made
        <5>1. code' = [code EXCEPT ![q] = Now(q).else]
          BY <2>2, <4>5, <4>8 DEF PostNext, Continue, Instead
        <5>2. code'[q] = Now(q).else
          BY <1>4, <5>1
        <5>3. Straight(Handler.load, UndoSteps, Now(q).else)
          BY <1>4, <3>1, <3>3, ProgramOf DEF IInv, Programmed, WellFormed, Doing, Branching
        <5>4. \A step \in Steps(code'[q]) : step.do \in UndoSteps
          BY <5>2, <5>3, StepsAreOfKind
        <5> QED
          BY <4>5, <5>4, UndoersDoNotLead DEF Leads
      <4> QED
        BY <4>6, <4>7, <4>8
    <3> QED
      BY <3>5, <3>6
  <2>3. ASSUME NEW q \in Routines, Deletes(q)
        PROVE  Final(Handler) \notin made'
    BY <2>1, <2>3, DeletionsTake
  <2>4. CASE DeleteRCs
    BY <2>1, <2>4 DEF DeleteRCs
  <2> QED
    BY <2>1, <2>2, <2>3, <2>4, ClusterMoves
<1> QED
  BY <1>1, <1>3, <1>5, <1>6, <1>7, <1>8 DEF Ordered

LEMMA PureStep ==
  ASSUME IInv, Pure, [Next]_vars
  PROVE  Pure'
<1>1. Handler' = Handler
  BY RecordMoves
<1>2. \A r \in {"provisioner", "job"} : r \in Routines
  BY DEF Routines
<1>3. ASSUME NEW r \in {"provisioner", "job"}, Undoing(r)', NEW step \in Steps(code'[r])
      PROVE  step.do \in UndoSteps
  <2>1. CASE code[r] # <<>> /\ Follows(r, code'[r])
    <3>1. CASE code'[r] \in {code[r], Tail(code[r]), <<>>}
      <4>1. Steps(code'[r]) \subseteq Steps(code[r])
        BY <1>2, <2>1, <3>1, ProgramOf, NothingBrings DEF IInv
      <4> QED
        BY <1>3, <4>1 DEF Pure, Undoing
    <3>2. CASE Now(r).do \in Branching /\ code'[r] = Now(r).else
      <4>1. Straight(Handler.load, UndoSteps, code'[r])
        BY <1>2, <2>1, <3>2, ProgramOf DEF IInv, Programmed, WellFormed
      <4> QED
        BY <1>3, <4>1, StepsAreOfKind
    <3> QED
      BY <2>1, <3>1, <3>2 DEF Follows
  <2>2. CASE r = "job" /\ code'[r] = Handler.run
    <3>1. \A s \in Steps(code'[r]) : s.do \in RunSteps
      BY <2>2, HandlerIsHandler, StepsAreOfKind DEF IInv, IsHandler, WellFormed
    <3> QED
      BY <1>3, <3>1 DEF Undoing, UndoSteps, RunSteps
  <2>3. CASE code'[r] = code[r]
    BY <1>3, <2>3 DEF Pure, Undoing
  <2>4. CASE Crash /\ code'[r] = <<>>
    BY <1>3, <2>4, NothingBrings
  <2> QED
    BY <1>2, <2>1, <2>2, <2>3, <2>4, CodeTurns DEF Turns
<1>4. Having(code'["provisioner"], "post") \subseteq Having(code["provisioner"], "post")
  <2>1. \A step \in Steps(code'["provisioner"]) :
          step \in Steps(code["provisioner"]) \/ step.do \in UndoSteps
    BY <1>2, StepsTurn
  <2> QED
    BY <2>1 DEF Having, UndoSteps
<1> QED
  BY <1>1, <1>3, <1>4 DEF Pure

(* Only the job creates the user.                                          *)
LEMMA UsersMove ==
  ASSUME [Next]_vars
  PROVE  \/ users' \subseteq users
         \/ \E r \in Routines : CreateTheUser(r) /\ Reachable /\ made' = made
<1>1. ASSUME NEW r \in Routines, Step(r), ~CreateTheUser(r)
      PROVE  users' \subseteq users
  <2>1. CASE Save(r) \/ Send(r) \/ PostNext(r) \/ UndoChain(r) \/ Kdelete(r) \/ LookUp(r)
             \/ DestroyFound(r) \/ Look(r) \/ VolumesAnswered(r) \/ AskForVolumes(r)
    BY <2>1 DEF Save, Send, PostNext, UndoChain, Kdelete, LookUp, DestroyFound, Look,
       VolumesAnswered, AskForVolumes, clusterVars
  <2>2. CASE Start(r) \/ WaitForPods(r) \/ LookAtCancelled(r) \/ WaitInited(r) \/ FollowWatch(r)
             \/ StartHelper(r) \/ DropTheUser(r) \/ StopTheJob(r) \/ DeprovisionSelf(r)
             \/ StopVolumeJob(r) \/ DeleteVolumes(r)
    BY <2>2 DEF Start, WaitForPods, LookAtCancelled, WaitInited, FollowWatch, StartHelper,
       DropTheUser, StopTheJob, DeprovisionSelf, StopVolumeJob, DeleteVolumes, clusterVars
  <2> QED
    BY <1>1, <2>1, <2>2 DEF Step
<1>2. ASSUME NEW r \in Routines, CreateTheUser(r)
      PROVE  users' \subseteq users \/ (Reachable /\ made' = made)
  BY <1>2 DEF CreateTheUser
<1>3. CASE (\E l \in Lots : VolumeJob(l)) \/ (\E g \in DOMAIN Handler.load : PodsRun(g))
           \/ DeleteRCs \/ ClientDeprovisions \/ Crash \/ UNCHANGED vars
  <2>1. users' = users
    BY <1>3 DEF VolumeJob, PodsRun, DeleteRCs, ClientDeprovisions, Crash, vars, lifeVars,
       clusterVars
  <2> QED
    BY <2>1
<1> QED
  BY <1>1, <1>2, <1>3 DEF Next

LEMMA HasUserStep ==
  ASSUME IInv, Ordered, HasUser, [Next]_vars
  PROVE  HasUser'
<1>1. env' = env /\ Handler' = Handler
  BY RecordMoves
<1> SUFFICES ASSUME Late, Final(Handler) = <<"HA", "service">>, "instance" \in users'
             PROVE  \A r \in Routines : ~Leads(r)'
  BY <1>1 DEF HasUser, Late
<1>2. CASE "instance" \in users
  BY <1>2, NobodyLeadsAgain DEF HasUser
<1>3. CASE Reachable
  <2>1. Final(Handler) \in made
    BY <1>3 DEF Reachable
  <2> QED
    BY <2>1, NobodyLeadsAgain DEF Ordered
<1> QED
  BY <1>2, <1>3, UsersMove

(* Who changes what runs.                                                  *)
LEMMA RunningMoves ==
  ASSUME IInv, [Next]_vars
  PROVE  \/ running' = running
         \/ \E g \in DOMAIN Handler.load : PodsRun(g)
         \/ \E r \in Routines : Deletes(r)
         \/ Crash
<1>1. ASSUME NEW r \in Routines, Step(r), ~Deletes(r)
      PROVE  running' = running
  <2>1. CASE Save(r) \/ Send(r) \/ PostNext(r) \/ LookUp(r) \/ Look(r)
             \/ AskForVolumes(r) \/ VolumesAnswered(r) \/ DeleteVolumes(r)
    BY <2>1 DEF Save, Send, PostNext, LookUp, Look, AskForVolumes, VolumesAnswered,
       DeleteVolumes, clusterVars
  <2>2. CASE CreateTheUser(r) \/ DropTheUser(r)
    BY <2>2 DEF CreateTheUser, DropTheUser
  <2>3. CASE WaitForPods(r) \/ LookAtCancelled(r) \/ WaitInited(r) \/ FollowWatch(r)
             \/ StopVolumeJob(r) \/ StopTheJob(r) \/ HandsOver(r)
    BY <2>3 DEF WaitForPods, LookAtCancelled, WaitInited, FollowWatch, StopVolumeJob,
       StopTheJob, HandsOver, Start, StartHelper, DeprovisionSelf, clusterVars
  <2> QED
    BY <1>1, <2>1, <2>2, <2>3 DEF Step, HandsOver, Deletes
<1>2. CASE (\E l \in Lots : VolumeJob(l)) \/ ClientDeprovisions \/ DeleteRCs
  BY <1>2 DEF VolumeJob, ClientDeprovisions, DeleteRCs, clusterVars
<1> QED
  BY <1>1, <1>2 DEF Next, vars, lifeVars, clusterVars

LEMMA PodsLateStep ==
  ASSUME IInv, Known, OInv, [Next]_vars
  PROVE  PodsLate'
<1>1. env' = env /\ Handler' = Handler /\ \A res : Kind(res)' = Kind(res)
  BY RecordMoves DEF Kind
<1> SUFFICES ASSUME Late, env.service \in RcsFirst, Leads("provisioner")'
             PROVE  /\ (\E res \in made' : Kind(res) \in {Rc, Dc})
                         => Now("provisioner")' = EndOf(Handler)
                    /\ env.lag /\ record' # "gone" => running' = {} /\ draining' = {}
  BY <1>1 DEF PodsLate, Late
<1>2. /\ Leads("provisioner") /\ code["provisioner"] # <<>> /\ ~Crash
      /\ code'["provisioner"] \in {code["provisioner"], Tail(code["provisioner"])}
      /\ "provisioner" \in Routines
  <2>1. "provisioner" \in Routines
    BY DEF Routines
  <2> QED
    BY <2>1, LeadsTurn
<1>3. /\ (\E res \in made : Kind(res) \in {Rc, Dc}) => Now("provisioner") = EndOf(Handler)
      /\ env.lag /\ record # "gone" => running = {} /\ draining = {}
  BY <1>2 DEF OInv, PodsLate
<1>4. IsOrderly(Handler) /\ NeedsPods(Handler)
  BY TheTables DEF IInv, Late
<1>5. EndsIn(code["provisioner"], EndOf(Handler))
      /\ \A r \in Routines : Leads(r) => r = "provisioner"
  BY <1>2 DEF OInv, Ordered, End
<1>6. Now("provisioner") = EndOf(Handler) => Now("provisioner")' = EndOf(Handler)
  <2> SUFFICES ASSUME Now("provisioner") = EndOf(Handler)
               PROVE  code'["provisioner"] = code["provisioner"]
    BY <1>2 DEF Now
  <2>1. \A step \in Steps(Tail(code["provisioner"])) : step.do \notin Bringing
    BY <1>2, <1>5, EndsInTheRest
  <2> QED
    BY <1>2, <2>1 DEF Leads
<1>7. ASSUME NEW res \in made', Kind(res) \in {Rc, Dc}
      PROVE  Now("provisioner") = EndOf(Handler)
  <2>1. CASE res \in made
    BY <1>3, <1>7, <2>1
  <2>2. CASE res \notin made
    <3>1. PICK q \in Routines : PostNext(q)
      BY <1>2, <1>7, <2>2, ClusterMoves, DeletionsTake DEF DeleteRCs
    <3>2. Doing(q, "post") /\ res = Posted(q)
      BY <1>7, <2>2, <3>1 DEF PostNext, Posted
    <3>3. q = "provisioner"
      BY <1>5, <3>2, DoingLeads, UndoersDoNotLead
    <3>4. Now(q) \in Having(Handler.DoProvision, "post")
      BY <3>2, <3>3, PostedIsBrought DEF OInv, Pure
    <3>5. Now(q).chain[n[q] + 1] = res[2] /\ Now(q).group = res[1]
      BY <3>2 DEF Posted
    <3>6. Handler.load[Now(q).group][Now(q).chain[n[q] + 1]] \in {Rc, Dc}
      BY <1>7, <3>5 DEF Kind
    <3>7. n[q] + 1 \in 1..Len(Now(q).chain)
      BY <3>2, PostedIsBrought
    <3> QED
      BY <1>4, <3>3, <3>4, <3>6, <3>7 DEF NeedsPods
  <2> QED
    BY <2>1, <2>2
<1>8. ASSUME env.lag, record' # "gone"
      PROVE  running' = {} /\ draining' = {}
  <2>1. record # "gone"
    BY <1>8, RecordMoves
  <2>2. running = {} /\ draining = {}
    BY <1>3, <1>8, <2>1
  <2>3. ASSUME NEW r \in Routines, Deletes(r)
        PROVE  FALSE
    <3>1. code[r] # <<>> /\ Now(r).do \in {"undo", "kdel", "remove"}
      BY <2>3 DEF Deletes, UndoChain, Kdelete, DestroyFound, Doing
    <3>2. r = "provisioner"
      BY <1>2, <2>1, <3>1 DEF IInv, Succession, Routines
    <3>3. Now(r) \in Steps(code[r]) /\ Now(r).do \in UndoSteps
      BY <3>1, ProgramOf DEF IInv, UndoSteps
    <3>4. \A step \in Steps(code[r]) : step.do \in UndoSteps
      BY <3>2, <3>3 DEF OInv, Pure, Undoing
    <3> QED
      BY <1>2, <3>2, <3>4, UndoersDoNotLead DEF Leads
  <2>4. ASSUME NEW g \in DOMAIN Handler.load, PodsRun(g)
        PROVE  FALSE
    <3>1. PICK res \in made : Kind(res) \in {Rc, Dc}
      BY <2>4 DEF PodsRun
    <3>2. Now("provisioner") = EndOf(Handler) /\ ~Posting
      BY <1>3, <1>8, <2>4, <3>1 DEF PodsRun
    <3>3. EndOf(Handler).do = "post"
      BY <1>4 DEF IsOrderly, NeedsPods
    <3> QED
      BY <1>2, <3>2, <3>3 DEF Posting, Doing
  <2>5. running' = {}
    BY <1>2, <2>2, <2>3, <2>4, RunningMoves
  <2>6. draining' = {}
    <3>1. PostNext("provisioner") => draining' = draining
      BY DEF PostNext
    <3>2. \A r \in Routines : PostNext(r) => draining' = draining
      BY DEF PostNext
    <3>3. DeleteRCs => draining' = {}
      BY DEF DeleteRCs
    <3> QED
      BY <1>2, <2>2, <2>3, <3>2, <3>3, ClusterMoves
  <2> QED
    BY <2>5, <2>6
<1> QED
  BY <1>6, <1>7, <1>8

LEMMA OrderStep ==
  ASSUME IInv, Known, OInv, [Next]_vars
  PROVE  OInv'
BY OrderedStep, PureStep, HasUserStep, PodsLateStep DEF OInv

LEMMA InitOrder ==
  ASSUME Init
  PROVE  OInv
<1>1. /\ code["provisioner"] = Handler.DoProvision
      /\ \A r \in Routines \ {"provisioner"} : code[r] = <<>>
      /\ made = {} /\ running = {} /\ draining = {} /\ users = {"default"}
  BY DEF Init, Routines
<1>2. IInv
  BY InitInvariant
<1>3. \A r \in Routines : Leads(r) => r = "provisioner"
  BY <1>1, NothingBrings DEF Leads
<1>4. Ordered
  <2> SUFFICES ASSUME Late
               PROVE  Ordered
    BY DEF Ordered
  <2>1. IsOrderly(Handler)
    BY <1>2, TheTables DEF IInv, Late
  <2>2. \A r \in Routines \ {"provisioner"} : Having(code[r], "post") = {}
    BY <1>1, NothingBrings
  <2>3. \A post \in Having(code["provisioner"], "post") \ {End("provisioner")} :
          Final(Handler) \notin All(post.group, post.chain)
    BY <1>1, <2>1 DEF IsOrderly, End
  <2>4. EndsIn(code["provisioner"], End("provisioner"))
    BY <1>1, <2>1 DEF IsOrderly, End
  <2> QED
    BY <1>1, <1>3, <2>2, <2>3, <2>4 DEF Ordered
<1>5. Pure
  <2>1. \A step \in Steps(Handler.DoProvision) : step.do \in ProvisionSteps
    BY <1>2, HandlerIsHandler, StepsAreOfKind DEF IInv, IsHandler, WellFormed
  <2>2. ~Undoing("provisioner") /\ ~Undoing("job")
    BY <1>1, <2>1, NothingBrings DEF Undoing, ProvisionSteps, UndoSteps, Routines
  <2> QED
    BY <1>1, <2>2 DEF Pure
<1>6. HasUser
  BY <1>1 DEF HasUser
<1>7. PodsLate
  BY <1>1 DEF PodsLate
<1> QED
  BY <1>4, <1>5, <1>6, <1>7 DEF OInv

-----------------------------------------------------------------------------
(* The clients of CleanRemoval and of OrphansComeFromHelpers, and what is  *)
(* spared to the second.                                                   *)
Waits == env.client = "waits" /\ env.faults = "none" /\ env.service \notin Unnamed
Polls == env.client = "polls" /\ env.faults # "any" /\ VerdictIsLate
Spared(res) == Waits /\ res[1] \in Helped

(* Once the client has deprovisioned in time, nobody leads on but its job, *)
(* which it is going to stop, and the helpers of that.                     *)
InTime == record = "gone" /\ crashed # "removing" /\ (Waits \/ Polls)

Finished ==
  InTime =>
    /\ \A step \in Steps(code["provisioner"]) : step.do \in UndoSteps
    /\ Waits => code["provisioner"] = <<>>
    /\ code["job"] # <<>> => Waits /\ Having(code["client"], "stop job") # {}
    /\ Polls => code["helper"] = <<>> /\ code["helper2"] = <<>>
    /\ \A l \in Lots : ~Steady(l) => code["job"] # <<>>

(* Before it has stopped the job, it has all its removing ahead.           *)
WholeAhead ==
  InTime /\ Having(code["client"], "stop job") # {} =>
    /\ StopsFirst(code["client"])
    /\ \A res \in Everything(Handler) : Seeks("client", res)
    /\ \A l \in VolumesOf(Handler) : Frees("client", l)

(* It is going to find and to delete what there is.                        *)
Clearing ==
  InTime =>
    /\ \A res \in made \ draining : Spared(res) \/ Seeks("client", res)
    /\ \A l \in Lots : claims[l] = "there" => Frees("client", l)

RInv ==
  /\ IInv /\ Known /\ OInv
  /\ Uncrashed => Awaited
  /\ Finished /\ WholeAhead /\ Clearing

(* The client deprovisions in time only before a crash, or after it.       *)
LEMMA InTimeMoves ==
  ASSUME IInv, [Next]_vars, InTime'
  PROVE  /\ ~Crash /\ crashed' = crashed
         /\ InTime \/ (ClientDeprovisions /\ record = "yes" /\ (Waits \/ Polls))
         /\ (Waits <=> Waits') /\ (Polls <=> Polls')
<1>1. /\ env' = env
      /\ \/ record' = record
         \/ record = "yes" /\ record' = "gone" /\ ClientDeprovisions
      /\ crashed' = crashed \/ Crash
      /\ Crash => record' = record
  BY RecordMoves DEF InTime
<1>2. (Waits <=> Waits') /\ (Polls <=> Polls')
  BY <1>1 DEF Waits, Polls, VerdictIsLate
<1>3. ~Crash
  <2> SUFFICES ASSUME Crash
               PROVE  FALSE
    OBVIOUS
  <2>1. record = "gone"
    BY <1>1 DEF InTime
  <2>2. crashed' = "removing"
    BY <2>1 DEF Crash
  <2> QED
    BY <2>2 DEF InTime
<1> QED
  BY <1>1, <1>2, <1>3 DEF InTime

LEMMA NamedIsFound ==
  ASSUME IInv, IsNamed(Handler)
  PROVE  ~Blank
<1>1. IsHandler(Handler)
  BY HandlerIsHandler DEF IInv
<1>2. DOMAIN Handler.DoProvision = 1..Len(Handler.DoProvision)
  BY <1>1, StraightIsSeq DEF IsHandler, WellFormed
<1> SUFFICES ASSUME NEW i \in 1..Len(Handler.DoProvision), Handler.DoProvision[i] = SavedBlank
             PROVE  FALSE
  BY DEF Blank
<1>3. Handler.DoProvision[i] \in Having(Handler.DoProvision, "saved blank")
  <2>1. SavedBlank.do = "saved blank"
    BY DEF SavedBlank
  <2>2. SavedBlank \in Steps(Handler.DoProvision)
    BY <1>2 DEF Steps
  <2> QED
    BY <2>1, <2>2 DEF Having
<1> QED
  BY <1>3 DEF IsNamed

LEMMA NamesAreFound ==
  ASSUME IInv, env.service \notin Unnamed
  PROVE  ~Blank
BY NamedIsFound, TheTables DEF IInv

(* A verdict, as far as it is late, comes when everything is done, or will *)
(* be undone; so does the rest.                                            *)
LEMMA VerdictNeeds ==
  ASSUME IInv, LastOperation \in {"succeeded", "failed"}
  PROVE  LET verdict == Handler.DoLastOperation
         IN /\ verdict.lots \cap listed = {}
            /\ verdict.job => code["job"] = <<>>
            /\ verdict.must = {} =>
                 /\ LastOperation = "succeeded"
                 /\ \A res \in verdict.needs \cup verdict.ready : Found(res)
                 /\ verdict.pods => verdict.ready \subseteq running \cup draining
                 /\ verdict.user => "instance" \in users
BY DEF LastOperation, Up

LEMMA VerdictEndsLeading ==
  ASSUME IInv, Known, OInv, Late, record = "yes",
         LastOperation \in {"succeeded", "failed"},
         env.service \in RcsFirst => env.lag
  PROVE  /\ \A r \in Routines : ~Leads(r)
         /\ code["job"] = <<>>
         /\ \A l \in Lots : Steady(l)
<1> DEFINE verdict == Handler.DoLastOperation
<1>1. /\ WaitsForJobs(Handler) /\ IsOrderly(Handler)
      /\ env.service \in RcsFirst => NeedsPods(Handler)
      /\ env.service \notin RcsFirst => NeedsFinal(Handler)
  BY TheTables DEF IInv, Late
<1>2. /\ verdict.lots \cap listed = {}
      /\ verdict.job => code["job"] = <<>>
      /\ \A res \in verdict.needs \cup verdict.ready : Found(res)
      /\ verdict.pods => verdict.ready \subseteq running \cup draining
      /\ verdict.user => "instance" \in users
  BY <1>1, VerdictNeeds DEF WaitsForJobs
<1>3. code["job"] = <<>>
  BY <1>1, <1>2 DEF Known, JobOnly, WaitsForJobs, Posters
<1>4. ASSUME NEW l \in Lots
      PROVE  Steady(l)
  <2>1. jobs[l] # "none" => l \in verdict.lots
    BY <1>1, <1>4 DEF Known, VolumesOnly, WaitsForJobs
  <2> QED
    BY <1>2, <1>4, <2>1 DEF Known, VolumesOnly, Steady
<1>5. CASE env.service \notin RcsFirst
  <2>1. Final(Handler) \in made \/ (Final(Handler) = <<"HA", "service">> /\ "instance" \in users)
    BY <1>1, <1>2, <1>5 DEF NeedsFinal, Found
  <2> QED
    BY <1>3, <1>4, <2>1 DEF OInv, Ordered, HasUser
<1>6. CASE env.service \in RcsFirst
  <2>1. Handler.run = <<>> /\ running \cup draining # {}
    BY <1>1, <1>2, <1>6 DEF NeedsPods
  <2>2. ~Leads("provisioner")
    BY <1>6, <2>1 DEF OInv, PodsLate
  <2>3. \A r \in {"job", "helper", "helper2", "client"} : ~Leads(r)
    BY <2>1, NothingBrings DEF Known, JobOnly, Posters, IInv, Succession, Leads
  <2>4. ~Leads("self")
    <3>1. \A step \in Steps(code["self"]) : step.do \in DeprovisionSteps
      <4>1. Straight(Handler.load, Repertoire("self"), code["self"])
        BY DEF IInv, Programmed, WellFormed, Routines
      <4>2. Repertoire("self") = DeprovisionSteps
        BY DEF Repertoire
      <4> QED
        BY <4>1, <4>2, StepsAreOfKind
    <3> QED
      BY <3>1, UndoersDoNotLead DEF Leads
  <2> QED
    BY <1>3, <1>4, <2>2, <2>3, <2>4 DEF Routines
<1> QED
  BY <1>5, <1>6

(* What the polls of a client say, and how a waiting client finds things.  *)
LEMMA DeprovisionsInTime ==
  ASSUME RInv, [Next]_vars, ClientDeprovisions, InTime'
  PROVE  /\ \A step \in Steps(code["provisioner"]) : step.do \in UndoSteps
         /\ Waits => code["provisioner"] = <<>>
         /\ Polls => \A r \in Posters : code[r] = <<>>
         /\ \A l \in Lots : ~Steady(l) => code["job"] # <<>>
<1>1. record = "yes" /\ (Waits \/ Polls)
  BY InTimeMoves DEF RInv, ClientDeprovisions, InTime
<1>2. CASE Waits
  <2>1. code["provisioner"] = <<>>
    BY <1>2 DEF ClientDeprovisions, Waits
  <2>2. Awaited
    BY <1>2 DEF RInv, Waits, Uncrashed
  <2>3. ASSUME NEW l \in Lots, ~Steady(l)
        PROVE  code["job"] # <<>>
    <3>1. jobs[l] \in {"creating", "cancelled"}
      BY <1>2, <2>3 DEF RInv, Known, VolumesOnly, Steady, Waits
    <3>2. code[Asker(l)] # <<>>
      BY <2>2, <3>1 DEF Awaited, Unread, Doing
    <3> QED
      BY <2>1, <3>2 DEF Asker, Lots
  <2> QED
    BY <1>2, <2>1, <2>3, NothingBrings DEF Waits, Polls
<1>3. CASE Polls
  <2>1. Late /\ (env.service \in RcsFirst => env.lag)
    BY <1>3 DEF Polls, VerdictIsLate, Late
  <2>2. CASE Quiet
    <3>1. \A r \in Routines : code[r] = <<>>
      BY <2>2 DEF Quiet
    <3>2. \A l \in Lots : Steady(l)
      BY <2>2 DEF RInv, Known, VolumesOnly, Quiet, Steady
    <3> QED
      BY <3>1, <3>2, NothingBrings DEF Routines, Posters
  <2>3. CASE LastOperation \in {"succeeded", "failed"}
    <3>1. /\ \A r \in Routines : ~Leads(r)
          /\ code["job"] = <<>> /\ \A l \in Lots : Steady(l)
      BY <1>1, <2>1, <2>3, VerdictEndsLeading DEF RInv
    <3>2. \A r \in Routines : \A step \in Steps(code[r]) : step.do \in Repertoire(r)
      BY StepsAreOfKind DEF RInv, IInv, Programmed, WellFormed
    <3>3. \A step \in Steps(code["provisioner"]) : step.do \in UndoSteps
      BY <3>1, <3>2, UndoersDoNotLead DEF Leads, Repertoire, Routines
    <3>4. \A r \in {"helper", "helper2"} : code[r] = <<>>
      <4> SUFFICES ASSUME NEW r \in {"helper", "helper2"}
                   PROVE  code[r] = <<>>
        OBVIOUS
      <4>1. r \in Routines /\ Repertoire(r) = {"post"}
        BY DEF Routines, Repertoire
      <4>2. Steps(code[r]) = {}
        BY <3>1, <3>2, <4>1, UndoersDoNotLead DEF Leads
      <4> QED
        BY <4>1, <4>2, StepsOfNone DEF RInv, IInv
    <3> QED
      BY <1>1, <3>1, <3>3, <3>4, StepsOfNone DEF Posters, Waits, ClientDeprovisions
  <2> QED
    BY <1>3, <2>2, <2>3 DEF ClientDeprovisions, Polls
<1> QED
  BY <1>1, <1>2, <1>3

(* Who has nothing to lead on with does not start a job or a helper.       *)
LEMMA NobodyStarted ==
  ASSUME IInv, [Next]_vars, ~Crash, \A step \in Steps(code["provisioner"]) : step.do \in UndoSteps
  PROVE  /\ \A step \in Steps(code'["provisioner"]) : step.do \in UndoSteps
         /\ code'["job"] # <<>> => code["job"] # <<>>
         /\ code["job"] = <<>> => /\ code["helper"] = <<>> => code'["helper"] = <<>>
                                  /\ code["helper2"] = <<>> => code'["helper2"] = <<>>
<1>1. {"provisioner", "job", "helper", "helper2"} \subseteq Routines
  BY DEF Routines
<1>2. \A step \in Steps(code'["provisioner"]) : step.do \in UndoSteps
  BY <1>1, StepsTurn
<1>3. ~Start("provisioner")
  <2>1. Start("provisioner") => Leads("provisioner")
    BY <1>1, DoingLeads, UndoersDoNotLead DEF Start
  <2> QED
    BY <2>1, UndoersDoNotLead DEF Leads
<1>4. code'["job"] # <<>> => code["job"] # <<>>
  BY <1>1, <1>3, CodeTurns DEF Turns
<1>5. ASSUME NEW r \in {"helper", "helper2"}, code["job"] = <<>>, code[r] = <<>>
      PROVE  code'[r] = <<>>
  <2>1. ~StartHelper("job")
    BY <1>5 DEF StartHelper, Doing
  <2> QED
    BY <1>1, <1>5, <2>1, CodeTurns DEF Turns
<1> QED
  BY <1>2, <1>4, <1>5

(* A lot that nobody asks for stays settled.                               *)
LEMMA SteadyStays ==
  ASSUME IInv, [Next]_vars, NEW l \in Lots, Steady(l), \A r \in Routines : ~AskForVolumes(r)
  PROVE  Steady(l)'
<1>1. jobs \in [Lots -> {"none", "creating", "cancelled", "answered",
                         "done", "failed", "blocked"}]
  BY DEF IInv, TypeOK
<1>2. CASE UNCHANGED <<jobs, listed, claims>> \/ \E r \in Routines : DeleteVolumes(r)
  BY <1>2 DEF DeleteVolumes, Steady
<1>3. CASE \E r \in Routines : StopVolumeJob(r)
  <2>1. jobs' = jobs \/ \E k \in Lots : jobs[k] = "creating" /\ jobs' = [jobs EXCEPT ![k] = "cancelled"]
    BY <1>3 DEF StopVolumeJob, IInv, TypeOK
  <2> QED
    BY <1>1, <2>1 DEF Steady
<1>4. CASE \E k \in Lots : VolumeJob(k)
  <2>1. PICK k \in Lots : VolumeJob(k)
    BY <1>4
  <2>2. jobs' = jobs \/ \E new : ~Steady(k) /\ jobs' = [jobs EXCEPT ![k] = new]
    <3>1. CreateClaims(k) => jobs' = jobs
      BY DEF CreateClaims
    <3>2. VolumesBound(k) \/ OneVolumeFails(k) \/ VolumesFail(k) =>
            ~Steady(k) /\ \E new : jobs' = [jobs EXCEPT ![k] = new]
      BY DEF VolumesBound, OneVolumeFails, VolumesFail, Steady
    <3> QED
      BY <2>1, <3>1, <3>2 DEF VolumeJob
  <2> QED
    BY <1>1, <2>2 DEF Steady
<1>5. CASE Crash
  BY <1>5 DEF Crash, Steady
<1> QED
  BY <1>2, <1>3, <1>4, <1>5, VolumesMove

LEMMA FinishedStep ==
  ASSUME RInv, [Next]_vars
  PROVE  Finished'
<1> SUFFICES ASSUME InTime'
             PROVE  /\ \A step \in Steps(code'["provisioner"]) : step.do \in UndoSteps
                    /\ Waits => code'["provisioner"] = <<>>
                    /\ code'["job"] # <<>> => Waits /\ Having(code'["client"], "stop job") # {}
                    /\ Polls => code'["helper"] = <<>> /\ code'["helper2"] = <<>>
                    /\ \A l \in Lots : ~Steady(l)' => code'["job"] # <<>>
  BY InTimeMoves DEF Finished, RInv
<1>1. /\ ~Crash
      /\ InTime \/ (ClientDeprovisions /\ record = "yes" /\ (Waits \/ Polls))
  BY InTimeMoves DEF RInv
<1>2. /\ \A step \in Steps(code["provisioner"]) : step.do \in UndoSteps
      /\ Waits => code["provisioner"] = <<>>
      /\ Polls => code["job"] = <<>> /\ code["helper"] = <<>> /\ code["helper2"] = <<>>
      /\ \A l \in Lots : ~Steady(l) => code["job"] # <<>>
  BY <1>1, DeprovisionsInTime DEF RInv, Finished, Posters, Polls, Waits
<1>3. /\ \A step \in Steps(code'["provisioner"]) : step.do \in UndoSteps
      /\ code'["job"] # <<>> => code["job"] # <<>>
      /\ Polls => code'["helper"] = <<>> /\ code'["helper2"] = <<>>
  BY <1>1, <1>2, NobodyStarted DEF RInv
<1>4. Waits => code'["provisioner"] = <<>>
  BY <1>2, ProvisionerEnds DEF RInv, AInv, Uncrashed, Waits
<1>5. ASSUME code'["job"] # <<>>
      PROVE  Having(code'["client"], "stop job") # {}
  <2>1. CASE ClientDeprovisions
    <3>1. code'["client"] = Handler.DoDeprovision
      BY <2>1 DEF ClientDeprovisions, RInv, IInv, TypeOK, Routines
    <3>2. Handler.run # <<>>
      BY <1>3, <1>5 DEF RInv, Known, JobOnly, Posters
    <3> QED
      BY <3>1, <3>2, TheTables DEF RInv, IInv, IsThorough
  <2>2. CASE ~ClientDeprovisions
    <3>1. Having(code["client"], "stop job") # {}
      BY <1>1, <1>3, <1>5, <2>2 DEF RInv, Finished
    <3>2. CASE code'["client"] = code["client"]
      BY <3>1, <3>2
    <3>3. CASE Step("client")
      <4>1. "client" \in Routines /\ DOMAIN code = Routines /\ code["client"] # <<>>
        BY <3>3, StepMoves DEF Routines, RInv, IInv, TypeOK
      <4>2. ~StopTheJob("client") \/ code' = code
        <5>1. StopTheJob("client") /\ code' # code => code["job"] = <<>>
          BY DEF StopTheJob
        <5> QED
          BY <1>3, <1>5, <5>1
      <4>3. \/ code' = code
            \/ Now("client").do # "stop job" /\ code'["client"] = Tail(code["client"])
        BY <3>3, <4>1, <4>2, UndoerDoes
        DEF RInv, LookUp, DestroyFound, DeleteVolumes, StopVolumeJob, StopTheJob, Doing, Continue
      <4>4. Steps(code["client"]) = {Now("client")} \cup Steps(Tail(code["client"]))
        BY <4>1, ProgramOf DEF RInv, IInv
      <4> QED
        BY <3>1, <4>3, <4>4 DEF Having
    <3> QED
      BY <1>1, <2>2, <3>2, <3>3, CodeTurns DEF Turns, RInv, Routines
  <2> QED
    BY <2>1, <2>2
<1>6. ASSUME NEW l \in Lots, ~Steady(l)'
      PROVE  code'["job"] # <<>>
  <2>1. CASE Waits
    <3>1. AInv'
      BY <2>1, AwaitedStep DEF RInv, AInv, Uncrashed, Waits
    <3>2. VolumesOnly' /\ env'.faults = "none"
      BY <2>1, KnownStep, RecordMoves DEF RInv, Known, Waits
    <3>3. jobs'[l] \in {"creating", "cancelled"}
      BY <1>6, <3>2 DEF VolumesOnly, Steady
    <3>4. code'[Asker(l)] # <<>>
      BY <3>1, <3>3 DEF AInv, Awaited, Unread, Doing, Asker
    <3> QED
      BY <1>4, <2>1, <3>4 DEF Asker, Lots
  <2>2. CASE Polls
    <3>1. Steady(l)
      BY <1>2, <1>6, <2>2
    <3>2. \A r \in Routines : ~AskForVolumes(r)
      <4> SUFFICES ASSUME NEW r \in Routines, AskForVolumes(r)
                   PROVE  FALSE
        OBVIOUS
      <4>1. r \in {"provisioner", "job", "helper", "helper2"} /\ Leads(r)
        BY DoingLeads, UndoersDoNotLead DEF AskForVolumes, RInv
      <4>2. \A q \in {"job", "helper", "helper2"} : Steps(code[q]) = {}
        BY <1>2, <2>2, NothingBrings
      <4> QED
        BY <1>2, <4>1, <4>2, UndoersDoNotLead DEF Leads
    <3> QED
      BY <1>6, <3>1, <3>2, SteadyStays DEF RInv
  <2> QED
    BY <1>1, <2>1, <2>2 DEF InTime
<1>7. code'["job"] # <<>> => Waits
  BY <1>1, <1>2, <1>3 DEF InTime
<1> QED
  BY <1>3, <1>4, <1>5, <1>6, <1>7

(* What the client does when it deprovisions, and otherwise.               *)
LEMMA ClientStarts ==
  ASSUME IInv, Known, [Next]_vars, ClientDeprovisions
  PROVE  /\ StopsFirst(code'["client"])
         /\ \A res \in Everything(Handler) : Seeks("client", res)'
         /\ \A l \in VolumesOf(Handler) : Frees("client", l)'
<1>1. "client" \in Routines /\ DOMAIN code = Routines /\ IsThorough(Handler)
  BY TheTables DEF IInv, TypeOK, Routines
<1>2. code'["client"] = Handler.DoDeprovision
  BY <1>1 DEF ClientDeprovisions
<1>3. n'["client"] = 0
  <2>1. code["client"] = <<>> /\ n' = n
    BY DEF ClientDeprovisions, IInv, Succession
  <2> QED
    BY <1>1, <2>1 DEF IInv, TypeOK
<1>4. \A res \in Everything(Handler) : Seeks("client", res)'
  BY <1>1, <1>2, <1>3, SeeksFromTheStart DEF IsThorough
<1> QED
  BY <1>1, <1>2, <1>4 DEF IsThorough, Frees

(* As long as a goroutine is to stop the job, that or less comes next.     *)
LEMMA StopsFirstInTheRest ==
  ASSUME IInv, NEW r \in Routines, code[r] # <<>>, StopsFirst(code[r])
  PROVE  /\ StopsFirst(Tail(code[r]))
         /\ Having(code[r], "stop job") # {} => Now(r).do \in {"stop volumes", "stop job"}
<1> DEFINE p == code[r]
           rest == Tail(code[r])
<1>1. /\ Now(r) = p[1] /\ 1 \in DOMAIN p
      /\ \A i \in DOMAIN p : i \in Nat /\ i >= 1
      /\ \A i \in DOMAIN rest : i \in Nat /\ i + 1 \in DOMAIN p /\ rest[i] = p[i + 1]
  BY ProgramOf DEF IInv
<1>2. \A i, j \in DOMAIN p : i < j /\ p[j].do = "stop job" => p[i].do = "stop volumes"
  BY DEF StopsFirst
<1> HIDE DEF p, rest
<1>3. StopsFirst(rest)
  <2>1. ASSUME NEW i \in DOMAIN rest, NEW j \in DOMAIN rest, i < j
        PROVE  /\ i + 1 \in DOMAIN p /\ j + 1 \in DOMAIN p /\ i + 1 < j + 1
               /\ rest[i] = p[i + 1] /\ rest[j] = p[j + 1]
    BY <1>1, <2>1
  <2>2. ASSUME NEW i \in DOMAIN rest, NEW j \in DOMAIN rest,
               i < j, rest[j].do = "stop job"
        PROVE  rest[i].do = "stop volumes"
    <3>1. /\ i + 1 \in DOMAIN p /\ j + 1 \in DOMAIN p /\ i + 1 < j + 1
          /\ rest[i] = p[i + 1] /\ rest[j] = p[j + 1]
      BY <2>1, <2>2
    <3>2. p[j + 1].do = "stop job"
      BY <2>2, <3>1
    <3> QED
      BY <1>2, <3>1, <3>2
  <2> QED
    BY <2>2 DEF StopsFirst
<1>4. ASSUME NEW j \in DOMAIN p, p[j].do = "stop job"
      PROVE  p[1].do \in {"stop volumes", "stop job"}
  <2>1. j = 1 \/ 1 < j
    BY <1>1
  <2> QED
    BY <1>1, <1>2, <1>4, <2>1
<1> QED
  BY <1>1, <1>3, <1>4 DEF Having, Steps, p, rest

LEMMA WholeAheadStep ==
  ASSUME RInv, [Next]_vars
  PROVE  WholeAhead'
<1>1. Handler' = Handler /\ "client" \in Routines /\ DOMAIN code = Routines
  BY RecordMoves DEF RInv, IInv, TypeOK, Routines
<1> SUFFICES ASSUME InTime', Having(code'["client"], "stop job") # {}
             PROVE  /\ StopsFirst(code'["client"])
                    /\ \A res \in Everything(Handler) : Seeks("client", res)'
                    /\ \A l \in VolumesOf(Handler) : Frees("client", l)'
  BY <1>1 DEF WholeAhead
<1>2. CASE ClientDeprovisions
  BY <1>2, ClientStarts DEF RInv
<1>3. CASE ~ClientDeprovisions
  <2>1. InTime /\ ~Crash
    BY <1>3, InTimeMoves DEF RInv
  <2>2. CASE ~Step("client")
    <3>1. code'["client"] = code["client"]
      BY <1>1, <1>3, <2>1, <2>2, CodeTurns DEF Turns, RInv
    <3>2. n'["client"] = n["client"] /\ got'["client"] = got["client"]
      BY <1>1, <2>1, <2>2, StaysAlone DEF RInv
    <3> QED
      BY <2>1, <3>1, <3>2 DEF RInv, WholeAhead, Seeks, Frees
  <2>3. CASE Step("client")
    <3>1. /\ code["client"] # <<>> /\ Now("client") = code["client"][1]
          /\ \A i \in DOMAIN code["client"] : i \in Nat /\ i >= 1
          /\ 1 \in DOMAIN code["client"]
          /\ Steps(code["client"]) = {Now("client")} \cup Steps(Tail(code["client"]))
      <4>1. code["client"] # <<>>
        BY <1>1, <2>3, StepMoves DEF RInv, IInv
      <4> QED
        BY <1>1, <4>1, ProgramOf DEF RInv, IInv
    <3>2. code'["client"] \in {code["client"], Tail(code["client"])}
      BY <1>1, <2>3, UndoerDoes
      DEF RInv, LookUp, DestroyFound, DeleteVolumes, StopVolumeJob, StopTheJob, Continue
    <3>3. Having(code["client"], "stop job") # {}
      <4>1. Steps(code'["client"]) \subseteq Steps(code["client"])
        BY <3>1, <3>2
      <4> QED
        BY <4>1 DEF Having
    <3>4. /\ StopsFirst(code["client"])
          /\ \A res \in Everything(Handler) : Seeks("client", res)
          /\ \A l \in VolumesOf(Handler) : Frees("client", l)
      BY <2>1, <3>3 DEF RInv, WholeAhead
    <3>5. Now("client").do \in {"stop volumes", "stop job"} /\ StopsFirst(Tail(code["client"]))
      BY <1>1, <3>1, <3>3, <3>4, StopsFirstInTheRest DEF RInv
    <3>6. UNCHANGED <<n, got>> /\ n["client"] = 0
      BY <2>3, <3>5, UndoerDoes DEF RInv, LookUp, DestroyFound, Doing
    <3>7. CASE code'["client"] = code["client"]
      <4>1. n'["client"] = n["client"] /\ got'["client"] = got["client"]
        BY <3>6
      <4>2. \A res : Seeks("client", res) => Seeks("client", res)'
        BY <3>7, <4>1 DEF Seeks
      <4>3. \A l : Frees("client", l) => Frees("client", l)'
        BY <3>7 DEF Frees
      <4> QED
        BY <3>4, <3>7, <4>2, <4>3
    <3>8. CASE code'["client"] = Tail(code["client"])
      <4>1. \A res \in Everything(Handler) : Seeks("client", res)'
        BY <1>1, <3>1, <3>4, <3>5, <3>6, <3>8, SeeksInTheRest DEF RInv
      <4>2. \A l \in VolumesOf(Handler) : Frees("client", l)'
        BY <3>1, <3>4, <3>5, <3>8 DEF Frees, LotsOf, Having
      <4> QED
        BY <3>5, <3>8, <4>1, <4>2
    <3> QED
      BY <3>2, <3>7, <3>8
  <2> QED
    BY <2>2, <2>3
<1> QED
  BY <1>2, <1>3

(* As long as it is in time, the client goes on with what it is at.        *)
LEMMA ClientGoesOn ==
  ASSUME RInv, [Next]_vars, InTime, InTime'
  PROVE  /\ \A res \in made' \ draining' : Seeks("client", res) => Seeks("client", res)'
         /\ \A l \in Lots : claims'[l] = "there" /\ Frees("client", l) => Frees("client", l)'
<1>1. "client" \in Routines
  BY DEF Routines
<1>2. env.faults # "any" /\ ~Blank /\ ~Crash /\ ~ClientDeprovisions
  <2>1. env.faults # "any" /\ env.service \notin Unnamed
    BY DEF InTime, Waits, Polls, VerdictIsLate
  <2>2. ~Crash /\ ~ClientDeprovisions
    BY InTimeMoves DEF RInv, InTime, ClientDeprovisions
  <2> QED
    BY <2>1, <2>2, NamesAreFound DEF RInv
<1>3. CASE Step("client")
  BY <1>2, <1>3, SeekingGoesOn, FreeingGoesOn DEF RInv
<1>4. CASE ~Step("client")
  <2>1. code'["client"] = code["client"]
    BY <1>1, <1>2, <1>4, CodeTurns DEF Turns, RInv
  <2>2. n'["client"] = n["client"] /\ got'["client"] = got["client"]
    BY <1>1, <1>2, <1>4, StaysAlone DEF RInv
  <2> QED
    BY <2>1, <2>2 DEF Seeks, Frees
<1> QED
  BY <1>3, <1>4

LEMMA ClearingStep ==
  ASSUME RInv, [Next]_vars
  PROVE  Clearing'
<1>1. env' = env /\ Handler' = Handler /\ BroughtOnly' /\ VolumesOnly'
  BY RecordMoves, KnownStep DEF RInv, Known
<1>2. \A res : Spared(res)' <=> Spared(res)
  BY <1>1 DEF Spared, Waits, Helped, Helpers
<1> SUFFICES ASSUME InTime'
             PROVE  /\ \A res \in made' \ draining' : Spared(res) \/ Seeks("client", res)'
                    /\ \A l \in Lots : claims'[l] = "there" => Frees("client", l)'
  BY <1>2 DEF Clearing
<1>3. CASE ClientDeprovisions
  <2>1. \A res \in made' : res \in Everything(Handler)
    BY <1>1 DEF BroughtOnly
  <2>2. \A l \in Lots : claims'[l] = "there" => l \in VolumesOf(Handler)
    BY <1>1 DEF VolumesOnly
  <2> QED
    BY <1>3, <2>1, <2>2, ClientStarts DEF RInv
<1>4. CASE ~ClientDeprovisions
  <2>1. InTime /\ ~Crash /\ env.faults # "any"
    BY <1>4, InTimeMoves DEF RInv, InTime, Waits, Polls
  <2>2. /\ \A step \in Steps(code["provisioner"]) : step.do \in UndoSteps
        /\ code["job"] # <<>> => Waits /\ Having(code["client"], "stop job") # {}
        /\ Polls => code["helper"] = <<>> /\ code["helper2"] = <<>>
        /\ \A l \in Lots : ~Steady(l) => code["job"] # <<>>
    BY <2>1 DEF RInv, Finished
  <2>3. code["job"] # <<>> =>
          /\ \A res \in Everything(Handler) : Seeks("client", res)
          /\ \A l \in VolumesOf(Handler) : Frees("client", l)
    BY <2>1, <2>2 DEF RInv, WholeAhead
  <2>4. /\ \A res \in made \ draining : Spared(res) \/ Seeks("client", res)
        /\ \A l \in Lots : claims[l] = "there" => Frees("client", l)
    BY <2>1 DEF RInv, Clearing
  <2>5. ASSUME NEW res \in made' \ draining'
        PROVE  Spared(res) \/ Seeks("client", res)
    <3>1. CASE UNCHANGED <<made, draining>>
      BY <2>4, <2>5, <3>1
    <3>2. ASSUME NEW q \in Routines, PostNext(q)
          PROVE  Spared(res) \/ Seeks("client", res)
      <4>1. Doing(q, "post") /\ made' \subseteq made \cup {Posted(q)} /\ draining' = draining
        BY <3>2 DEF PostNext, Posted
      <4>2. CASE q = "job"
        BY <1>1, <2>3, <2>5, <4>1, <4>2 DEF BroughtOnly, Doing
      <4>3. CASE q \in {"helper", "helper2"} /\ res = Posted(q)
        <5>1. Now(q).group \in Helped
          <6>1. Now(q) \in Steps(code[q])
            BY <4>1, ProgramOf DEF Doing, RInv, IInv
          <6> QED
            BY <4>3, <6>1 DEF RInv, Known, JobOnly
        <5>2. Waits
          BY <2>1, <2>2, <4>1, <4>3 DEF InTime, Doing
        <5> QED
          BY <4>3, <5>1, <5>2 DEF Spared, Posted
      <4>4. q \in {"job", "helper", "helper2"}
        BY <2>2, <4>1, DoingLeads, UndoersDoNotLead DEF Leads, RInv
      <4> QED
        BY <2>4, <2>5, <4>1, <4>2, <4>3, <4>4
    <3>3. CASE DeleteRCs
      <4>1. made' = made \ draining
        BY <2>1, <3>3 DEF DeleteRCs, ACallFails
      <4> QED
        BY <2>4, <2>5, <4>1
    <3> QED
      BY <2>1, <2>4, <2>5, <3>1, <3>2, <3>3, ClusterMoves, DeletionsTake DEF RInv
  <2>6. ASSUME NEW l \in Lots, claims'[l] = "there"
        PROVE  Frees("client", l)
    <3>1. CASE claims[l] = "there"
      BY <2>4, <3>1
    <3>2. CASE claims[l] # "there"
      <4>1. claims \in [Lots -> {"none", "there", "gone"}]
        BY DEF RInv, IInv, TypeOK
      <4>2. \A r \in Routines : DeleteVolumes(r) => claims' = claims \/ claims'[l] = claims[l]
                                                     \/ claims'[l] = "gone"
        BY <4>1 DEF DeleteVolumes
      <4>3. \A r \in Routines : AskForVolumes(r) \/ StopVolumeJob(r) => claims' = claims
        BY DEF AskForVolumes, StopVolumeJob
      <4>4. PICK k \in Lots : VolumeJob(k)
        BY <2>1, <2>6, <3>2, <4>2, <4>3, VolumesMove
      <4>5. CreateClaims(k)
        BY <2>6, <3>2, <4>4 DEF VolumeJob, VolumesBound, OneVolumeFails, VolumesFail
      <4>6. k = l
        BY <2>6, <3>2, <4>1, <4>5 DEF CreateClaims
      <4>7. ~Steady(l) /\ l \in VolumesOf(Handler)
        BY <4>5, <4>6 DEF CreateClaims, Steady, RInv, Known, VolumesOnly
      <4> QED
        BY <2>2, <2>3, <4>7
    <3> QED
      BY <3>1, <3>2
  <2> QED
    BY <2>1, <2>5, <2>6, ClientGoesOn
<1> QED
  BY <1>3, <1>4

LEMMA InitRemoval ==
  ASSUME Init
  PROVE  RInv
<1>1. ~InTime
  BY DEF Init, InTime
<1>2. Uncrashed => Awaited
  BY InitAwaited DEF Uncrashed, AInv
<1> QED
  BY <1>1, <1>2, InitInvariant, InitKnown, InitOrder
  DEF RInv, Finished, WholeAhead, Clearing

LEMMA RemovalStep ==
  ASSUME RInv, [Next]_vars
  PROVE  RInv'
<1>1. IInv' /\ Known' /\ OInv'
  BY NextInvariant, KnownStep, OrderStep DEF RInv
<1>2. Uncrashed' => Awaited'
  BY AwaitedStep, RecordMoves DEF RInv, AInv, Uncrashed
<1> QED
  BY <1>1, <1>2, FinishedStep, WholeAheadStep, ClearingStep DEF RInv

(* The invariant of the removals: what can exist and who can still make    *)
(* more of it (IInv, Known, OInv, Awaited), that a client comes when the   *)
(* provisioning has ended (Finished), and what its DoDeprovision has still *)
(* to look up and delete (WholeAhead, Clearing).                           *)
THEOREM RemovalInvariant == Spec => []RInv
<1>1. Init => RInv
  BY InitRemoval
<1>2. RInv /\ [Next]_vars => RInv'
  BY RemovalStep
<1> QED
  BY <1>1, <1>2, PTL DEF Spec

(* A client that has waited for the verdict leaves nothing behind when it  *)
(* deprovisions: no resource and no volume, for every service whose tables *)
(* keep the conditions of ServiceTables, whatever is refused and after a   *)
(* crash (DoLastOperation, DoDeprovision).                                 *)
THEOREM ServiceRemovalIsClean == Spec => []CleanRemoval
<1>1. RInv => CleanRemoval
  <2> SUFFICES ASSUME RInv, Polls, record = "gone", crashed # "removing", Quiet
               PROVE  Clean
    BY DEF CleanRemoval, Polls
  <2>1. code["client"] = <<>> /\ draining = {}
    BY DEF Quiet, Routines
  <2>2. \A res : ~Spared(res) /\ ~Seeks("client", res)
    BY <2>1, NothingBrings DEF Seeks, Spared, Waits, Polls
  <2>3. \A l : ~Frees("client", l)
    BY <2>1, NothingBrings DEF Frees
  <2> QED
    BY <2>1, <2>2, <2>3 DEF RInv, Clearing, InTime, Clean
<1> QED
  BY <1>1, RemovalInvariant, PTL

(* A client that deprovisions when DoProvision's goroutine has ended, with *)
(* the job still at work, leaves nothing behind but what the helpers of    *)
(* the job post (run and DoDeprovision of the handlers with a job).        *)
THEOREM OrphansAreHelpers == Spec => []OrphansComeFromHelpers
<1>1. RInv => OrphansComeFromHelpers
  <2> SUFFICES ASSUME RInv, Waits, record = "gone", Quiet
               PROVE  /\ \A res \in made : res[1] \in Helped
                      /\ \A l \in Lots : claims[l] # "there"
    BY DEF OrphansComeFromHelpers, Waits
  <2>1. code["client"] = <<>> /\ draining = {}
    BY DEF Quiet, Routines
  <2>2. \A res : ~Seeks("client", res)
    BY <2>1, NothingBrings DEF Seeks
  <2>3. \A l : ~Frees("client", l)
    BY <2>1, NothingBrings DEF Frees
  <2>4. crashed # "removing"
    BY DEF RInv, Known, Waits
  <2> QED
    BY <2>1, <2>2, <2>3, <2>4 DEF RInv, Clearing, InTime, Spared
<1> QED
  BY <1>1, RemovalInvariant, PTL
=============================================================================
