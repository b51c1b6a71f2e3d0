------------------------- MODULE ServiceOutcomeProofs -------------------------
(***************************************************************************)
(* Proofs about ServiceInstance for every table that keeps the conditions  *)
(* of ServiceTables: what a verdict of DoLastOperation is worth, and what  *)
(* is left of a provisioning that was refused.                             *)
(***************************************************************************)
EXTENDS ServiceRemovalProofs

-----------------------------------------------------------------------------
(* What a program, at some place of its first chain, has still to post, by *)
(* itself or by those it starts; the lots a goroutine has still to ask for.*)
Left(program, at, res, run) ==
  \E i \in DOMAIN program :
    \/ /\ program[i].do = "post"
       /\ \E k \in 1..Len(program[i].chain) :
            res = <<program[i].group, program[i].chain[k]>> /\ (i = 1 => at < k)
    \/ program[i].do = "go" /\ res \in PostedBy(program[i].program)
    \/ program[i].do = "start job" /\ res \in Brought(run)

StillPosts(r, res) == Left(code[r], n[r], res, Handler.run)

StillAsks(r, l) ==
  \/ l \in LotsOf(code[r], "volumes")
  \/ Having(code[r], "start job") # {} /\ l \in LotsOf(Handler.run, "volumes")

(* As long as nothing unforeseen fails, an instance that still has someone *)
(* to lead on, or its final resource, is on its way: what is not there is  *)
(* still going to be posted, and nobody takes anything away.               *)
Calm == Late /\ record # "gone" /\ (env.faults # "any" \/ failures = 0)
Going == (\E r \in Routines : Leads(r)) \/ Final(Handler) \in made

OnTrack ==
  /\ ~Undoing("provisioner") /\ ~Undoing("job") /\ code["self"] = <<>>
  /\ draining = {} /\ ~cancelled
  /\ \A res \in Everything(Handler) : res \in made \/ \E r \in Routines : StillPosts(r, res)
  /\ \A l \in VolumesOf(Handler) :
       jobs[l] = "done" \/ \E r \in Routines : StillAsks(r, l)
  /\ \A l \in Lots : claims[l] # "gone" /\ (jobs[l] = "done" => claims[l] = "there")

Track == Calm /\ Going => OnTrack

(* The user can log in as long as what is posted last is there.            *)
UserIsLast ==
  Calm /\ Final(Handler) = <<"HA", "service">> /\ "instance" \in users
    => Final(Handler) \in made

(* A service without a job gets there if nothing fails at all.             *)
Smooth ==
  Calm /\ env.service \in RcsFirst /\ failures = 0 /\ crashed = "no" =>
    Going /\ \A l \in Lots : jobs[l] \in {"none", "creating", "done"}

-----------------------------------------------------------------------------
(* Programs.                                                               *)

(* What a program brings is still posted at its start.                     *)
LEMMA PostsFromTheStart ==
  ASSUME NEW p, NEW run, NEW res \in Brought(p)
  PROVE  Left(p, 0, res, run)
<1>1. CASE res \in PostedBy(p)
  <2>1. PICK step \in Having(p, "post") : res \in All(step.group, step.chain)
    BY <1>1 DEF PostedBy
  <2>2. PICK i \in DOMAIN p : p[i] = step /\ step.do = "post"
    BY <2>1 DEF Having, Steps
  <2>3. \E k \in 1..Len(p[i].chain) : res = <<p[i].group, p[i].chain[k]>> /\ 0 < k
    BY <2>1, <2>2 DEF All
  <2> QED
    BY <2>2, <2>3 DEF Left
<1>2. CASE \E step \in Having(p, "go") : res \in PostedBy(step.program)
  BY <1>2 DEF Left, Having, Steps
<1> QED
  BY <1>1, <1>2 DEF Brought

(* What the first step of a program does not post, the rest does.          *)
PostsNow(r, res, run) ==
  \/ /\ Now(r).do = "post"
     /\ \E k \in 1..Len(Now(r).chain) : res = <<Now(r).group, Now(r).chain[k]>> /\ n[r] < k
  \/ Now(r).do = "go" /\ res \in PostedBy(Now(r).program)
  \/ Now(r).do = "start job" /\ res \in Brought(run)

LEMMA LeftInTheRest ==
  ASSUME IInv, NEW r \in Routines, code[r] # <<>>, NEW res, NEW run,
         Left(code[r], n[r], res, run), ~PostsNow(r, res, run)
  PROVE  Left(Tail(code[r]), 0, res, run)
<1>1. PICK i \in DOMAIN code[r] :
        \/ /\ code[r][i].do = "post"
           /\ \E k \in 1..Len(code[r][i].chain) :
                res = <<code[r][i].group, code[r][i].chain[k]>> /\ (i = 1 => n[r] < k)
        \/ code[r][i].do = "go" /\ res \in PostedBy(code[r][i].program)
        \/ code[r][i].do = "start job" /\ res \in Brought(run)
  BY DEF Left
<1>2. Now(r) = code[r][1]
  BY ProgramOf DEF IInv
<1>3. i # 1
  BY <1>1, <1>2 DEF PostsNow
<1>4. i - 1 \in DOMAIN Tail(code[r]) /\ Tail(code[r])[i - 1] = code[r][i]
  BY <1>3, ProgramOf DEF IInv
<1>5. code[r][i].do = "post" =>
        \E k \in 1..Len(code[r][i].chain) :
          res = <<code[r][i].group, code[r][i].chain[k]>> /\ 0 < k
  <2> SUFFICES ASSUME code[r][i].do = "post"
               PROVE  \E k \in 1..Len(code[r][i].chain) :
                        res = <<code[r][i].group, code[r][i].chain[k]>> /\ 0 < k
    OBVIOUS
  <2> QED
    BY <1>1
<1>6. CASE code[r][i].do = "post"
  BY <1>4, <1>5, <1>6 DEF Left
<1>7. CASE code[r][i].do # "post"
  BY <1>1, <1>4, <1>7 DEF Left
<1> QED
  BY <1>6, <1>7

(* Who still has something to post leads.                                  *)
LEMMA PosterLeads ==
  ASSUME NEW r
  PROVE  /\ \A res : StillPosts(r, res) => Leads(r)
         /\ \A l : StillAsks(r, l) => Leads(r)
BY UndoersDoNotLead DEF StillPosts, Left, StillAsks, Leads, Steps, LotsOf, Having

-----------------------------------------------------------------------------
(* Who runs while an instance is on its way.                               *)
LEMMA WhoWorks ==
  ASSUME IInv, Calm, OnTrack, NEW r \in Routines, code[r] # <<>>
  PROVE  /\ r \in {"provisioner", "job", "helper", "helper2"}
         /\ Now(r) \in Steps(code[r])
         /\ \A step \in Steps(code[r]) : step.do \in ProvisionSteps \cup RunSteps
<1>1. r \in {"provisioner", "job", "helper", "helper2"}
  BY DEF IInv, Succession, Calm, OnTrack, Routines
<1>2. \A step \in Steps(code[r]) : step.do \in Repertoire(r)
  BY StepsAreOfKind DEF IInv, Programmed, WellFormed
<1>3. r \in {"provisioner", "job"} => \A step \in Steps(code[r]) : step.do \notin UndoSteps
  BY DEF OnTrack, Undoing
<1> QED
  BY <1>1, <1>2, <1>3, ProgramOf DEF Repertoire, RunSteps, IInv

(* Who leads on or waits takes nothing away.                               *)
LEMMA BuildersOnlyBuild ==
  ASSUME NEW r, code[r] # <<>> => Now(r).do \in ProvisionSteps \cup RunSteps
  PROVE  ~Deletes(r) /\ ~DeleteVolumes(r) /\ ~StopVolumeJob(r) /\ ~StopTheJob(r)
         /\ ~DeprovisionSelf(r) /\ ~LookUp(r)
BY DEF Deletes, UndoChain, Kdelete, DestroyFound, DeleteVolumes, StopVolumeJob,
       StopTheJob, DeprovisionSelf, LookUp, Doing, ProvisionSteps, RunSteps

LEMMA NobodyUndoes ==
  ASSUME IInv, Calm, OnTrack, NEW r \in Routines
  PROVE  ~Deletes(r) /\ ~DeleteVolumes(r) /\ ~StopVolumeJob(r) /\ ~StopTheJob(r)
         /\ ~DeprovisionSelf(r) /\ ~LookUp(r)
BY WhoWorks, BuildersOnlyBuild

(* As long as it is calm nothing fails but what is refused.                *)
LEMMA NoCallFails ==
  ASSUME IInv, [Next]_vars, Calm'
  PROVE  /\ record # "gone" /\ Late
         /\ \A kinds : ACallFails(kinds) => env.faults # "any"
         /\ ~ACallFails({"any"})
<1>1. env' = env /\ record # "gone" /\ Late
  BY RecordMoves DEF Calm, Late
<1>2. failures \in Nat
  BY InstanceAssumption DEF IInv, TypeOK
<1>3. \A kinds : ACallFails(kinds) => env.faults # "any"
  BY <1>1, <1>2 DEF ACallFails, Calm
<1> QED
  BY <1>1, <1>3 DEF ACallFails

(* Who leads and takes its error path leads no more, and nobody else does. *)
LEMMA NobodyBranches ==
  ASSUME IInv, Ordered, [Next]_vars, Calm, Going', made' = made, NEW r \in Routines,
         Doing(r, "post") \/ Doing(r, "find") \/ Doing(r, "volumes"),
         Instead(r, Now(r).else)
  PROVE  FALSE
<1>1. code[r] # <<>> /\ Now(r).do \in {"post", "find", "volumes"} /\ DOMAIN code = Routines
  BY DEF Doing, IInv, TypeOK
<1>2. Leads(r) /\ Final(Handler) \notin made /\ \A x \in Routines : Leads(x) => x = r
  <2>1. Now(r) \in Steps(code[r])
    BY <1>1, ProgramOf DEF IInv
  <2>2. Leads(r)
    BY <1>1, <2>1 DEF Leads, Bringing
  <2> QED
    BY <2>2 DEF Ordered, Calm
<1>3. \A step \in Steps(code'[r]) : step.do \in UndoSteps
  <2>1. Now(r) \in Steps(code[r]) /\ Now(r).do \in Branching
    BY <1>1, ProgramOf DEF IInv, Branching
  <2>2. Straight(Handler.load, UndoSteps, Now(r).else)
    BY <2>1 DEF IInv, Programmed, WellFormed
  <2>3. code'[r] = Now(r).else
    BY <1>1 DEF Instead
  <2> QED
    BY <2>2, <2>3, StepsAreOfKind
<1>4. \A x \in Routines : ~Leads(x)'
  BY <1>1, <1>2, <1>3, UndoersDoNotLead DEF Leads, Instead
<1>5. Final(Handler)' = Final(Handler)
  BY RecordMoves
<1> QED
  BY <1>2, <1>4, <1>5 DEF Going

(* What a goroutine does while nothing unforeseen fails: it goes on, or    *)
(* branches off to its error path.                                         *)
Onward(r) ==
  \/ UNCHANGED <<code, n, got, made>>
  \/ /\ Doing(r, "post") /\ made' = made \cup {Posted(r)}
     /\ IF n[r] + 1 = Len(Now(r).chain)
          THEN Continue(r) /\ n' = [n EXCEPT ![r] = 0]
          ELSE /\ UNCHANGED code /\ n' = [n EXCEPT ![r] = @ + 1]
               /\ got' = [got EXCEPT ![r] = @ \cup {Posted(r)}]
  \/ /\ code[r] # <<>> /\ Now(r).do \notin {"post", "go", "start job"}
     /\ Now(r).do = "volumes" => jobs[Now(r).lot] = "done"
     /\ n[r] = 0 /\ Continue(r) /\ UNCHANGED <<n, made>>
  \/ (Start(r) \/ StartHelper(r)) /\ UNCHANGED <<n, made>>

Branches(r) ==
  /\ \/ Doing(r, "post") \/ Doing(r, "volumes")
     \/ Doing(r, "find") /\ ~ All(Now(r).group, Now(r).list) \subseteq made
  /\ Instead(r, Now(r).else)
  /\ UNCHANGED <<got, made, draining, volumeVars>>

LEMMA OnwardOrNot ==
  ASSUME IInv, NEW r \in Routines, Step(r), ~cancelled,
         Now(r).do \in ProvisionSteps \cup RunSteps,
         env.faults # "any" \/ \A kinds : ~ACallFails(kinds)
  PROVE  Onward(r) \/ Branches(r)
<1>1. code[r] # <<>>
  BY StepMoves DEF IInv
<1>2. /\ \A kinds : ACallFails(kinds) => env.faults # "any"
      /\ ~ACallFails({"any"})
  BY DEF ACallFails
<1>3. Now(r).do # "post" => n[r] = 0
  <2>1. Now(r).do # "remove"
    BY DEF ProvisionSteps, RunSteps
  <2>2. n[r] \in Nat /\ (n[r] > 0 => Now(r).do \in {"post", "remove"})
    BY DEF IInv, TypeOK, Counted, Doing
  <2> QED
    BY <2>1, <2>2
<1>4. CASE Save(r)
  BY <1>1, <1>2, <1>3, <1>4 DEF Save, Doing, Onward, clusterVars
<1>5. CASE Send(r)
  BY <1>1, <1>5 DEF Send, Onward, clusterVars
<1>6. CASE PostNext(r)
  <2>1. CASE ACallFails({"refused", "any"}) /\ made' = made /\ Instead(r, Now(r).else)
             /\ UNCHANGED got
    BY <1>6, <2>1 DEF PostNext, Branches
  <2>2. CASE /\ made' = made \cup {Posted(r)}
             /\ IF n[r] + 1 = Len(Now(r).chain)
                  THEN Continue(r) /\ n' = [n EXCEPT ![r] = 0]
                  ELSE /\ UNCHANGED code /\ n' = [n EXCEPT ![r] = @ + 1]
                       /\ got' = [got EXCEPT ![r] = @ \cup {Posted(r)}]
    BY <1>6, <2>2 DEF PostNext, Onward
  <2> QED
    BY <1>2, <1>6, <2>1, <2>2 DEF PostNext, Posted
<1>7. CASE Look(r)
  <2>1. /\ Doing(r, "find") /\ UNCHANGED <<n, got, clusterVars, volumeVars>>
        /\ \/ Continue(r)
           \/ ~ All(Now(r).group, Now(r).list) \subseteq made /\ Instead(r, Now(r).else)
    BY <1>2, <1>7 DEF Look
  <2> QED
    BY <1>1, <1>3, <2>1 DEF Doing, Onward, Branches, clusterVars
<1>8. CASE AskForVolumes(r)
  BY <1>8 DEF AskForVolumes, Onward, programVars, clusterVars
<1>9. CASE VolumesAnswered(r)
  <2>1. /\ Doing(r, "volumes") /\ UNCHANGED <<n, got, clusterVars, volumeVars>>
        /\ \/ jobs[Now(r).lot] = "done" /\ Continue(r)
           \/ Instead(r, Now(r).else)
    BY <1>9 DEF VolumesAnswered
  <2> QED
    BY <1>1, <1>3, <2>1 DEF Doing, Onward, Branches, clusterVars
<1>10. CASE WaitForPods(r) \/ LookAtCancelled(r) \/ WaitInited(r) \/ FollowWatch(r)
  BY <1>1, <1>2, <1>3, <1>10
  DEF WaitForPods, LookAtCancelled, WaitInited, FollowWatch, Doing, Onward, clusterVars
<1>11. CASE CreateTheUser(r) \/ DropTheUser(r)
  BY <1>1, <1>2, <1>3, <1>11 DEF CreateTheUser, DropTheUser, Doing, Onward
<1>12. CASE Start(r) \/ StartHelper(r)
  BY <1>12 DEF Start, StartHelper, Onward, clusterVars
<1>13. /\ ~Deletes(r) /\ ~DeleteVolumes(r) /\ ~StopVolumeJob(r) /\ ~StopTheJob(r)
       /\ ~DeprovisionSelf(r) /\ ~LookUp(r)
  BY BuildersOnlyBuild
<1> QED
  BY <1>4, <1>5, <1>6, <1>7, <1>8, <1>9, <1>10, <1>11, <1>12, <1>13 DEF Step, Deletes

(* On its way an instance has no use for error paths.                      *)
LEMMA OnwardOnly ==
  ASSUME IInv, Ordered, OnTrack, [Next]_vars, Calm, Calm', Going',
         NEW r \in Routines, Step(r)
  PROVE  Onward(r)
<1>1. code[r] # <<>> /\ ~cancelled
  BY StepMoves DEF IInv, OnTrack
<1>2. Now(r).do \in ProvisionSteps \cup RunSteps
  BY <1>1, WhoWorks
<1>3. env.faults # "any" \/ \A kinds : ~ACallFails(kinds)
  BY NoCallFails
<1> QED
  BY <1>1, <1>2, <1>3, OnwardOrNot, NobodyBranches DEF Branches

LEMMA OthersKeep ==
  ASSUME IInv, NEW r \in Routines, Step(r), NEW x \in Routines \ {r}, code[x] # <<>>
  PROVE  code'[x] = code[x] /\ n'[x] = n[x]
<1>1. n'[x] = n[x]
  BY StepCounts
<1>2. CASE \E q : Follows(r, q) /\ Becomes(r, q)
  BY <1>1, <1>2 DEF Becomes
<1>3. CASE HandsOver(r)
  <2>1. PICK s, p : Starts(r, s, p)
    BY <1>3, HandsOverTo DEF IInv
  <2> QED
    BY <1>1, <2>1 DEF Starts
<1> QED
  BY <1>2, <1>3, StepMoves DEF IInv

(* What a goroutine still has to post is posted by its step, handed over,  *)
(* or still to be posted.                                                  *)
LEMMA LeftGoesOn ==
  ASSUME IInv, NEW r \in Routines, code[r] # <<>>, Onward(r),
         NEW res, NEW run, Left(code[r], n[r], res, run)
  PROVE  \/ res \in made'
         \/ Left(code'[r], n'[r], res, run)
         \/ Start(r) /\ res \in Brought(run)
         \/ StartHelper(r) /\ res \in PostedBy(Now(r).program)
<1>1. DOMAIN code = Routines /\ n \in [Routines -> Nat]
  BY DEF IInv, TypeOK
<1>2. CASE UNCHANGED <<code, n>>
  BY <1>2
<1>3. CASE /\ Doing(r, "post") /\ made' = made \cup {Posted(r)}
           /\ IF n[r] + 1 = Len(Now(r).chain)
                THEN Continue(r) /\ n' = [n EXCEPT ![r] = 0]
                ELSE UNCHANGED code /\ n' = [n EXCEPT ![r] = @ + 1]
  <2>1. /\ n[r] \in Nat /\ Len(Now(r).chain) \in Nat /\ n[r] + 1 \in 1..Len(Now(r).chain)
        /\ Now(r).do = "post"
    BY <1>3, PostedIsBrought DEF Doing
  <2>2. Now(r) = code[r][1] /\ \A i \in DOMAIN code[r] : i \in Nat
    BY ProgramOf DEF IInv
  <2>3. ASSUME NEW k \in 1..Len(Now(r).chain), n[r] < k, res = <<Now(r).group, Now(r).chain[k]>>,
               res \notin made'
        PROVE  n[r] + 1 < k /\ n[r] + 1 # Len(Now(r).chain)
    <3>1. k # n[r] + 1
      BY <1>3, <2>3 DEF Posted
    <3> QED
      BY <2>1, <2>3, <3>1
  <2>4. CASE n[r] + 1 = Len(Now(r).chain)
    <3>1. code'[r] = Tail(code[r]) /\ n'[r] = 0
      BY <1>1, <1>3, <2>4 DEF Continue
    <3>2. PostsNow(r, res, run) => res \in made'
      BY <2>1, <2>3, <2>4 DEF PostsNow
    <3> QED
      BY <3>1, <3>2, LeftInTheRest
  <2>5. CASE n[r] + 1 # Len(Now(r).chain)
    <3>1. code'[r] = code[r] /\ n'[r] = n[r] + 1
      BY <1>1, <1>3, <2>5
    <3>2. PICK i \in DOMAIN code[r] :
            \/ /\ code[r][i].do = "post"
               /\ \E k \in 1..Len(code[r][i].chain) :
                    res = <<code[r][i].group, code[r][i].chain[k]>> /\ (i = 1 => n[r] < k)
            \/ code[r][i].do = "go" /\ res \in PostedBy(code[r][i].program)
            \/ code[r][i].do = "start job" /\ res \in Brought(run)
      BY DEF Left
    <3>3. CASE i = 1
      BY <1>1, <2>1, <2>2, <2>3, <3>1, <3>2, <3>3 DEF Left
    <3>4. CASE i # 1
      BY <1>1, <3>1, <3>2, <3>4 DEF Left
    <3> QED
      BY <3>3, <3>4
  <2> QED
    BY <2>4, <2>5
<1>4. CASE /\ Now(r).do \notin {"post", "go", "start job"}
           /\ n[r] = 0 /\ Continue(r) /\ UNCHANGED n
  <2>1. code'[r] = Tail(code[r]) /\ n'[r] = 0
    BY <1>1, <1>4 DEF Continue
  <2> QED
    BY <1>4, <2>1, LeftInTheRest DEF PostsNow
<1>5. CASE (Start(r) \/ StartHelper(r)) /\ UNCHANGED n
  <2>1. code'[r] = Tail(code[r])
    BY <1>5, HandsOverTo DEF IInv, HandsOver, Starts
  <2>2. n'[r] = 0
    <3>1. ~Doing(r, "post") /\ ~Doing(r, "remove")
      BY <1>5 DEF Start, StartHelper, Doing
    <3> QED
      BY <1>1, <1>5, <3>1 DEF IInv, Counted
  <2>3. PostsNow(r, res, run) =>
          \/ Start(r) /\ res \in Brought(run)
          \/ StartHelper(r) /\ res \in PostedBy(Now(r).program)
    BY <1>5 DEF PostsNow, Start, StartHelper, Doing
  <2> QED
    BY <2>1, <2>2, <2>3, LeftInTheRest
<1> QED
  BY <1>2, <1>3, <1>4, <1>5 DEF Onward

(* What somebody still has to post is posted by the step, or still to be.  *)
LEMMA StillPosted ==
  ASSUME IInv, [Next]_vars, NEW r \in Routines, Step(r), Onward(r),
         NEW x \in Routines, NEW res, StillPosts(x, res)
  PROVE  res \in made' \/ \E y \in Routines : StillPosts(y, res)'
<1>1. Handler' = Handler /\ DOMAIN code = Routines
      /\ \A y \in Routines : code[y] = <<>> => n[y] = 0
  BY RecordMoves DEF IInv, TypeOK
<1>2. code[x] # <<>>
  BY NothingBrings DEF StillPosts, Left
<1>3. CASE x # r
  BY <1>1, <1>2, <1>3, OthersKeep DEF StillPosts
<1>4. CASE x = r /\ ~Start(r) /\ ~StartHelper(r)
  BY <1>1, <1>2, <1>4, LeftGoesOn DEF StillPosts
<1>5. CASE x = r /\ Start(r)
  <2>1. r = "provisioner" /\ "job" \in Routines /\ UNCHANGED n /\ Now(r).do = "start job"
    <3>1. Now(r) \in Steps(code[r]) /\ Now(r).do \in Repertoire(r)
      BY <1>2, <1>5, ProgramOf DEF IInv
    <3> QED
      BY <1>5, <3>1 DEF Start, Doing, Routines, Repertoire, ProvisionSteps, RunSteps,
                        UndoSteps, DeprovisionSteps
  <2>2. code'["job"] = Handler.run /\ n'["job"] = 0
    BY <1>1, <1>2, <1>5, <2>1 DEF Start, IInv, Succession
  <2>3. res \in Brought(Handler.run) => StillPosts("job", res)'
    BY <1>1, <2>2, PostsFromTheStart DEF StillPosts
  <2> QED
    BY <1>1, <1>2, <1>5, <2>1, <2>3, LeftGoesOn DEF StillPosts, StartHelper, Doing
<1>6. CASE x = r /\ StartHelper(r)
  <2>1. Now(r) \in Steps(code[r]) /\ Now(r).do = "go" /\ UNCHANGED n
    BY <1>2, <1>6, ProgramOf DEF IInv, StartHelper, Doing
  <2>2. r = "job"
    <3>1. Now(r).do \in Repertoire(r)
      BY <1>2, <1>6, ProgramOf DEF IInv
    <3> QED
      BY <2>1, <3>1 DEF Routines, Repertoire, ProvisionSteps, RunSteps, UndoSteps,
                        DeprovisionSteps
  <2>3. Now(r).helper \in {"helper", "helper2"} /\ code[Now(r).helper] = <<>>
    BY <2>1, <2>2 DEF IInv, Programmed, WellFormed, Succession
  <2>4. PICK y \in Routines : y = Now(r).helper
    BY <2>3 DEF Routines
  <2>5. code'[y] = Now(r).program /\ n'[y] = 0
    BY <1>1, <1>6, <2>1, <2>3, <2>4 DEF StartHelper
  <2>6. ASSUME res \in PostedBy(Now(r).program)
        PROVE  StillPosts(y, res)'
    <3>1. res \in Brought(Now(r).program)
      BY <2>6 DEF Brought
    <3>2. Left(Now(r).program, 0, res, Handler.run)
      BY <3>1, PostsFromTheStart
    <3> QED
      BY <1>1, <2>5, <3>2 DEF StillPosts
  <2>7. ~Start(r)
    BY <2>1 DEF Start, Doing
  <2>8. \/ res \in made'
        \/ Left(code'[r], n'[r], res, Handler.run)
        \/ res \in PostedBy(Now(r).program)
    BY <1>2, <1>6, <2>7, LeftGoesOn DEF StillPosts
  <2> QED
    BY <1>1, <1>6, <2>6, <2>8 DEF StillPosts
<1> QED
  BY <1>3, <1>4, <1>5, <1>6

(* Failures are counted, and only they.                                    *)
LEMMA FailuresGrow ==
  ASSUME [Next]_vars
  PROVE  failures' = failures \/ failures' = failures + 1
<1>1. ASSUME NEW r \in Routines, Step(r)
      PROVE  failures' = failures \/ failures' = failures + 1
  <2>1. CASE Save(r) \/ Send(r) \/ PostNext(r) \/ UndoChain(r) \/ Kdelete(r) \/ LookUp(r)
             \/ DestroyFound(r) \/ Look(r) \/ VolumesAnswered(r) \/ AskForVolumes(r)
    BY <2>1 DEF Save, Send, PostNext, UndoChain, Kdelete, LookUp, DestroyFound, DeleteAll, Look,
       VolumesAnswered, AskForVolumes, ACallFails
  <2>2. CASE Start(r) \/ WaitForPods(r) \/ LookAtCancelled(r) \/ WaitInited(r) \/ FollowWatch(r)
             \/ StartHelper(r) \/ CreateTheUser(r) \/ DropTheUser(r) \/ StopTheJob(r)
             \/ DeprovisionSelf(r) \/ StopVolumeJob(r) \/ DeleteVolumes(r)
    BY <2>2 DEF Start, WaitForPods, LookAtCancelled, WaitInited, FollowWatch, StartHelper,
       CreateTheUser, DropTheUser, StopTheJob, DeprovisionSelf, StopVolumeJob, DeleteVolumes,
       ACallFails
  <2> QED
    BY <1>1, <2>1, <2>2 DEF Step
<1>2. ASSUME NEW l \in Lots, VolumeJob(l)
      PROVE  failures' = failures \/ failures' = failures + 1
  BY <1>2 DEF VolumeJob, CreateClaims, VolumesBound, OneVolumeFails, VolumesFail, ACallFails
<1>3. CASE \/ \E g \in DOMAIN Handler.load : PodsRun(g)
           \/ DeleteRCs \/ ClientDeprovisions \/ Crash \/ UNCHANGED vars
  BY <1>3 DEF PodsRun, DeleteRCs, ClientDeprovisions, Crash, ACallFails, vars, lifeVars
<1> QED
  BY <1>1, <1>2, <1>3 DEF Next

(* Only DoDeprovision cancels a job.                                       *)
LEMMA CancelMoves ==
  ASSUME [Next]_vars
  PROVE  cancelled' = cancelled \/ \E r \in Routines : StopTheJob(r)
<1>1. ASSUME NEW r \in Routines, Step(r), ~StopTheJob(r)
      PROVE  cancelled' = cancelled
  <2>1. CASE Save(r) \/ Send(r) \/ PostNext(r) \/ UndoChain(r) \/ Kdelete(r) \/ LookUp(r)
             \/ DestroyFound(r) \/ Look(r) \/ VolumesAnswered(r) \/ AskForVolumes(r)
    BY <2>1 DEF Save, Send, PostNext, UndoChain, Kdelete, LookUp, DestroyFound, Look,
       VolumesAnswered, AskForVolumes, programVars
  <2>2. CASE Start(r) \/ WaitForPods(r) \/ LookAtCancelled(r) \/ WaitInited(r) \/ FollowWatch(r)
             \/ StartHelper(r) \/ CreateTheUser(r) \/ DropTheUser(r)
             \/ DeprovisionSelf(r) \/ StopVolumeJob(r) \/ DeleteVolumes(r)
    BY <2>2 DEF Start, WaitForPods, LookAtCancelled, WaitInited, FollowWatch, StartHelper,
       CreateTheUser, DropTheUser, DeprovisionSelf, StopVolumeJob, DeleteVolumes
  <2> QED
    BY <1>1, <2>1, <2>2 DEF Step
<1>2. CASE \/ \E l \in Lots : VolumeJob(l)
           \/ \E g \in DOMAIN Handler.load : PodsRun(g)
           \/ DeleteRCs \/ ClientDeprovisions \/ Crash \/ UNCHANGED vars
  BY <1>2 DEF VolumeJob, PodsRun, DeleteRCs, ClientDeprovisions, Crash, vars, lifeVars, programVars
<1> QED
  BY <1>1, <1>2 DEF Next

(* A post under way when the broker crashes.                               *)
LEMMA LatePosts ==
  ASSUME IInv, Crash, NEW res \in made' \ made
  PROVE  \E q \in Routines : Doing(q, "post") /\ res = Posted(q)
<1>1. res \in {<<Now(r).group, Now(r).chain[n[r] + 1]>> : r \in sent}
  BY DEF Crash
<1>2. \A r \in sent : r \in Routines /\ Doing(r, "post")
  BY DEF IInv, TypeOK, Posters, Routines
<1> QED
  BY <1>1, <1>2 DEF Posted

(* It was calm before.                                                     *)
LEMMA StaysCalm ==
  ASSUME IInv, [Next]_vars, Calm'
  PROVE  Calm /\ ~ClientDeprovisions
<1>1. env' = env /\ record # "gone" /\ Late /\ ~ClientDeprovisions
  BY RecordMoves, NoCallFails DEF Calm, ClientDeprovisions
<1>2. failures \in Nat
  BY InstanceAssumption DEF IInv, TypeOK
<1>3. failures' = 0 => failures = 0
  BY <1>2, FailuresGrow
<1> QED
  BY <1>1, <1>3 DEF Calm

(* Who is on its way was on its way.                                       *)
LEMMA GoesBack ==
  ASSUME IInv, [Next]_vars, Calm', Going'
  PROVE  Calm /\ Going /\ ~ClientDeprovisions
<1>3. ASSUME NEW x \in Routines, Leads(x)'
      PROVE  Going
  <2>1. "provisioner" \in Routines /\ "job" \in Routines
    BY DEF Routines
  <2>2. \E q \in Routines : Leads(q)
    BY <1>3, <2>1, LeadsTurn
  <2> QED
    BY <2>2 DEF Going
<1>4. ASSUME Final(Handler) \in made', Final(Handler) \notin made
      PROVE  Going
  <2>1. \E q \in Routines : Doing(q, "post")
    <3>1. CASE \E q \in Routines : PostNext(q)
      BY <3>1 DEF PostNext
    <3>2. CASE Crash
      BY <1>4, <3>2, LatePosts
    <3>3. CASE (\E q \in Routines : Deletes(q)) \/ DeleteRCs \/ UNCHANGED <<made, draining>>
      BY <1>4, <3>3, DeletionsTake DEF DeleteRCs
    <3> QED
      BY <3>1, <3>2, <3>3, ClusterMoves
  <2> QED
    BY <2>1, DoingLeads, UndoersDoNotLead DEF Going
<1>5. Going
  <2>1. Final(Handler)' = Final(Handler)
    BY RecordMoves
  <2> QED
    BY <1>3, <1>4, <2>1 DEF Going
<1> QED
  BY <1>5, StaysCalm

(* Nothing is taken away.                                                  *)
LEMMA MadeStays ==
  ASSUME IInv, [Next]_vars, draining = {}, \A r \in Routines : ~Deletes(r)
  PROVE  made \subseteq made' /\ draining' = {}
<1>1. ASSUME NEW q \in Routines, PostNext(q)
      PROVE  made \subseteq made' /\ draining' = draining
  BY <1>1 DEF PostNext
<1>2. ~DeleteRCs
  BY DEF DeleteRCs
<1>3. Crash => made \subseteq made' /\ draining' = {}
  BY DEF Crash
<1> QED
  BY <1>1, <1>2, <1>3, ClusterMoves

LEMMA VolumesAreLots ==
  ASSUME IInv
  PROVE  VolumesOf(Handler) \subseteq Lots
<1>1. ASSUME NEW kinds, NEW p, Straight(Handler.load, kinds, p), NEW step \in Steps(p)
      PROVE  Loaded(Handler.load, step)
  <2> DEFINE S == {s \in Steps(p) : s.do \in kinds /\ Loaded(Handler.load, s)}
  <2>1. p \in Seq(S)
    BY <1>1 DEF Straight
  <2> HIDE DEF S
  <2>2. step \in S
    BY <1>1, <2>1 DEF Steps
  <2> QED
    BY <2>2 DEF S
<1>2. \A step \in Steps(Handler.DoProvision) \cup Steps(Handler.run) : Loaded(Handler.load, step)
  BY <1>1, HandlerIsHandler DEF IInv, IsHandler, WellFormed
<1> QED
  BY <1>2 DEF Loaded, VolumesOf, LotsOf, Having, Lots

-----------------------------------------------------------------------------
(* The invariants of a verdict.                                            *)
TInv == Track /\ UserIsLast /\ Smooth

(* Whoever posts the final resource has nothing else to post.              *)
LEMMA FinalIsLast ==
  ASSUME IInv, Known, OInv, Late, NEW q \in Routines, Doing(q, "post"),
         Posted(q) = Final(Handler)
  PROVE  /\ n[q] + 1 = Len(Now(q).chain) /\ code[q] # <<>> /\ Now(q) = End(q)
         /\ \A r \in Routines : Leads(r) => r = q
         /\ \A step \in Steps(Tail(code[q])) : step.do \notin Bringing
<1>1. Leads(q) /\ code[q] # <<>>
  BY DoingLeads, UndoersDoNotLead DEF Doing
<1>2. Now(q) = End(q)
  BY PostedIsBrought DEF OInv, Ordered
<1>3. Now(q) = LastPost(Handler)
  BY <1>2, LastPostIsLast DEF Known
<1>4. /\ n[q] \in Nat /\ n[q] + 1 \in 1..Len(Now(q).chain) /\ Len(Now(q).chain) \in Nat
  BY PostedIsBrought
<1>5. Now(q).chain[n[q] + 1] = LastOf(Now(q).chain)
  BY <1>3 DEF Posted, Final
<1>6. \A i \in 1..(Len(Now(q).chain) - 1) : Now(q).chain[i] # LastOf(Now(q).chain)
  <2>1. IsOrderly(Handler)
    BY TheTables DEF IInv, Late
  <2> QED
    BY <1>3, <2>1 DEF IsOrderly
<1>7. n[q] + 1 = Len(Now(q).chain)
  <2>1. n[q] + 1 \notin 1..(Len(Now(q).chain) - 1)
    BY <1>5, <1>6
  <2> QED
    BY <1>4, <2>1
<1>8. \A step \in Steps(Tail(code[q])) : step.do \notin Bringing
  <2>1. EndsIn(code[q], End(q))
    BY <1>1 DEF OInv, Ordered
  <2> QED
    BY <1>1, <1>2, <2>1, EndsInTheRest
<1>9. \A r \in Routines : Leads(r) => r = q
  BY <1>1 DEF OInv, Ordered
<1> QED
  BY <1>1, <1>2, <1>7, <1>8, <1>9

(* When the broker crashes, all is there or the final resource never is.   *)
LEMMA LastWord ==
  ASSUME IInv, Known, OInv, Calm, OnTrack, Crash, Final(Handler) \in made'
  PROVE  /\ Everything(Handler) \subseteq made'
         /\ \A l \in VolumesOf(Handler) : jobs[l] = "done"
<1>1. made \subseteq made'
  BY DEF Crash
<1>2. CASE Final(Handler) \in made
  <2>1. \A r \in Routines : ~Leads(r)
    BY <1>2 DEF OInv, Ordered, Calm
  <2> QED
    BY <1>1, <2>1, PosterLeads DEF OnTrack
<1>3. CASE Final(Handler) \notin made
  <2>1. PICK q \in Routines : Doing(q, "post") /\ Final(Handler) = Posted(q)
    BY <1>3, LatePosts
  <2>2. /\ n[q] + 1 = Len(Now(q).chain) /\ code[q] # <<>>
        /\ \A r \in Routines : Leads(r) => r = q
        /\ \A step \in Steps(Tail(code[q])) : step.do \notin Bringing
    BY <2>1, FinalIsLast DEF Calm
  <2>3. n[q] \in Nat /\ Now(q).do = "post"
    BY <2>1 DEF IInv, TypeOK, Doing
  <2>4. ASSUME NEW res, StillPosts(q, res)
        PROVE  res = Final(Handler)
    <3>1. PICK i \in DOMAIN code[q] :
            \/ /\ code[q][i].do = "post"
               /\ \E k \in 1..Len(code[q][i].chain) :
                    res = <<code[q][i].group, code[q][i].chain[k]>> /\ (i = 1 => n[q] < k)
            \/ code[q][i].do = "go" /\ res \in PostedBy(code[q][i].program)
            \/ code[q][i].do = "start job" /\ res \in Brought(Handler.run)
      BY <2>4 DEF StillPosts, Left
    <3>2. code[q][i].do \in Bringing
      BY <3>1, UndoersDoNotLead
    <3>3. i = 1
      <4>1. i # 1 => code[q][i] \in Steps(Tail(code[q]))
        BY <2>2, ProgramOf DEF IInv, Steps
      <4> QED
        BY <2>2, <3>2, <4>1
    <3>4. code[q][1] = Now(q)
      BY <2>2, ProgramOf DEF IInv
    <3>5. PICK k \in 1..Len(Now(q).chain) :
            res = <<Now(q).group, Now(q).chain[k]>> /\ n[q] < k
      BY <2>3, <3>1, <3>3, <3>4
    <3>6. k = n[q] + 1
      BY <2>2, <2>3, <3>5
    <3> QED
      BY <2>1, <3>5, <3>6 DEF Posted
  <2>5. Everything(Handler) \subseteq made'
    BY <1>1, <2>2, <2>4, PosterLeads DEF OnTrack
  <2>6. ASSUME NEW l, StillAsks(q, l)
        PROVE  FALSE
    <3>1. PICK step \in Steps(code[q]) : step.do \in {"volumes", "start job"}
      BY <2>6 DEF StillAsks, LotsOf, Having
    <3>2. step # Now(q)
      BY <2>3, <3>1
    <3>3. step \in Steps(Tail(code[q]))
      BY <2>2, <3>2, ProgramOf DEF IInv
    <3> QED
      BY <2>2, <3>1, <3>3, UndoersDoNotLead
  <2> QED
    BY <2>2, <2>5, <2>6, PosterLeads DEF OnTrack
<1> QED
  BY <1>2, <1>3

(* On its way an instance keeps its volumes.                               *)
LEMMA VolumesStay ==
  ASSUME IInv, Calm, OnTrack, [Next]_vars, NEW l \in Lots
  PROVE  /\ jobs[l] = "done" => jobs'[l] = "done"
         /\ claims'[l] # "gone"
         /\ jobs'[l] = "done" => claims'[l] = "there"
<1>1. /\ DOMAIN jobs = Lots /\ DOMAIN claims = Lots
      /\ claims[l] # "gone" /\ (jobs[l] = "done" => claims[l] = "there")
  BY DEF IInv, TypeOK, OnTrack
<1>2. CASE UNCHANGED <<jobs, listed, claims>>
  BY <1>1, <1>2
<1>3. ASSUME NEW r \in Routines, AskForVolumes(r)
      PROVE  claims' = claims /\ jobs'[l] \in {jobs[l], "creating"}
             /\ (jobs[l] = "done" => jobs'[l] = "done")
  BY <1>1, <1>3 DEF AskForVolumes
<1>4. ASSUME NEW k \in Lots, VolumeJob(k)
      PROVE  /\ jobs[l] = "done" => jobs'[l] = "done"
             /\ claims'[l] # "gone"
             /\ jobs'[l] = "done" => claims'[l] = "there"
  <2>1. CASE CreateClaims(k)
    BY <1>1, <2>1 DEF CreateClaims
  <2>2. CASE VolumesBound(k)
    BY <1>1, <2>2 DEF VolumesBound
  <2>3. CASE OneVolumeFails(k) \/ VolumesFail(k)
    BY <1>1, <2>3 DEF OneVolumeFails, VolumesFail
  <2>4. CASE UNCHANGED <<jobs, claims>>
    BY <1>1, <2>4
  <2> QED
    BY <1>4, <2>1, <2>2, <2>3, <2>4 DEF VolumeJob
<1>5. CASE Crash
  <2>1. jobs'[l] = IF jobs[l] \in {"none", "done"} THEN jobs[l] ELSE "failed"
    BY <1>5 DEF Crash
  <2>2. claims'[l] \in {claims[l], "there"}
    BY <1>5 DEF Crash
  <2> QED
    BY <1>1, <2>1, <2>2
<1> QED
  BY <1>1, <1>2, <1>3, <1>4, <1>5, VolumesMove, NobodyUndoes

(* Who goes onward, goes on with its program.                              *)
LEMMA GoesOn ==
  ASSUME IInv, NEW r \in Routines, Step(r), Onward(r)
  PROVE  /\ code[r] # <<>> /\ code'[r] \in {code[r], Tail(code[r])}
         /\ Steps(code'[r]) \subseteq Steps(code[r])
<1>1. code[r] # <<>> /\ DOMAIN code = Routines
  BY StepMoves DEF IInv, TypeOK
<1>2. code'[r] \in {code[r], Tail(code[r])}
  <2>1. CASE Start(r) \/ StartHelper(r)
    BY <2>1, HandsOverTo DEF IInv, HandsOver, Starts
  <2>2. CASE UNCHANGED code \/ Continue(r)
    BY <1>1, <2>2 DEF Continue
  <2> QED
    BY <2>1, <2>2 DEF Onward
<1> QED
  BY <1>1, <1>2, ProgramOf DEF IInv

LEMMA StaysOff ==
  ASSUME IInv, Ordered, OnTrack, [Next]_vars, Calm, Calm', Going'
  PROVE  ~Undoing("provisioner")' /\ ~Undoing("job")' /\ code'["self"] = <<>>
<1>1. {"provisioner", "job", "self"} \subseteq Routines
  BY DEF Routines
<1>2. ASSUME NEW x \in {"provisioner", "job"}
      PROVE  \A step \in Steps(code'[x]) : step.do \notin UndoSteps
  <2>1. \A step \in Steps(code[x]) : step.do \notin UndoSteps
    BY <1>2 DEF OnTrack, Undoing
  <2>2. CASE code'[x] = Handler.run
    <3>1. \A step \in Steps(Handler.run) : step.do \in RunSteps
      BY HandlerIsHandler, StepsAreOfKind DEF IInv, IsHandler, WellFormed
    <3>2. RunSteps \cap UndoSteps = {}
      BY DEF RunSteps, UndoSteps
    <3> QED
      BY <2>2, <3>1, <3>2
  <2>3. CASE Step(x)
    BY <1>1, <1>2, <2>1, <2>3, OnwardOnly, GoesOn
  <2>4. CASE code'[x] \in {code[x], <<>>}
    BY <2>1, <2>4, NothingBrings
  <2> QED
    BY <1>1, <1>2, <2>2, <2>3, <2>4, CodeTurns DEF Turns
<1>3. code'["self"] = <<>>
  <2>1. code["self"] = <<>>
    BY DEF OnTrack
  <2>2. \A r \in {"provisioner", "job"} : ~DeprovisionSelf(r)
    BY <1>1, NobodyUndoes
  <2> QED
    BY <1>1, <2>1, <2>2, CodeTurns DEF Turns
<1> QED
  BY <1>2, <1>3 DEF Undoing

(* What is not there yet is still going to be.                             *)
LEMMA AllStillPosted ==
  ASSUME IInv, Known, OInv, OnTrack, [Next]_vars, Calm, Calm', Going',
         NEW res \in Everything(Handler)
  PROVE  res \in made' \/ \E r \in Routines : StillPosts(r, res)'
<1>1. Handler' = Handler /\ made \subseteq made' /\ ~ClientDeprovisions
  BY RecordMoves, MadeStays, NobodyUndoes, GoesBack DEF OnTrack
<1>2. CASE res \in made
  BY <1>1, <1>2
<1>3. CASE Crash
  <2>1. Final(Handler) \in made'
    <3>1. Final(Handler)' = Final(Handler)
      BY RecordMoves
    <3> QED
      BY <1>3, <3>1, LeadsTurn DEF Going
  <2> QED
    BY <1>3, <2>1, LastWord
<1>4. ASSUME NEW x \in Routines, StillPosts(x, res), ~Crash
      PROVE  res \in made' \/ \E r \in Routines : StillPosts(r, res)'
  <2>1. CASE \E r \in Routines : Step(r)
    BY <1>4, <2>1, OnwardOnly, StillPosted DEF OInv
  <2>2. CASE UNCHANGED <<code, n>>
    BY <1>1, <1>4, <2>2 DEF StillPosts, Left
  <2>3. (\E r \in Routines : Step(r)) \/ UNCHANGED <<code, n>>
    BY <1>1, <1>4, NextMoves DEF IInv, vars, lifeVars, programVars
  <2> QED
    BY <2>1, <2>2, <2>3
<1> QED
  BY <1>2, <1>3, <1>4 DEF OnTrack

(* So are its volumes.                                                     *)
LEMMA AllStillAsked ==
  ASSUME IInv, Known, OInv, OnTrack, [Next]_vars, Calm, Calm', Going',
         NEW l \in VolumesOf(Handler)
  PROVE  jobs'[l] = "done" \/ \E r \in Routines : StillAsks(r, l)'
<1>1. l \in Lots /\ ~ClientDeprovisions
  BY VolumesAreLots, GoesBack
<1>2. jobs[l] = "done" => jobs'[l] = "done"
  BY <1>1, VolumesStay
<1>3. CASE Crash
  <2>1. Final(Handler) \in made'
    <3>1. Final(Handler)' = Final(Handler)
      BY RecordMoves
    <3> QED
      BY <1>3, <3>1, LeadsTurn DEF Going
  <2> QED
    BY <1>2, <1>3, <2>1, LastWord
<1>4. ASSUME NEW x \in Routines, StillAsks(x, l), NEW r \in Routines, Step(r)
      PROVE  jobs[l] = "done" \/ \E y \in Routines : StillAsks(y, l)'
  <2>1. code[x] # <<>> /\ Handler' = Handler
    BY <1>4, NothingBrings, RecordMoves DEF StillAsks
  <2>2. CASE x # r
    BY <1>4, <2>1, <2>2, OthersKeep DEF StillAsks
  <2>3. CASE x = r
    <3>1. Onward(r) /\ code'[r] \in {code[r], Tail(code[r])}
      BY <1>4, OnwardOnly, GoesOn DEF OInv
    <3>2. PICK step \in Steps(code[r]) :
            \/ step.do = "volumes" /\ step.lot = l
            \/ step.do = "start job" /\ l \in LotsOf(Handler.run, "volumes")
      BY <1>4, <2>3 DEF StillAsks, LotsOf, Having
    <3>3. CASE step \in Steps(code'[r])
      BY <2>1, <3>2, <3>3 DEF StillAsks, LotsOf, Having
    <3>4. CASE step \notin Steps(code'[r])
      <4>1. step = Now(r) /\ code'[r] # code[r]
        BY <2>1, <2>3, <3>1, <3>2, <3>4, ProgramOf DEF IInv
      <4>2. CASE step.do = "volumes"
        BY <3>1, <3>2, <4>1, <4>2 DEF Onward, Doing, Start, StartHelper
      <4>3. CASE step.do = "start job"
        <5>1. Start(r)
          BY <3>1, <4>1, <4>3 DEF Onward, Doing, StartHelper
        <5>2. r = "provisioner"
          BY <2>1, <2>3, <4>1, <4>3, ProgramOf
          DEF IInv, Routines, Repertoire, RunSteps, UndoSteps, DeprovisionSteps
        <5>3. code'["job"] = Handler.run /\ "job" \in Routines
          BY <5>1, <5>2 DEF Start, IInv, TypeOK, Routines
        <5> QED
          BY <3>2, <4>3, <5>3 DEF StillAsks
      <4> QED
        BY <3>2, <4>2, <4>3
    <3> QED
      BY <3>3, <3>4
  <2> QED
    BY <2>2, <2>3
<1>5. (\E r \in Routines : Step(r)) \/ UNCHANGED code \/ Crash
  BY <1>1, NextMoves DEF IInv, vars, lifeVars, programVars
<1>6. Handler' = Handler
  BY RecordMoves
<1> QED
  BY <1>2, <1>3, <1>4, <1>5, <1>6 DEF OnTrack, StillAsks

LEMMA TrackStep ==
  ASSUME IInv, Known, OInv, Track, [Next]_vars
  PROVE  Track'
<1> SUFFICES ASSUME Calm', Going'
             PROVE  OnTrack'
  BY DEF Track
<1>1. Calm /\ OnTrack /\ Handler' = Handler
  BY GoesBack, RecordMoves DEF Track
<1>2. ~cancelled'
  BY <1>1, CancelMoves, NobodyUndoes DEF OnTrack
<1>3. draining' = {}
  BY <1>1, MadeStays, NobodyUndoes DEF OnTrack
<1>4. ~Undoing("provisioner")' /\ ~Undoing("job")' /\ code'["self"] = <<>>
  BY <1>1, StaysOff DEF OInv
<1>5. \A res \in Everything(Handler) : res \in made' \/ \E r \in Routines : StillPosts(r, res)'
  BY <1>1, AllStillPosted
<1>6. \A l \in VolumesOf(Handler) :
        jobs'[l] = "done" \/ \E r \in Routines : StillAsks(r, l)'
  BY <1>1, AllStillAsked
<1>7. \A l \in Lots : claims'[l] # "gone" /\ (jobs'[l] = "done" => claims'[l] = "there")
  BY <1>1, VolumesStay
<1> QED
  BY <1>1, <1>2, <1>3, <1>4, <1>5, <1>6, <1>7 DEF OnTrack

LEMMA UserIsLastStep ==
  ASSUME IInv, Known, OInv, TInv, [Next]_vars
  PROVE  UserIsLast'
<1>1. Handler' = Handler /\ Final(Handler)' = Final(Handler)
  BY RecordMoves
<1> SUFFICES ASSUME Calm', Final(Handler) = <<"HA", "service">>, "instance" \in users'
             PROVE  Final(Handler) \in made'
  BY <1>1 DEF UserIsLast
<1>2. Calm
  BY StaysCalm
<1>3. CASE "instance" \in users
  <2>1. Final(Handler) \in made
    BY <1>2, <1>3 DEF TInv, UserIsLast
  <2>2. OnTrack
    BY <1>2, <2>1 DEF TInv, Track, Going
  <2> QED
    BY <1>2, <2>1, <2>2, MadeStays, NobodyUndoes DEF OnTrack
<1>4. CASE Reachable /\ made' = made
  BY <1>4 DEF Reachable
<1> QED
  BY <1>3, <1>4, UsersMove

(* Without a job only the provisioner is at work, and it ends with the     *)
(* final resource if no call fails.                                        *)
LEMMA SmoothGoing ==
  ASSUME IInv, Known, OInv, OnTrack, Calm, [Next]_vars, ~Crash, ~ClientDeprovisions,
         env.service \in RcsFirst, \A kinds : ~ACallFails(kinds),
         \A l \in Lots : jobs[l] \in {"none", "creating", "done"},
         Leads("provisioner")
  PROVE  Leads("provisioner")' \/ Final(Handler) \in made'
<1> DEFINE p == "provisioner"
<1>1. /\ p \in Routines /\ p \notin Posters /\ DOMAIN code = Routines
      /\ code[p] # <<>> /\ Programmed
  BY NothingBrings DEF Routines, Posters, IInv, TypeOK, Leads
<1>2. Handler.run = <<>> /\ IsOrderly(Handler)
  BY TheTables DEF IInv, Calm, Late, NeedsPods
<1>3. End(p) = LastPost(Handler) /\ End(p).do = "post"
  BY <1>2 DEF IsOrderly, End, LastPost
<1>4. EndsIn(code[p], End(p))
  BY <1>1 DEF OInv, Ordered, Calm
<1>5. End(p) \in Steps(code[p])
  BY <1>4 DEF EndsIn, Leads, Steps
<1>6. ASSUME code'[p] = Tail(code[p]), Now(p) # End(p)
      PROVE  Leads(p)'
  <2>1. End(p) \in Steps(code'[p])
    BY <1>1, <1>5, <1>6, ProgramOf
  <2> QED
    BY <1>3, <2>1, UndoersDoNotLead DEF Leads
<1>7. ASSUME code'[p] = code[p]
      PROVE  Leads(p)'
  BY <1>7 DEF Leads
<1>8. ASSUME Step(p)
      PROVE  Leads(p)' \/ Final(Handler) \in made'
  <2>1. Now(p) \in Steps(code[p]) /\ Now(p).do \in ProvisionSteps
    <3>1. Now(p) \in Steps(code[p]) /\ Now(p).do \in Repertoire(p)
      BY <1>1, ProgramOf
    <3> QED
      BY <3>1 DEF OnTrack, Undoing, Repertoire
  <2>2. ASSUME PostNext(p)
        PROVE  Leads(p)' \/ Final(Handler) \in made'
    <3>1. /\ Doing(p, "post") /\ made' = made \cup {Posted(p)}
          /\ IF n[p] + 1 = Len(Now(p).chain) THEN Continue(p) ELSE UNCHANGED code
      BY <2>2 DEF PostNext, Posted
    <3>2. CASE n[p] + 1 # Len(Now(p).chain)
      BY <1>7, <3>1, <3>2
    <3>3. CASE n[p] + 1 = Len(Now(p).chain) /\ Now(p) # End(p)
      BY <1>1, <1>6, <3>1, <3>3 DEF Continue
    <3>4. CASE n[p] + 1 = Len(Now(p).chain) /\ Now(p) = End(p)
      BY <1>3, <3>1, <3>4 DEF Posted, Final, LastOf
    <3> QED
      BY <3>2, <3>3, <3>4
  <2>3. ASSUME Now(p).do # "post", UNCHANGED code \/ Continue(p)
        PROVE  Leads(p)'
    BY <1>1, <1>3, <1>6, <1>7, <2>3 DEF Continue
  <2>4. CASE Save(p)
    BY <2>3, <2>4 DEF Save, Doing
  <2>5. CASE AskForVolumes(p)
    BY <1>7, <2>5 DEF AskForVolumes, programVars
  <2>6. CASE VolumesAnswered(p)
    <3>1. Now(p).lot \in Lots
      BY <1>1, <2>1, <2>6, ProgramOf DEF VolumesAnswered, Doing, Loaded, Lots
    <3> QED
      BY <2>3, <2>6, <3>1 DEF VolumesAnswered, Doing
  <2>7. CASE Start(p)
    <3>1. code'[p] = Tail(code[p]) /\ Now(p).do = "start job"
      BY <1>1, <2>7 DEF Start, Doing
    <3> QED
      BY <1>3, <1>6, <3>1
  <2> QED
    BY <1>1, <1>8, <2>1, <2>2, <2>4, <2>5, <2>6, <2>7
    DEF Step, ProvisionSteps, Doing, Send, UndoChain, Kdelete, LookUp, DestroyFound, Look,
        DeleteVolumes, WaitForPods, LookAtCancelled, WaitInited, FollowWatch, StartHelper,
        CreateTheUser, DropTheUser, StopVolumeJob, StopTheJob, DeprovisionSelf
<1>9. Turns(p)
  BY <1>1, CodeTurns
<1> QED
  BY <1>1, <1>7, <1>8, <1>9 DEF Turns

LEMMA SmoothStep ==
  ASSUME IInv, Known, OInv, TInv, [Next]_vars
  PROVE  Smooth'
<1>1. env' = env /\ Handler' = Handler /\ Final(Handler)' = Final(Handler)
  BY RecordMoves
<1> SUFFICES ASSUME Calm', env.service \in RcsFirst, failures' = 0, crashed' = "no"
             PROVE  Going' /\ \A l \in Lots : jobs'[l] \in {"none", "creating", "done"}
  BY <1>1 DEF Smooth
<1>2. Calm /\ ~ClientDeprovisions
  BY StaysCalm
<1>3. failures = 0 /\ \A kinds : ~ACallFails(kinds)
  <2>1. failures \in Nat
    BY InstanceAssumption DEF IInv, TypeOK
  <2>2. failures' # failures + 1
    BY <2>1
  <2> QED
    BY <2>2, FailuresGrow DEF ACallFails
<1>4. ~Crash /\ crashed = "no"
  BY RecordMoves DEF Crash
<1>5. Going /\ \A l \in Lots : jobs[l] \in {"none", "creating", "done"}
  BY <1>2, <1>3, <1>4 DEF TInv, Smooth
<1>6. OnTrack
  BY <1>2, <1>5 DEF TInv, Track
<1>7. Going'
  <2>1. "provisioner" \in Routines
    BY DEF Routines
  <2>2. CASE Final(Handler) \in made
    BY <1>1, <1>2, <1>6, <2>2, MadeStays, NobodyUndoes DEF Going, OnTrack
  <2>3. CASE \E r \in Routines : Leads(r)
    <3>1. PICK r \in Routines : Leads(r)
      BY <2>3
    <3>2. code[r] # <<>> /\ r \in {"provisioner", "job", "helper", "helper2"}
      BY <1>2, <1>6, <3>1, NothingBrings, WhoWorks DEF Leads
    <3>3. Handler.run = <<>>
      BY <1>2, TheTables DEF IInv, Calm, Late, NeedsPods
    <3>4. r = "provisioner"
      BY <3>2, <3>3 DEF Known, JobOnly, Posters
    <3> QED
      BY <1>1, <1>2, <1>3, <1>4, <1>5, <1>6, <2>1, <3>1, <3>4, SmoothGoing DEF Going
  <2> QED
    BY <1>5, <2>2, <2>3 DEF Going
<1>8. ASSUME NEW l \in Lots
      PROVE  jobs'[l] \in {"none", "creating", "done"}
  <2>1. DOMAIN jobs = Lots /\ jobs[l] \in {"none", "creating", "done"}
    BY <1>5 DEF IInv, TypeOK
  <2>2. CASE \E k \in Lots : VolumeJob(k)
    <3>1. PICK k \in Lots : VolumeJob(k)
      BY <2>2
    <3>2. claims[k] # "gone" /\ jobs[k] \in {"none", "creating", "done"}
      BY <1>5, <1>6 DEF OnTrack
    <3>3. ~OneVolumeFails(k) /\ ~VolumesFail(k)
      BY <1>3, <3>2 DEF OneVolumeFails, VolumesFail
    <3> QED
      BY <2>1, <3>1, <3>3 DEF VolumeJob, CreateClaims, VolumesBound
  <2>3. CASE \E r \in Routines : AskForVolumes(r)
    BY <2>1, <2>3 DEF AskForVolumes
  <2> QED
    BY <1>2, <1>4, <1>6, <2>1, <2>2, <2>3, VolumesMove, NobodyUndoes
<1> QED
  BY <1>7, <1>8

LEMMA InitTrack ==
  ASSUME Init
  PROVE  TInv
<1>1. /\ code["provisioner"] = Handler.DoProvision /\ n["provisioner"] = 0
      /\ \A r \in Routines \ {"provisioner"} : code[r] = <<>>
      /\ "provisioner" \in Routines
      /\ made = {} /\ users = {"default"} /\ draining = {} /\ ~cancelled
      /\ jobs = [l \in Lots |-> "none"] /\ claims = [l \in Lots |-> "none"]
  BY DEF Init, Routines
<1>2. IInv
  BY InitInvariant
<1>3. IsHandler(Handler)
  BY <1>2, HandlerIsHandler DEF IInv
<1>4. UserIsLast
  BY <1>1 DEF UserIsLast
<1> SUFFICES ASSUME Late
             PROVE  OnTrack /\ Leads("provisioner")
  BY <1>1, <1>4 DEF TInv, Track, Smooth, Calm, Going
<1>5. IsOrderly(Handler)
  BY <1>2, TheTables DEF IInv, Late
<1>6. Straight(Handler.load, ProvisionSteps, Handler.DoProvision) /\ Handler.DoProvision # <<>>
  BY <1>3, <1>5 DEF IsHandler, WellFormed, IsOrderly
<1>7. \A step \in Steps(code["provisioner"]) : step.do \in ProvisionSteps
  BY <1>1, <1>6, StepsAreOfKind
<1>8. /\ Len(Handler.DoProvision) \in DOMAIN Handler.DoProvision
      /\ EndOf(Handler) = Handler.DoProvision[Len(Handler.DoProvision)]
  <2>1. /\ Len(Handler.DoProvision) \in Nat
        /\ DOMAIN Handler.DoProvision = 1..Len(Handler.DoProvision)
        /\ Len(Handler.DoProvision) # 0
    BY <1>6, StraightIsSeq
  <2> QED
    BY <2>1 DEF EndOf, LastOf
<1>9. Leads("provisioner")
  <2>1. EndOf(Handler) \in Steps(code["provisioner"])
    BY <1>1, <1>8 DEF Steps
  <2> QED
    BY <1>7, <2>1, UndoersDoNotLead DEF Leads
<1>10. ~Undoing("provisioner") /\ ~Undoing("job") /\ code["self"] = <<>>
  <2>1. ProvisionSteps \cap UndoSteps = {}
    BY DEF ProvisionSteps, UndoSteps
  <2> QED
    BY <1>1, <1>7, <2>1, NothingBrings DEF Undoing, Routines
<1>11. Handler.run # <<>> => EndOf(Handler).do = "start job"
  BY <1>5 DEF IsOrderly
<1>12. ASSUME NEW res \in Everything(Handler)
       PROVE  StillPosts("provisioner", res)
  <2>1. CASE res \in Brought(Handler.DoProvision)
    BY <1>1, <2>1, PostsFromTheStart DEF StillPosts
  <2>2. CASE res \in Brought(Handler.run)
    BY <1>1, <1>8, <1>11, <2>2, NothingBrings DEF StillPosts, Left
  <2> QED
    BY <2>1, <2>2 DEF Everything
<1>13. ASSUME NEW l \in VolumesOf(Handler)
       PROVE  StillAsks("provisioner", l)
  <2>1. CASE l \in LotsOf(Handler.DoProvision, "volumes")
    BY <1>1, <2>1 DEF StillAsks
  <2>2. CASE l \in LotsOf(Handler.run, "volumes")
    <3>1. EndOf(Handler) \in Having(code["provisioner"], "start job")
      BY <1>1, <1>8, <1>11, <2>2, NothingBrings DEF Having, Steps
    <3> QED
      BY <2>2, <3>1 DEF StillAsks
  <2> QED
    BY <2>1, <2>2 DEF VolumesOf
<1> QED
  BY <1>1, <1>9, <1>10, <1>12, <1>13 DEF OnTrack

-----------------------------------------------------------------------------
(* What holds when a verdict is given.                                     *)
VInv == IInv /\ Known /\ OInv /\ TInv

LEMMA VerdictMeans ==
  ASSUME VInv, Trusted, record = "yes", Verdict
  PROVE  /\ OnTrack /\ ~Blank
         /\ \A r \in Routines : code[r] = <<>>
         /\ Everything(Handler) \subseteq made
         /\ \A l \in VolumesOf(Handler) : claims[l] = "there"
         /\ \A l \in Lots : Steady(l)
<1>1. /\ IInv /\ Known /\ OInv /\ Late /\ (env.service \in RcsFirst => env.lag)
      /\ LastOperation \in {"succeeded", "failed"}
  BY DEF VInv, Trusted, VerdictIsLate, Late, Verdict
<1>2. ~Interrupted => failures = 0 /\ crashed = "no"
  BY InstanceAssumption, <1>1 DEF Interrupted, IInv, TypeOK
<1>3. Calm
  BY <1>1, <1>2 DEF Calm, Trusted
<1>4. Going
  <2>1. CASE env.service \in RcsFirst
    <3>1. failures = 0 /\ crashed = "no"
      BY <1>2, <2>1 DEF Trusted
    <3> QED
      BY <1>3, <2>1, <3>1 DEF VInv, TInv, Smooth
  <2>2. CASE env.service \notin RcsFirst
    <3>1. NeedsFinal(Handler) /\ Handler.DoLastOperation.must = {}
      BY <1>1, <2>2, TheTables DEF IInv, Late, WaitsForJobs
    <3>2. CASE Final(Handler) \in Handler.DoLastOperation.needs \cup Handler.DoLastOperation.ready
      BY <1>1, <3>1, <3>2, VerdictNeeds DEF Found, Going
    <3>3. CASE Handler.DoLastOperation.user /\ Final(Handler) = <<"HA", "service">>
      <4>1. "instance" \in users
        BY <1>1, <3>1, <3>3, VerdictNeeds
      <4> QED
        BY <1>3, <3>3, <4>1 DEF VInv, TInv, UserIsLast, Going
    <3> QED
      BY <3>1, <3>2, <3>3 DEF NeedsFinal
  <2> QED
    BY <2>1, <2>2
<1>5. OnTrack
  BY <1>3, <1>4 DEF VInv, TInv, Track
<1>6. /\ \A r \in Routines : ~Leads(r)
      /\ code["job"] = <<>>
      /\ \A l \in Lots : Steady(l)
  BY <1>1, VerdictEndsLeading
<1>7. Everything(Handler) \subseteq made
  BY <1>5, <1>6, PosterLeads DEF OnTrack
<1>8. \A l \in VolumesOf(Handler) : claims[l] = "there"
  BY <1>1, <1>5, <1>6, PosterLeads, VolumesAreLots DEF OnTrack
<1>9. ~Blank
  BY <1>1, NamesAreFound DEF Late
<1>10. ASSUME NEW r \in Routines
       PROVE  code[r] = <<>>
  <2> SUFFICES ASSUME code[r] # <<>>
               PROVE  FALSE
    OBVIOUS
  <2>1. r \in {"provisioner", "job", "helper", "helper2"} /\ Now(r) \in Steps(code[r])
    BY <1>1, <1>3, <1>5, WhoWorks
  <2>2. Now(r).do \in Repertoire(r)
    BY <1>1, ProgramOf DEF IInv
  <2>3. Now(r).do \notin Bringing
    BY <1>6, <2>1 DEF Leads
  <2>4. r \in {"provisioner", "helper", "helper2"}
    BY <1>6, <2>1
  <2>5. r = "provisioner" => Now(r).do \notin UndoSteps
    BY <1>5, <2>1 DEF OnTrack, Undoing
  <2> QED
    BY <2>2, <2>3, <2>4, <2>5, UndoersDoNotLead DEF Repertoire
<1> QED
  BY <1>5, <1>6, <1>7, <1>8, <1>9, <1>10

LEMMA VerdictStands ==
  ASSUME VInv, Trusted, record = "yes", record' = "yes", Verdict, [Next]_vars
  PROVE  LastOperation' = LastOperation
<1> DEFINE verdict == Handler.DoLastOperation
<1>1. /\ IInv /\ Handler' = Handler /\ Blank' = Blank
      /\ LastOperation \in {"succeeded", "failed"}
  BY RecordMoves DEF VInv, Verdict, Blank
<1>2. /\ draining = {} /\ ~Blank
      /\ \A r \in Routines : code[r] = <<>>
      /\ \A l \in Lots : Steady(l)
  BY VerdictMeans DEF OnTrack
<1>3. verdict.must = {}
  BY <1>1, TheTables DEF IInv, Trusted, VerdictIsLate, WaitsForJobs
<1>4. /\ LastOperation = "succeeded"
      /\ verdict.lots \cap listed = {}
      /\ \A res \in verdict.needs \cup verdict.ready : Found(res)
      /\ verdict.pods => verdict.ready \subseteq running \cup draining
      /\ verdict.user => "instance" \in users
  BY <1>1, <1>3, VerdictNeeds
<1>5. /\ made' = made /\ running \subseteq running' /\ users' = users
      /\ listed' \subseteq listed /\ code'["job"] = <<>>
  <2>1. \A r \in Routines : ~Step(r)
    BY <1>1, <1>2, StepMoves DEF IInv
  <2>2. ~DeleteRCs /\ ~ClientDeprovisions
    BY <1>2 DEF DeleteRCs, ClientDeprovisions
  <2>3. code["job"] = <<>> /\ "job" \in Routines
    BY <1>2 DEF Routines
  <2>4. ASSUME NEW l \in Lots, VolumeJob(l)
        PROVE  UNCHANGED <<made, running, users, code>> /\ listed' \subseteq listed
    <3>1. ~CreateClaims(l) /\ ~VolumesBound(l) /\ ~OneVolumeFails(l) /\ ~VolumesFail(l)
      BY <1>2 DEF Steady, CreateClaims, VolumesBound, OneVolumeFails, VolumesFail
    <3> QED
      BY <2>4, <3>1 DEF VolumeJob, clusterVars, programVars
  <2>5. ASSUME NEW g \in DOMAIN Handler.load, PodsRun(g)
        PROVE  /\ UNCHANGED <<made, users, code, listed>> /\ running \subseteq running'
    BY <2>5 DEF PodsRun, programVars, volumeVars
  <2>6. ASSUME Crash
        PROVE  /\ made' = made /\ running \subseteq running' /\ users' = users
               /\ listed' = {} /\ code'["job"] = <<>>
    <3>1. sent = {}
      BY <1>1, <1>2 DEF IInv, TypeOK, Doing, Posters, Routines
    <3> QED
      BY <2>3, <2>6, <3>1 DEF Crash
  <2>7. CASE UNCHANGED vars
    BY <2>3, <2>7 DEF vars, lifeVars, programVars, clusterVars, volumeVars
  <2> QED
    BY <2>1, <2>2, <2>3, <2>4, <2>5, <2>6, <2>7 DEF Next
<1>6. \A res \in verdict.needs \cup verdict.ready : Found(res)'
  BY <1>1, <1>4, <1>5 DEF Found
<1>7. verdict.pods => \A res \in verdict.ready : Up(res)'
  BY <1>2, <1>4, <1>5, <1>6 DEF Up
<1>8. LastOperation' = "succeeded"
  BY <1>1, <1>3, <1>4, <1>5, <1>6, <1>7 DEF LastOperation
<1> QED
  BY <1>4, <1>8

-----------------------------------------------------------------------------
(* Of every reachable state: what there is belongs to the instance, things *)
(* are posted in their order, and an instance on its way is complete or    *)
(* becomes so.                                                             *)
THEOREM VerdictInvariant == Spec => []VInv
<1>1. Init => VInv
  BY InitInvariant, InitKnown, InitOrder, InitTrack DEF VInv
<1>2. VInv /\ [Next]_vars => VInv'
  BY NextInvariant, KnownStep, OrderStep, TrackStep, UserIsLastStep, SmoothStep DEF VInv, TInv
<1> QED
  BY <1>1, <1>2, PTL DEF Spec

(* An instance reported as succeeded has everything its DoBind reads, and  *)
(* its volumes, for every service whose tables keep the conditions of      *)
(* ServiceTables (DoLastOperation and DoBind).                             *)
THEOREM SucceededHasAll == Spec => []SucceededIsBindable
<1>1. VInv => SucceededIsBindable
  <2> SUFFICES ASSUME VInv, Trusted, record = "yes", LastOperation = "succeeded"
               PROVE  /\ \A res \in Handler.DoBind : Found(res)
                      /\ \A l \in DOMAIN Handler.volumes : claims[l] = "there"
    BY DEF SucceededIsBindable
  <2>1. BindsWhatThereIs(Handler)
    BY TheTables DEF VInv, IInv, Trusted, VerdictIsLate
  <2> QED
    BY <2>1, VerdictMeans DEF Verdict, BindsWhatThereIs, Found
<1> QED
  BY <1>1, VerdictInvariant, PTL

(* A verdict of DoLastOperation stands as long as the instance does: the   *)
(* platform, which stops polling at the first, has missed nothing.         *)
THEOREM VerdictStaysFinal == Spec => VerdictIsFinal
<1> DEFINE Stands ==
      record = "yes" /\ record' = "yes" /\ Verdict /\ Trusted => LastOperation' = LastOperation
<1>1. VInv /\ [Next]_vars => [Stands]_vars
  BY VerdictStands
<1>2. Spec => [][Stands]_vars
  BY <1>1, VerdictInvariant, PTL DEF Spec
<1> QED
  BY <1>2 DEF VerdictIsFinal

-----------------------------------------------------------------------------
(* What becomes of a provisioning in which a call may be refused: it is    *)
(* being built, or somebody is going to undo all there is.                 *)
Undoable ==
  /\ env.faults \in {"none", "refused"} /\ env.service \notin NotUndone \cup NodePortKept
  /\ record # "gone"

Building ==
  /\ Steps(code["provisioner"]) \subseteq Steps(Handler.DoProvision)
  /\ Steps(code["job"]) \subseteq Steps(Handler.run)
  /\ ChainIsLast(code["provisioner"]) /\ GoIsLast(code["job"])
  /\ \A r \in {"helper", "helper2"} : code[r] # <<>> => Having(code["job"], "post") = {}
  /\ code["self"] = <<>> /\ draining = {} /\ ~cancelled
  /\ \A res \in PostedBy(Handler.DoProvision) :
       res \in made \/ Left(code["provisioner"], n["provisioner"], res, <<>>)
  /\ Having(code["provisioner"], "post") # {} =>
       \A res \in made :
         /\ Doing("provisioner", "post") /\ res \in got["provisioner"]
         /\ res \in All(Now("provisioner").group, Now("provisioner").chain)
  /\ \A l \in Lots : ~Steady(l) => l \in LotsOf(code["provisioner"], "volumes")

GivesUp(r) == Having(code[r], "deprovision") # {}
Abandoned == GivesUp("provisioner") \/ GivesUp("job")

(* Somebody is going to delete a resource, or a lot of volumes.            *)
Rids(res) ==
  \/ Abandoned \/ Seeks("self", res)
  \/ /\ Doing("provisioner", "undo") /\ res \in got["provisioner"]
     /\ res \in Of(Now("provisioner").group, Now("provisioner").fields)
Releases(l) == Abandoned \/ Frees("provisioner", l) \/ Frees("self", l)

Undone ==
  /\ \A step \in Steps(code["provisioner"]) \cup Steps(code["job"]) : step.do \in UndoSteps
  /\ code["helper"] = <<>> /\ code["helper2"] = <<>>
  /\ Abandoned \/ code["self"] # <<>> => ~Blank
  /\ StopsBeforeFreeing(code["self"])
  /\ \A res \in made \ draining : Rids(res)
  /\ \A l \in Lots : claims[l] = "there" \/ ~Steady(l) => Releases(l)
  /\ \A l \in Lots : ~Steady(l) => Abandoned \/ l \in LotsOf(code["self"], "stop volumes")

WayOut == Undoable => Building \/ Undone

(* The tables of those that undo.                                          *)
LEMMA TheUndoing ==
  ASSUME TypeOK, Undoable
  PROVE  Undoes(Handler) /\ IsThorough(Handler)
<1>1. env.service \in DOMAIN Handlers
  BY InstanceAssumption DEF TypeOK
<1> QED
  BY <1>1, TablesAssumption DEF Handler, Undoable

LEMMA UndoableMoves ==
  ASSUME IInv, [Next]_vars, Undoable'
  PROVE  /\ Undoable /\ ~ClientDeprovisions /\ ~Crash /\ env.faults # "any"
         /\ env' = env /\ Handler' = Handler /\ (Blank <=> Blank')
         /\ code["client"] = <<>> /\ \A kinds : kinds = {"any"} => ~ACallFails(kinds)
<1>1. env' = env /\ Handler' = Handler /\ record # "gone"
  BY RecordMoves DEF Undoable
<1>2. ~ClientDeprovisions /\ ~Crash
  BY <1>1 DEF ClientDeprovisions, Crash, Undoable
<1>3. env.faults # "any"
  BY <1>1 DEF Undoable
<1>4. Undoable
  BY <1>1 DEF Undoable
<1>5. code["client"] = <<>>
  BY <1>1 DEF IInv, Succession
<1>6. Blank <=> Blank'
  BY <1>1 DEF Blank
<1>7. \A kinds : kinds = {"any"} => ~ACallFails(kinds)
  BY <1>3 DEF ACallFails
<1> QED
  BY <1>1, <1>2, <1>3, <1>4, <1>5, <1>6, <1>7

(* What holds of all steps of a program holds of the rest.                 *)
LEMMA RestOfTheChain ==
  ASSUME IInv, NEW r \in Routines, code[r] # <<>>
  PROVE  /\ ChainIsLast(code[r]) =>
              /\ ChainIsLast(Tail(code[r]))
              /\ Now(r).do = "post" => /\ Having(Tail(code[r]), "post") = {}
                                       /\ LotsOf(code[r], "volumes") = {}
         /\ GoIsLast(code[r]) =>
              /\ GoIsLast(Tail(code[r]))
              /\ Now(r).do = "go" => Having(code[r], "post") = {}
         /\ StopsBeforeFreeing(code[r]) =>
              /\ StopsBeforeFreeing(Tail(code[r]))
              /\ Now(r).do = "delete volumes" => LotsOf(code[r], "stop volumes") = {}
<1> DEFINE p == code[r]
           rest == Tail(code[r])
<1>1. /\ Now(r) = p[1] /\ 1 \in DOMAIN p
      /\ \A i \in DOMAIN p : i \in Nat /\ i >= 1
      /\ \A i \in DOMAIN rest :
           i \in Nat /\ i >= 1 /\ i + 1 \in DOMAIN p /\ rest[i] = p[i + 1]
  BY ProgramOf DEF IInv
<1> HIDE DEF p, rest
<1>2. /\ \A i, j \in DOMAIN rest : (i + 1 = j + 1 => i = j) /\ (i + 1 < j + 1 => i < j)
      /\ \A i \in DOMAIN rest : i + 1 # 1
      /\ \A i \in DOMAIN p : ~(i < 1)
  BY <1>1
<1>3. ASSUME ChainIsLast(p)
      PROVE  /\ ChainIsLast(rest)
             /\ p[1].do = "post" => Having(rest, "post") = {} /\ LotsOf(p, "volumes") = {}
  <2>1. \A i, j \in DOMAIN p : p[j].do = "post" =>
          /\ p[i].do = "post" => i = j
          /\ p[i].do = "volumes" => i < j
    BY <1>3 DEF ChainIsLast
  <2>2. ChainIsLast(rest)
    BY <1>1, <1>2, <2>1 DEF ChainIsLast
  <2>3. ASSUME p[1].do = "post"
        PROVE  Having(rest, "post") = {} /\ LotsOf(p, "volumes") = {}
    <3>1. \A i \in DOMAIN rest : rest[i].do # "post"
      BY <1>1, <1>2, <2>1, <2>3
    <3>2. \A i \in DOMAIN p : p[i].do # "volumes"
      BY <1>1, <1>2, <2>1, <2>3
    <3> QED
      BY <3>1, <3>2 DEF Having, Steps, LotsOf
  <2> QED
    BY <2>2, <2>3
<1>4. ASSUME GoIsLast(p)
      PROVE  GoIsLast(rest) /\ (p[1].do = "go" => Having(p, "post") = {})
  <2>1. \A i, j \in DOMAIN p : p[i].do = "go" /\ p[j].do = "post" => j < i
    BY <1>4 DEF GoIsLast
  <2>2. GoIsLast(rest)
    BY <1>1, <1>2, <2>1 DEF GoIsLast
  <2>3. p[1].do = "go" => \A i \in DOMAIN p : p[i].do # "post"
    BY <1>1, <1>2, <2>1
  <2> QED
    BY <2>2, <2>3 DEF Having, Steps
<1>5. ASSUME NEW a, NEW b, \A i, j \in DOMAIN p : p[i].do = a /\ p[j].do = b => i < j
      PROVE  /\ \A i, j \in DOMAIN rest : rest[i].do = a /\ rest[j].do = b => i < j
             /\ p[1].do = b => \A i \in DOMAIN p : p[i].do # a
  BY <1>1, <1>2, <1>5
<1>6. ASSUME StopsBeforeFreeing(p)
      PROVE  /\ StopsBeforeFreeing(rest)
             /\ p[1].do = "delete volumes" => LotsOf(p, "stop volumes") = {}
  <2>1. \A i, j \in DOMAIN p : p[i].do = "stop volumes" /\ p[j].do = "delete volumes" => i < j
    BY <1>6 DEF StopsBeforeFreeing
  <2>2. /\ \A i, j \in DOMAIN rest :
               rest[i].do = "stop volumes" /\ rest[j].do = "delete volumes" => i < j
        /\ p[1].do = "delete volumes" => \A i \in DOMAIN p : p[i].do # "stop volumes"
    BY <1>5, <2>1
  <2> QED
    BY <2>2 DEF StopsBeforeFreeing, LotsOf, Having, Steps
<1> QED
  BY <1>1, <1>3, <1>4, <1>6 DEF p, rest

-----------------------------------------------------------------------------
(* Who works at a building, and what it takes for the building to go on.   *)
LEMMA WhoBuilds ==
  ASSUME IInv, Undoable, Building, code["client"] = <<>>, NEW r \in Routines, code[r] # <<>>
  PROVE  /\ r \in {"provisioner", "job", "helper", "helper2"}
         /\ Now(r) \in Steps(code[r]) /\ Now(r).do \in ProvisionSteps \cup RunSteps
         /\ r = "provisioner" => Now(r).do \in ProvisionSteps
         /\ r = "job" => Now(r).do \in RunSteps
         /\ r \in {"helper", "helper2"} => Now(r).do = "post"
<1>1. r \in {"provisioner", "job", "helper", "helper2"}
  BY DEF Building, Routines
<1>2. Now(r) \in Steps(code[r]) /\ Now(r).do \in Repertoire(r)
  BY ProgramOf DEF IInv
<1>3. /\ \A step \in Steps(Handler.DoProvision) : step.do \in ProvisionSteps
      /\ \A step \in Steps(Handler.run) : step.do \in RunSteps
  BY HandlerIsHandler, StepsAreOfKind DEF IInv, IsHandler, WellFormed
<1>4. r \in {"helper", "helper2"} => Now(r).do = "post"
  BY <1>2 DEF Repertoire
<1> QED
  BY <1>1, <1>2, <1>3, <1>4 DEF Building, ProvisionSteps

LEMMA OneProvisions ==
  ASSUME IInv, Undoable, Building, code["client"] = <<>>, code["provisioner"] # <<>>,
         NEW r \in Routines, code[r] # <<>>
  PROVE  r = "provisioner"
BY WhoBuilds DEF IInv, Succession

(* A helper that fails just ends.                                          *)
Proceeds(r) == Onward(r) \/ (r \in {"helper", "helper2"} /\ Branches(r))

LEMMA BuilderGoesOn ==
  ASSUME IInv, NEW r \in Routines, Step(r), Proceeds(r)
  PROVE  /\ code[r] # <<>> /\ code'[r] \in {code[r], Tail(code[r]), <<>>}
         /\ Steps(code'[r]) \subseteq Steps(code[r])
         /\ r \in {"provisioner", "job"} => Onward(r)
<1>1. CASE Onward(r)
  BY <1>1, GoesOn
<1>2. CASE r \in {"helper", "helper2"} /\ Branches(r)
  <2>1. code[r] # <<>> /\ DOMAIN code = Routines
    BY StepMoves DEF IInv, TypeOK
  <2>2. Now(r).else = <<>>
    BY <1>2, <2>1, ProgramOf DEF IInv, Programmed
  <2>3. code'[r] = <<>>
    BY <1>2, <2>1, <2>2 DEF Branches, Instead
  <2> QED
    BY <1>2, <2>1, <2>3, NothingBrings
<1> QED
  BY <1>1, <1>2 DEF Proceeds

(* The programs of a building.                                             *)
LEMMA ProgramsGoOn ==
  ASSUME IInv, [Next]_vars, Undoable', Building,
         \A r \in Routines : Step(r) => Proceeds(r)
  PROVE  /\ Steps(code'["provisioner"]) \subseteq Steps(code["provisioner"])
         /\ ChainIsLast(code'["provisioner"])
         /\ \/ Steps(code'["job"]) \subseteq Steps(code["job"]) /\ GoIsLast(code'["job"])
            \/ Start("provisioner") /\ code'["job"] = Handler.run
         /\ \A r \in {"helper", "helper2"} :
              code'[r] # <<>> => Having(code'["job"], "post") = {}
         /\ code'["self"] = <<>>
<1>1. {"provisioner", "job", "helper", "helper2", "self"} \subseteq Routines
  BY DEF Routines
<1>2. Undoable /\ ~ClientDeprovisions /\ ~Crash /\ code["client"] = <<>>
  BY UndoableMoves
<1>3. /\ ChainIsLast(code["provisioner"]) /\ GoIsLast(code["job"]) /\ code["self"] = <<>>
      /\ \A r \in {"helper", "helper2"} : code[r] # <<>> => Having(code["job"], "post") = {}
  BY DEF Building
<1>4. ChainIsLast(<<>>) /\ GoIsLast(<<>>)
  BY NothingBrings DEF ChainIsLast, GoIsLast
<1>5. /\ Steps(code'["provisioner"]) \subseteq Steps(code["provisioner"])
      /\ ChainIsLast(code'["provisioner"])
  <2>1. code'["provisioner"] = code["provisioner"] \/ Step("provisioner")
    BY <1>1, <1>2, CodeTurns DEF Turns
  <2> QED
    BY <1>1, <1>3, <1>4, <2>1, BuilderGoesOn, RestOfTheChain
<1>6. \/ Steps(code'["job"]) \subseteq Steps(code["job"]) /\ GoIsLast(code'["job"])
      \/ Start("provisioner") /\ code["job"] = <<>> /\ code'["job"] = Handler.run
  <2>1. \/ code'["job"] = code["job"] \/ Step("job")
        \/ Start("provisioner") /\ code["job"] = <<>> /\ code'["job"] = Handler.run
    BY <1>1, <1>2, CodeTurns DEF Turns
  <2> QED
    BY <1>1, <1>3, <1>4, <2>1, BuilderGoesOn, RestOfTheChain
<1>7. ASSUME NEW r \in {"helper", "helper2"}, code'[r] # <<>>
      PROVE  Having(code'["job"], "post") = {}
  <2>1. CASE code[r] # <<>>
    <3>1. code["provisioner"] = <<>>
      BY <1>7, <2>1 DEF IInv, Succession
    <3>2. ~Start("provisioner")
      BY <3>1 DEF Start, Doing
    <3>3. Having(code["job"], "post") = {}
      BY <1>3, <2>1
    <3> QED
      BY <1>6, <3>2, <3>3 DEF Having
  <2>2. CASE code[r] = <<>>
    <3>1. StartHelper("job")
      BY <1>1, <1>2, <1>7, <2>2, CodeTurns, StepMoves DEF Turns, IInv
    <3>2. code["job"] # <<>> /\ Now("job").do = "go"
      BY <3>1 DEF StartHelper, Doing
    <3>3. Having(code["job"], "post") = {}
      BY <1>1, <1>3, <3>2, RestOfTheChain
    <3> QED
      BY <1>6, <3>2, <3>3 DEF Having
  <2> QED
    BY <2>1, <2>2
<1>8. code'["self"] = <<>>
  <2>1. \A r \in {"provisioner", "job"} : ~DeprovisionSelf(r)
    BY <1>1, <1>2, WhoBuilds, BuildersOnlyBuild
  <2> QED
    BY <1>1, <1>2, <1>3, <2>1, CodeTurns, StepMoves DEF Turns, IInv
<1> QED
  BY <1>5, <1>6, <1>7, <1>8

(* What a building has, it keeps, and gets the rest.                       *)
LEMMA MadeGoesOn ==
  ASSUME IInv, [Next]_vars, Undoable', Building,
         \A r \in Routines : Step(r) => Proceeds(r)
  PROVE  /\ made \subseteq made' /\ draining' = {} /\ ~cancelled'
         /\ \A res \in PostedBy(Handler.DoProvision) :
              res \in made' \/ Left(code'["provisioner"], n'["provisioner"], res, <<>>)
<1>1. "provisioner" \in Routines /\ DOMAIN code = Routines
  BY DEF Routines, IInv, TypeOK
<1>2. Undoable /\ ~ClientDeprovisions /\ ~Crash /\ code["client"] = <<>>
  BY UndoableMoves
<1>3. \A r \in Routines : ~Deletes(r) /\ ~StopTheJob(r)
  BY <1>2, WhoBuilds, BuildersOnlyBuild
<1>4. made \subseteq made' /\ draining' = {} /\ ~cancelled'
  BY <1>3, MadeStays, CancelMoves DEF Building
<1>5. ASSUME NEW res, Left(code["provisioner"], n["provisioner"], res, <<>>)
      PROVE  res \in made' \/ Left(code'["provisioner"], n'["provisioner"], res, <<>>)
  <2>1. CASE Step("provisioner")
    <3>1. code["provisioner"] # <<>> /\ Onward("provisioner")
      BY <1>1, <2>1, BuilderGoesOn
    <3>2. ~StartHelper("provisioner")
      BY <1>1, <1>2, <3>1, WhoBuilds DEF StartHelper, Doing, ProvisionSteps
    <3>3. res \notin Brought(<<>>)
      BY NothingBrings
    <3> QED
      BY <1>1, <1>5, <3>1, <3>2, <3>3, LeftGoesOn
  <2>2. CASE ~Step("provisioner")
    <3>1. code'["provisioner"] = code["provisioner"]
      BY <1>1, <1>2, <2>2, CodeTurns DEF Turns
    <3>2. n'["provisioner"] = n["provisioner"]
      BY <1>1, <1>2, <2>2, StaysAlone
    <3> QED
      BY <1>5, <3>1, <3>2
  <2> QED
    BY <2>1, <2>2
<1> QED
  BY <1>4, <1>5 DEF Building

(* Before the chain is complete there is nothing but what it has posted.   *)
LEMMA ChainGoesOn ==
  ASSUME IInv, [Next]_vars, Undoable', Building,
         \A r \in Routines : Step(r) => Proceeds(r),
         Having(code'["provisioner"], "post") # {}, NEW res \in made'
  PROVE  (/\ Doing("provisioner", "post") /\ res \in got["provisioner"]
          /\ res \in All(Now("provisioner").group, Now("provisioner").chain))'
<1>1. /\ "provisioner" \in Routines /\ DOMAIN code = Routines
      /\ got \in [Routines -> SUBSET Resources]
  BY DEF Routines, IInv, TypeOK
<1>2. Undoable /\ ~ClientDeprovisions /\ ~Crash /\ code["client"] = <<>>
  BY UndoableMoves
<1>3. Having(code["provisioner"], "post") # {} /\ code["provisioner"] # <<>>
  <2>1. Steps(code'["provisioner"]) \subseteq Steps(code["provisioner"])
    BY ProgramsGoOn
  <2> QED
    BY <2>1, NothingBrings DEF Having
<1>4. \A x \in made :
        /\ Doing("provisioner", "post") /\ x \in got["provisioner"]
        /\ x \in All(Now("provisioner").group, Now("provisioner").chain)
  BY <1>3 DEF Building
<1>5. CASE ~Step("provisioner")
  <2>1. made' = made
    <3>1. \A r \in Routines : ~Deletes(r) /\ ~PostNext(r)
      <4>1. \A r \in Routines : PostNext(r) => code[r] # <<>> /\ Step(r)
        BY DEF PostNext, Doing, Step
      <4> QED
        BY <1>2, <1>3, <1>5, <4>1, OneProvisions, WhoBuilds, BuildersOnlyBuild
    <3>2. ~DeleteRCs
      BY DEF DeleteRCs, Building
    <3> QED
      BY <1>2, <3>1, <3>2, ClusterMoves
  <2>2. code'["provisioner"] = code["provisioner"]
    BY <1>1, <1>2, <1>5, CodeTurns DEF Turns
  <2>3. got'["provisioner"] = got["provisioner"]
    BY <1>1, <1>2, <1>5, StaysAlone
  <2> QED
    BY <1>4, <2>1, <2>2, <2>3 DEF Doing, Now
<1>6. CASE Step("provisioner")
  <2>1. Onward("provisioner")
    BY <1>1, <1>6, BuilderGoesOn
  <2>2. CASE UNCHANGED <<code, n, got, made>>
    BY <1>4, <2>2 DEF Doing, Now
  <2>3. CASE /\ Doing("provisioner", "post")
             /\ made' = made \cup {Posted("provisioner")}
             /\ IF n["provisioner"] + 1 = Len(Now("provisioner").chain)
                  THEN Continue("provisioner")
                  ELSE /\ UNCHANGED code
                       /\ got' = [got EXCEPT !["provisioner"] = @ \cup {Posted("provisioner")}]
    <3>1. n["provisioner"] + 1 # Len(Now("provisioner").chain)
      <4>1. ASSUME Continue("provisioner")
            PROVE  FALSE
        <5>1. code'["provisioner"] = Tail(code["provisioner"])
          BY <1>1, <4>1 DEF Continue
        <5> QED
          BY <1>1, <1>3, <2>3, <5>1, RestOfTheChain DEF Building, Doing
      <4> QED
        BY <2>3, <4>1
    <3>2. code' = code /\ got'["provisioner"] = got["provisioner"] \cup {Posted("provisioner")}
      BY <1>1, <2>3, <3>1
    <3>3. Posted("provisioner") \in All(Now("provisioner").group, Now("provisioner").chain)
      BY <1>1, <2>3, PostedIsBrought
    <3> QED
      BY <1>4, <2>3, <3>2, <3>3 DEF Doing, Now
  <2>4. CASE Now("provisioner").do # "post" /\ UNCHANGED made
    BY <1>4, <2>4 DEF Doing
  <2> QED
    BY <2>1, <2>2, <2>3, <2>4 DEF Onward, Start, StartHelper, Doing
<1> QED
  BY <1>5, <1>6

(* The provisioner waits for its volumes.                                  *)
LEMMA LotsGoOn ==
  ASSUME IInv, [Next]_vars, Undoable', Building,
         \A r \in Routines : Step(r) => Proceeds(r),
         NEW l \in Lots, ~Steady(l)'
  PROVE  l \in LotsOf(code'["provisioner"], "volumes")
<1>1. "provisioner" \in Routines /\ DOMAIN code = Routines
  BY DEF Routines, IInv, TypeOK
<1>2. Undoable /\ ~ClientDeprovisions /\ ~Crash /\ code["client"] = <<>>
  BY UndoableMoves
<1>3. CASE Steady(l)
  <2>1. PICK r \in Routines : AskForVolumes(r)
    BY <1>3, SteadyStays
  <2>2. /\ code[r] # <<>> /\ Now(r).do = "volumes" /\ code' = code
        /\ jobs' = [jobs EXCEPT ![Now(r).lot] = "creating"]
    BY <2>1 DEF AskForVolumes, Doing, programVars
  <2>3. l = Now(r).lot
    <3>1. l # Now(r).lot => jobs'[l] = jobs[l]
      BY <2>2 DEF IInv, TypeOK
    <3> QED
      BY <1>3, <3>1 DEF Steady
  <2>4. Now(r) \in Having(code[r], "volumes") /\ l \in LotsOf(code[r], "volumes")
    BY <1>2, <2>2, <2>3, WhoBuilds DEF Having, LotsOf
  <2>5. r # "job"
    <3>1. LotsOf(Handler.run, "volumes") = {}
      BY <1>2, TheUndoing DEF Undoes, IInv
    <3> QED
      BY <2>4, <3>1 DEF Building, LotsOf, Having
  <2>6. r = "provisioner"
    BY <1>2, <2>2, <2>5, WhoBuilds DEF RunSteps
  <2> QED
    BY <2>2, <2>4, <2>6
<1>4. CASE ~Steady(l)
  <2>1. PICK step \in Steps(code["provisioner"]) : step.do = "volumes" /\ step.lot = l
    BY <1>4 DEF Building, LotsOf, Having
  <2>2. CASE step \in Steps(code'["provisioner"])
    BY <2>1, <2>2 DEF LotsOf, Having
  <2>3. CASE step \notin Steps(code'["provisioner"])
    <3>1. Step("provisioner")
      BY <1>1, <1>2, <2>3, CodeTurns DEF Turns
    <3>2. Onward("provisioner") /\ code["provisioner"] # <<>>
      BY <1>1, <3>1, BuilderGoesOn
    <3>3. step = Now("provisioner") /\ code' # code
      <4>1. code'["provisioner"] \in {code["provisioner"], Tail(code["provisioner"])}
        BY <1>1, <3>1, <3>2, GoesOn
      <4> QED
        BY <1>1, <2>3, <3>2, <4>1, ProgramOf DEF IInv
    <3>4. jobs[l] = "done"
      BY <2>1, <3>2, <3>3 DEF Onward, Doing, Start, StartHelper
    <3> QED
      BY <1>4, <3>4 DEF Steady
  <2> QED
    BY <2>2, <2>3
<1> QED
  BY <1>3, <1>4

LEMMA BuildingGoesOn ==
  ASSUME IInv, [Next]_vars, Undoable', Building,
         \A r \in Routines : Step(r) => Proceeds(r)
  PROVE  Building'
<1>1. Handler' = Handler /\ Undoable
  BY UndoableMoves
<1>2. GoIsLast(Handler.run)
  BY <1>1, TheUndoing DEF Undoes, IInv
<1>3. /\ Steps(code["provisioner"]) \subseteq Steps(Handler.DoProvision)
      /\ Steps(code["job"]) \subseteq Steps(Handler.run)
  BY DEF Building
<1>4. /\ Steps(code'["provisioner"]) \subseteq Steps(code["provisioner"])
      /\ ChainIsLast(code'["provisioner"])
      /\ \/ Steps(code'["job"]) \subseteq Steps(code["job"]) /\ GoIsLast(code'["job"])
         \/ Start("provisioner") /\ code'["job"] = Handler.run
      /\ \A r \in {"helper", "helper2"} :
           code'[r] # <<>> => Having(code'["job"], "post") = {}
      /\ code'["self"] = <<>>
  BY ProgramsGoOn
<1>5. /\ draining' = {} /\ ~cancelled'
      /\ \A res \in PostedBy(Handler.DoProvision) :
           res \in made' \/ Left(code'["provisioner"], n'["provisioner"], res, <<>>)
  BY MadeGoesOn
<1>6. Having(code'["provisioner"], "post") # {} =>
        \A res \in made' :
          (/\ Doing("provisioner", "post") /\ res \in got["provisioner"]
           /\ res \in All(Now("provisioner").group, Now("provisioner").chain))'
  BY ChainGoesOn
<1>7. \A l \in Lots : ~Steady(l)' => l \in LotsOf(code'["provisioner"], "volumes")
  BY LotsGoOn
<1> QED
  BY <1>1, <1>2, <1>3, <1>4, <1>5, <1>6, <1>7 DEF Building

-----------------------------------------------------------------------------
(* A call that is refused ends a building: who gave it up undoes it.       *)

(* A job that gives up, or a provisioner without volumes, deprovisions.    *)
LEMMA BuildingAbandoned ==
  ASSUME IInv, [Next]_vars, Undoable', Building,
         NEW r \in {"provisioner", "job"}, Step(r), code[r] # <<>>,
         code'[r] = <<Deprovision>>, IsNamed(Handler),
         \A x \in Routines \ {r} : code[x] = <<>> /\ code'[x] = <<>>
  PROVE  Undone'
<1>1. {"provisioner", "job", "helper", "helper2", "self"} \subseteq Routines
  BY DEF Routines
<1>2. Steps(code'[r]) = {Deprovision} /\ Deprovision.do = "deprovision"
  BY DEF Steps, Deprovision
<1>3. Having(code'[r], "deprovision") # {}
  BY <1>2 DEF Having
<1>4. Abandoned'
  BY <1>3 DEF Abandoned, GivesUp
<1>5. ~Blank'
  BY NamedIsFound, UndoableMoves
<1>6. \A step \in Steps(code'["provisioner"]) \cup Steps(code'["job"]) : step.do \in UndoSteps
  <2>1. Steps(code'[r]) = {Deprovision} /\ Deprovision.do \in UndoSteps
    BY <1>2 DEF UndoSteps
  <2>2. \A x \in {"provisioner", "job"} \ {r} : Steps(code'[x]) = {}
    BY <1>1, NothingBrings
  <2>3. \A x \in {"provisioner", "job"} : \A step \in Steps(code'[x]) : step.do \in UndoSteps
    BY <2>1, <2>2
  <2> QED
    BY <2>3
<1>7. code'["helper"] = <<>> /\ code'["helper2"] = <<>> /\ code'["self"] = <<>>
  BY <1>1
<1>8. StopsBeforeFreeing(code'["self"])
  BY <1>7, NothingBrings DEF StopsBeforeFreeing
<1> QED
  BY <1>4, <1>5, <1>6, <1>7, <1>8 DEF Undone, Rids, Releases

(* A provisioner whose chain breaks off deletes what the chain has posted, *)
(* and the volumes.                                                        *)
LEMMA BuildingUndone ==
  ASSUME IInv, Known, [Next]_vars, Undoable', Building,
         Doing("provisioner", "post"), Branches("provisioner"),
         \A x \in Routines \ {"provisioner"} : code[x] = <<>> /\ code'[x] = <<>>
  PROVE  Undone'
<1> DEFINE post == Now("provisioner")
           else == post.else
<1>1. /\ {"provisioner", "job", "helper", "helper2", "self"} \subseteq Routines
      /\ DOMAIN code = Routines
  BY DEF Routines, IInv, TypeOK
<1>2. post \in Steps(code["provisioner"]) /\ post.do = "post" /\ code["provisioner"] # <<>>
  BY <1>1, ProgramOf DEF IInv, Doing
<1>3. /\ else # <<>> /\ else[1].do = "undo"
      /\ All(post.group, post.chain) \subseteq Of(else[1].group, else[1].fields)
      /\ VolumesOf(Handler) \subseteq LotsOf(else, "delete volumes")
      /\ Having(else, "deprovision") = {}
  <2>1. post \in Having(Handler.DoProvision, "post")
    BY <1>2 DEF Building, Having
  <2> QED
    BY <2>1, TheUndoing, UndoableMoves DEF Undoes, IInv
<1>4. /\ code'["provisioner"] = else /\ got' = got /\ made' = made /\ draining' = draining
      /\ jobs' = jobs /\ claims' = claims
  BY <1>1 DEF Branches, Instead, volumeVars
<1>5. Straight(Handler.load, UndoSteps, else)
  BY <1>1, <1>2 DEF IInv, Programmed, WellFormed, Branching
<1>6. Head(else) = else[1]
  BY <1>3, <1>5, RestIsStraight
<1>7. \A step \in Steps(else) : step.do \in UndoSteps
  BY <1>5, StepsAreOfKind
<1>8. \A x \in {"job", "helper", "helper2", "self"} : code'[x] = <<>>
  BY <1>1
<1> HIDE DEF else
<1>9. \A res \in made' : Rids(res)'
  <2> SUFFICES ASSUME NEW res \in made'
               PROVE  Rids(res)'
    OBVIOUS
  <2>1. res \in got["provisioner"] /\ res \in All(post.group, post.chain)
    <3>1. Having(code["provisioner"], "post") # {}
      BY <1>2 DEF Having
    <3> QED
      BY <1>4, <3>1 DEF Building
  <2>2. code'["provisioner"] # <<>> /\ Head(code'["provisioner"]) = else[1]
    BY <1>3, <1>4, <1>6
  <2> HIDE DEF post
  <2> QED
    BY <1>3, <1>4, <2>1, <2>2 DEF Rids, Doing, Now
<1>10. \A l \in Lots : Steady(l)
  <2>1. LotsOf(code["provisioner"], "volumes") = {}
    BY <1>1, <1>2, RestOfTheChain DEF Building
  <2> QED
    BY <2>1 DEF Building
<1>11. \A l \in Lots : claims'[l] = "there" => Frees("provisioner", l)'
  BY <1>3, <1>4 DEF Known, VolumesOnly, Frees
<1>12. ~Abandoned' /\ StopsBeforeFreeing(code'["self"])
  BY <1>3, <1>4, <1>8, NothingBrings DEF Abandoned, GivesUp, StopsBeforeFreeing
<1>13. \A l \in Lots : Steady(l)'
  BY <1>4, <1>10 DEF Steady
<1>14. \A step \in Steps(code'["provisioner"]) \cup Steps(code'["job"]) : step.do \in UndoSteps
  BY <1>4, <1>7, <1>8, NothingBrings
<1> QED
  BY <1>8, <1>9, <1>11, <1>12, <1>13, <1>14 DEF Undone, Releases

LEMMA BuildingEnds ==
  ASSUME IInv, Known, [Next]_vars, Undoable', Building,
         NEW r \in {"provisioner", "job"}, Step(r), Branches(r)
  PROVE  Undone'
<1>1. r \in Routines /\ DOMAIN code = Routines /\ {"provisioner", "job"} \subseteq Routines
  BY DEF Routines, IInv, TypeOK
<1>2. code[r] # <<>>
  BY <1>1, StepMoves DEF IInv
<1>3. Undoable /\ code["client"] = <<>> /\ Undoes(Handler)
  BY UndoableMoves, TheUndoing DEF IInv
<1>4. Now(r) \in Steps(code[r])
  BY <1>1, <1>2, ProgramOf DEF IInv
<1>5. code' = [code EXCEPT ![r] = Now(r).else]
  BY DEF Branches, Instead
<1>6. CASE r = "provisioner"
  <2>1. \A x \in Routines \ {r} : code[x] = <<>> /\ code'[x] = <<>>
    BY <1>1, <1>2, <1>3, <1>5, <1>6, OneProvisions
  <2>2. CASE Doing(r, "post")
    BY <1>6, <2>1, <2>2, BuildingUndone
  <2>3. CASE Doing(r, "volumes")
    <3>1. Now(r) \in Having(Handler.DoProvision, "volumes")
      BY <1>4, <1>6, <2>3 DEF Building, Having, Doing
    <3>2. Now(r).else = <<Deprovision>> /\ IsNamed(Handler)
      BY <1>3, <3>1 DEF Undoes
    <3> QED
      BY <1>1, <1>2, <1>5, <2>1, <3>2, BuildingAbandoned
  <2>4. ~Doing(r, "find")
    BY <1>1, <1>2, <1>3, <1>6, WhoBuilds DEF Doing, ProvisionSteps
  <2> QED
    BY <2>2, <2>3, <2>4 DEF Branches
<1>7. CASE r = "job"
  <2>1. Now(r) \in Steps(Handler.run) /\ code["provisioner"] = <<>>
    BY <1>2, <1>4, <1>7 DEF Building, IInv, Succession
  <2>2. ~Doing(r, "volumes")
    <3>1. Doing(r, "volumes") => Now(r).lot \in LotsOf(Handler.run, "volumes")
      BY <2>1 DEF Doing, LotsOf, Having
    <3> QED
      BY <1>3, <3>1 DEF Undoes
  <2>3. CASE Doing(r, "find") /\ ~ All(Now(r).group, Now(r).list) \subseteq made
    <3>1. All(Now(r).group, Now(r).list) \subseteq PostedBy(Handler.DoProvision)
      BY <1>3, <2>1, <2>3 DEF Undoes, Having, Doing
    <3>2. \A res \in PostedBy(Handler.DoProvision) : res \in made
      BY <2>1, NothingBrings DEF Building, Left
    <3> QED
      BY <2>3, <3>1, <3>2
  <2>4. CASE Doing(r, "post")
    <3>1. Now(r) \in Having(Handler.run, "post") /\ Now(r) \in Having(code[r], "post")
      BY <1>4, <2>1, <2>4 DEF Having, Doing
    <3>2. Now(r).else = <<Deprovision>> /\ IsNamed(Handler)
      BY <1>3, <3>1 DEF Undoes
    <3>3. code["helper"] = <<>> /\ code["helper2"] = <<>> /\ code["self"] = <<>>
      BY <1>7, <3>1 DEF Building
    <3>4. \A x \in Routines \ {r} : code[x] = <<>> /\ code'[x] = <<>>
      BY <1>1, <1>3, <1>5, <1>7, <2>1, <3>3 DEF Routines
    <3> QED
      BY <1>1, <1>2, <1>5, <3>2, <3>4, BuildingAbandoned
  <2> QED
    BY <2>2, <2>3, <2>4 DEF Branches
<1> QED
  BY <1>6, <1>7

(* Either way, a building goes on or is going to be undone.                *)
LEMMA BuildingMoves ==
  ASSUME IInv, Known, [Next]_vars, Undoable', Building
  PROVE  Building' \/ Undone'
<1>1. Undoable /\ code["client"] = <<>> /\ env.faults # "any"
  BY UndoableMoves
<1>2. ASSUME NEW r \in Routines, Step(r)
      PROVE  Onward(r) \/ Branches(r)
  <2>1. code[r] # <<>>
    BY <1>2, StepMoves DEF IInv
  <2> QED
    BY <1>1, <1>2, <2>1, WhoBuilds, OnwardOrNot DEF Building
<1>3. CASE \E r \in {"provisioner", "job"} : Step(r) /\ Branches(r)
  BY <1>3, BuildingEnds
<1>4. CASE \A r \in {"provisioner", "job"} : ~(Step(r) /\ Branches(r))
  <2>1. ASSUME NEW r \in Routines, Step(r)
        PROVE  Proceeds(r)
    <3>1. code[r] # <<>>
      BY <2>1, StepMoves DEF IInv
    <3> QED
      BY <1>1, <1>2, <1>4, <2>1, <3>1, WhoBuilds DEF Proceeds
  <2> QED
    BY <2>1, BuildingGoesOn
<1> QED
  BY <1>3, <1>4

-----------------------------------------------------------------------------
(* An undoing goes on until nothing is left.                               *)

(* What the provisioner or the job does that undoes.                       *)
LEMMA WhoUndoes ==
  ASSUME IInv, NEW r \in {"provisioner", "job"}, Step(r), Now(r).do \in UndoSteps
  PROVE  \/ DeprovisionSelf(r)
         \/ /\ Deletes(r) \/ LookUp(r) \/ DeleteVolumes(r)
            /\ Now(r).do # "deprovision"
            /\ code' = code \/ code' = [code EXCEPT ![r] = Tail(@)]
<1>1. ~Save(r) /\ ~Send(r) /\ ~PostNext(r) /\ ~Look(r) /\ ~AskForVolumes(r) /\ ~VolumesAnswered(r)
  BY DEF UndoSteps, Doing, Save, Send, PostNext, Look, AskForVolumes, VolumesAnswered
<1>2. ~Start(r) /\ ~WaitForPods(r) /\ ~LookAtCancelled(r) /\ ~WaitInited(r) /\ ~FollowWatch(r)
      /\ ~StartHelper(r) /\ ~CreateTheUser(r) /\ ~DropTheUser(r)
  BY DEF UndoSteps, Doing, Start, WaitForPods, LookAtCancelled, WaitInited, FollowWatch,
         StartHelper, CreateTheUser, DropTheUser
<1>3. ~StopVolumeJob(r) /\ ~StopTheJob(r)
  BY DEF UndoSteps, Doing, StopVolumeJob, StopTheJob
<1>4. Deletes(r) \/ LookUp(r) \/ DeleteVolumes(r) =>
        /\ Now(r).do # "deprovision"
        /\ code' = code \/ code' = [code EXCEPT ![r] = Tail(@)]
  BY DEF Deletes, UndoChain, Kdelete, DestroyFound, LookUp, DeleteVolumes, Doing, Continue
<1> QED
  BY <1>1, <1>2, <1>3, <1>4 DEF Step, Deletes

(* Without failures a deletion takes all it was asked for, and what the    *)
(* provisioner still undoes after a step, it has not come to.              *)
LEMMA UndoerTakes ==
  ASSUME IInv, NEW r \in Routines, env.faults # "any", NEW l \in Lots,
         Deletes(r) \/ LookUp(r) \/ DeleteVolumes(r)
  PROVE  /\ made' \ draining' \subseteq made \ draining
         /\ UndoChain(r) =>
              (made' \ draining') \cap got[r] \cap Of(Now(r).group, Now(r).fields) = {}
         /\ jobs' = jobs /\ (claims'[l] = "there" => claims[l] = "there")
         /\ Now(r).do = "delete volumes" /\ Now(r).lot = l => claims'[l] # "there"
<1>1. claims \in [Lots -> {"none", "there", "gone"}]
  BY DEF IInv, TypeOK
<1>2. CASE Deletes(r)
  <2>1. jobs' = jobs /\ claims' = claims /\ Now(r).do # "delete volumes"
    BY <1>2 DEF Deletes, UndoChain, Kdelete, DestroyFound, Doing, volumeVars
  <2>2. made' \ draining' \subseteq made \ draining
    BY <1>2, DeletionsTake
  <2>3. ASSUME UndoChain(r)
        PROVE  (made' \ draining') \cap got[r] \cap Of(Now(r).group, Now(r).fields) = {}
    <3>1. Delete(got[r] \cap Of(Now(r).group, Now(r).fields))
      BY <2>3 DEF UndoChain, DeleteAll, ACallFails
    <3> QED
      BY <3>1, DeletionTakes
  <2> QED
    BY <2>1, <2>2, <2>3
<1>3. CASE LookUp(r)
  <2>1. /\ jobs' = jobs /\ claims' = claims /\ made' = made /\ draining' = draining
        /\ Now(r).do = "remove"
    BY <1>3 DEF LookUp, Doing, volumeVars, clusterVars
  <2> QED
    BY <2>1 DEF UndoChain, Doing
<1>4. CASE DeleteVolumes(r)
  <2>1. /\ jobs' = jobs /\ made' = made /\ draining' = draining /\ Now(r).do = "delete volumes"
        /\ claims' = [claims EXCEPT ![Now(r).lot] = IF @ = "there" THEN "gone" ELSE @]
    BY <1>4 DEF DeleteVolumes, Doing, ACallFails, clusterVars
  <2>2. /\ claims'[l] = "there" => claims[l] = "there"
        /\ Now(r).lot = l => claims'[l] # "there"
    BY <1>1, <2>1
  <2> QED
    BY <2>1, <2>2 DEF UndoChain, Doing
<1> QED
  BY <1>2, <1>3, <1>4

(* Who undoes in the provisioner or in the job is alone.                   *)
LEMMA UndoerIsAlone ==
  ASSUME IInv, Undone, code["client"] = <<>>,
         NEW r \in {"provisioner", "job"}, code[r] # <<>>
  PROVE  /\ r \in Routines /\ Now(r) \in Steps(code[r]) /\ Now(r).do \in UndoSteps
         /\ \A x \in Routines \ {r} : code[x] = <<>>
         /\ Abandoned <=> GivesUp(r)
<1>1. r \in Routines /\ {"provisioner", "job"} \subseteq Routines
  BY DEF Routines
<1>2. Now(r) \in Steps(code[r])
  BY <1>1, ProgramOf DEF IInv
<1>3. \A x \in Routines \ {r} : code[x] = <<>>
  BY DEF IInv, Succession, Undone, Routines
<1>4. Abandoned <=> GivesUp(r)
  <2>1. \A x \in {"provisioner", "job"} \ {r} : ~GivesUp(x)
    BY <1>1, <1>3, NothingBrings DEF GivesUp
  <2> QED
    BY <2>1 DEF Abandoned
<1> QED
  BY <1>1, <1>2, <1>3, <1>4 DEF Undone

(* The handler calls its DoDeprovision, which has everything to undo.      *)
LEMMA UndoingHandsOver ==
  ASSUME IInv, Known, [Next]_vars, Undoable', Undone,
         NEW r \in {"provisioner", "job"}, DeprovisionSelf(r)
  PROVE  Undone'
<1>1. /\ Undoable /\ code["client"] = <<>> /\ ~Crash /\ (Blank <=> Blank')
      /\ Handler' = Handler /\ Undoes(Handler) /\ IsThorough(Handler)
  BY UndoableMoves, TheUndoing DEF IInv
<1>2. code[r] # <<>> /\ Now(r).do = "deprovision"
  BY DEF DeprovisionSelf, Doing
<1>3. /\ r \in Routines /\ Now(r) \in Steps(code[r])
      /\ \A x \in Routines \ {r} : code[x] = <<>>
  BY <1>1, <1>2, UndoerIsAlone
<1>4. /\ {"provisioner", "job", "helper", "helper2", "self"} \subseteq Routines
      /\ DOMAIN code = Routines /\ \A x \in Routines : code[x] = <<>> => n[x] = 0
  BY DEF Routines, IInv, TypeOK
<1>5. /\ code' = [code EXCEPT ![r] = Tail(@), !["self"] = Handler.DoDeprovision]
      /\ n' = n /\ made' = made /\ draining' = draining /\ jobs' = jobs /\ claims' = claims
  BY DEF DeprovisionSelf, clusterVars, volumeVars
<1>6. /\ code'["self"] = Handler.DoDeprovision /\ n'["self"] = 0
      /\ code'[r] = Tail(code[r])
      /\ \A x \in Routines \ {r, "self"} : code'[x] = <<>>
  BY <1>3, <1>4, <1>5
<1>7. ~Blank'
  <2>1. Abandoned
    BY <1>2, <1>3 DEF Abandoned, GivesUp, Having
  <2> QED
    BY <1>1, <2>1 DEF Undone
<1>8. \A step \in Steps(code'["provisioner"]) \cup Steps(code'["job"]) : step.do \in UndoSteps
  <2>1. Steps(code'[r]) \subseteq Steps(code[r])
    BY <1>2, <1>3, <1>6, ProgramOf DEF IInv
  <2>2. \A x \in {"provisioner", "job"} \ {r} : Steps(code'[x]) = {}
    BY <1>4, <1>6, NothingBrings
  <2>3. \A x \in {"provisioner", "job"} : \A step \in Steps(code'[x]) : step.do \in UndoSteps
    BY <2>1, <2>2 DEF Undone
  <2> QED
    BY <2>3
<1>9. StopsBeforeFreeing(code'["self"])
  BY <1>1, <1>6 DEF Undoes
<1>10. \A res \in made' : Rids(res)'
  <2> SUFFICES ASSUME NEW res \in made'
               PROVE  Rids(res)'
    OBVIOUS
  <2>1. res \in Removed(code'["self"])
    BY <1>1, <1>5, <1>6 DEF Known, BroughtOnly, IsThorough
  <2>2. Seeks("self", res)'
    BY <1>6, <2>1, SeeksFromTheStart
  <2> QED
    BY <2>2 DEF Rids
<1>11. ASSUME NEW l \in Lots, claims'[l] = "there" \/ ~Steady(l)'
       PROVE  Frees("self", l)' /\ l \in LotsOf(code'["self"], "stop volumes")
  <2>1. jobs[l] # "none"
    BY <1>5, <1>11 DEF Steady, Known, VolumesOnly
  <2>2. l \in VolumesOf(Handler)
    BY <2>1 DEF Known, VolumesOnly
  <2> QED
    BY <1>1, <1>6, <2>2 DEF Frees, IsThorough, Undoes
<1>12. code'["helper"] = <<>> /\ code'["helper2"] = <<>>
  BY <1>4, <1>6
<1> QED
  BY <1>7, <1>8, <1>9, <1>10, <1>11, <1>12 DEF Undone, Releases

(* Otherwise what was going to be undone is, or still is going to be.      *)
LEMMA UndoingAlone ==
  ASSUME IInv, Known, [Next]_vars, Undoable', Undone,
         NEW r \in {"provisioner", "job"}, Step(r), ~DeprovisionSelf(r)
  PROVE  Undone'
<1>1. /\ Undoable /\ code["client"] = <<>> /\ (Blank <=> Blank') /\ env.faults # "any"
  BY UndoableMoves
<1>2. /\ {"provisioner", "job", "helper", "helper2", "self"} \subseteq Routines
      /\ DOMAIN code = Routines
  BY DEF Routines, IInv, TypeOK
<1>3. code[r] # <<>>
  BY <1>2, StepMoves DEF IInv
<1>4. /\ r \in Routines /\ Now(r).do \in UndoSteps
      /\ \A x \in Routines \ {r} : code[x] = <<>>
      /\ Abandoned <=> GivesUp(r)
  BY <1>1, <1>3, UndoerIsAlone
<1>5. /\ Deletes(r) \/ LookUp(r) \/ DeleteVolumes(r)
      /\ Now(r).do # "deprovision"
      /\ code' = code \/ code' = [code EXCEPT ![r] = Tail(@)]
  BY <1>4, WhoUndoes
<1>6. /\ code'[r] = code[r] \/ code'[r] = Tail(code[r])
      /\ \A x \in Routines \ {r} : code'[x] = <<>>
  BY <1>2, <1>4, <1>5
<1>7. Steps(code[r]) = {Now(r)} \cup Steps(Tail(code[r]))
  BY <1>3, <1>4, ProgramOf DEF IInv
<1>8. \A step \in Steps(code'["provisioner"]) \cup Steps(code'["job"]) : step.do \in UndoSteps
  <2>1. Steps(code'[r]) \subseteq Steps(code[r])
    BY <1>6, <1>7
  <2>2. \A x \in {"provisioner", "job"} \ {r} : Steps(code'[x]) = {}
    BY <1>2, <1>6, NothingBrings
  <2>3. \A x \in {"provisioner", "job"} : \A step \in Steps(code'[x]) : step.do \in UndoSteps
    BY <2>1, <2>2 DEF Undone
  <2> QED
    BY <2>3
<1>9. Abandoned' <=> Abandoned
  <2>1. \A x \in {"provisioner", "job"} \ {r} : ~GivesUp(x)'
    BY <1>2, <1>6, NothingBrings DEF GivesUp
  <2>2. GivesUp(r)' <=> GivesUp(r)
    BY <1>5, <1>6, <1>7 DEF GivesUp, Having
  <2> QED
    BY <1>4, <2>1, <2>2 DEF Abandoned
<1>10. /\ code'["helper"] = <<>> /\ code'["helper2"] = <<>> /\ code'["self"] = <<>>
       /\ code["self"] = <<>>
  BY <1>2, <1>4, <1>6
<1>11. StopsBeforeFreeing(code'["self"])
  BY <1>10, NothingBrings DEF StopsBeforeFreeing
<1>12. ASSUME NEW res \in made' \ draining', ~Abandoned
       PROVE  FALSE
  <2>1. /\ res \in made \ draining
        /\ UndoChain(r) => res \notin got[r] \cap Of(Now(r).group, Now(r).fields)
    <3>1. PICK l \in Lots : l = 1
      BY DEF Lots
    <3> QED
      BY <1>1, <1>4, <1>5, <1>12, <3>1, UndoerTakes
  <2>2. ~Seeks("self", res)
    BY <1>10, NothingBrings DEF Seeks
  <2>3. /\ Doing("provisioner", "undo") /\ res \in got["provisioner"]
        /\ res \in Of(Now("provisioner").group, Now("provisioner").fields)
    BY <1>12, <2>1, <2>2 DEF Undone, Rids
  <2>4. r = "provisioner"
    BY <1>2, <1>4, <2>3 DEF Doing
  <2>5. UndoChain(r)
    BY <1>5, <2>3, <2>4 DEF Deletes, Kdelete, DestroyFound, LookUp, DeleteVolumes, Doing
  <2> QED
    BY <2>1, <2>3, <2>4, <2>5
<1>13. ASSUME NEW l \in Lots, claims'[l] = "there" \/ ~Steady(l)', ~Abandoned
       PROVE  Steady(l)' /\ Frees("provisioner", l)'
  <2>1. /\ jobs' = jobs /\ (claims'[l] = "there" => claims[l] = "there")
        /\ Now(r).do = "delete volumes" /\ Now(r).lot = l => claims'[l] # "there"
    BY <1>1, <1>4, <1>5, UndoerTakes
  <2>2. Steady(l) /\ Steady(l)'
    <3>1. LotsOf(code["self"], "stop volumes") = {}
      BY <1>10, NothingBrings
    <3> QED
      BY <1>13, <2>1, <3>1 DEF Undone, Steady
  <2>3. Frees("provisioner", l)
    <3>1. ~Frees("self", l)
      BY <1>10, NothingBrings DEF Frees
    <3> QED
      BY <1>13, <2>1, <2>2, <3>1 DEF Undone, Releases
  <2>4. PICK step \in Steps(code["provisioner"]) : step.do = "delete volumes" /\ step.lot = l
    BY <2>3 DEF Frees, LotsOf, Having
  <2>5. r = "provisioner"
    BY <1>2, <1>4, <2>4, NothingBrings
  <2>6. step # Now(r)
    BY <1>13, <2>1, <2>2, <2>4
  <2>7. step \in Steps(code'["provisioner"])
    BY <1>6, <1>7, <2>4, <2>5, <2>6
  <2> QED
    BY <2>2, <2>4, <2>7 DEF Frees, LotsOf, Having
<1>14. Abandoned' => ~Blank'
  BY <1>1, <1>9 DEF Undone
<1> QED
  BY <1>8, <1>9, <1>10, <1>11, <1>12, <1>13, <1>14 DEF Undone, Rids, Releases

(* The handler's own DoDeprovision goes on.                                *)
LEMMA SelfUndoes ==
  ASSUME IInv, Known, [Next]_vars, Undoable', Undone, Step("self")
  PROVE  Undone'
<1>1. /\ Undoable /\ (Blank <=> Blank') /\ env.faults # "any"
  BY UndoableMoves
<1>2. /\ {"provisioner", "job", "helper", "helper2", "self"} \subseteq Routines
      /\ DOMAIN code = Routines
      /\ claims \in [Lots -> {"none", "there", "gone"}]
  BY DEF Routines, IInv, TypeOK
<1>3. code["self"] # <<>>
  BY <1>2, StepMoves DEF IInv
<1>4. \A x \in {"provisioner", "job", "helper", "helper2"} : code[x] = <<>>
  BY <1>3 DEF IInv, Succession, Undone
<1>5. /\ ~Blank /\ StopsBeforeFreeing(code["self"])
      /\ Now("self") \in Steps(code["self"])
      /\ Steps(code["self"]) = {Now("self")} \cup Steps(Tail(code["self"]))
  BY <1>2, <1>3, ProgramOf DEF Undone, IInv
<1>6. \/ LookUp("self") \/ DestroyFound("self")
      \/ DeleteVolumes("self") \/ StopVolumeJob("self") \/ StopTheJob("self")
  BY UndoerDoes
<1>7. code' = code \/ code' = [code EXCEPT !["self"] = Tail(@)]
  BY <1>6 DEF LookUp, DestroyFound, DeleteVolumes, StopVolumeJob, StopTheJob, Continue
<1>8. /\ code'["self"] = code["self"] \/ code'["self"] = Tail(code["self"])
      /\ \A x \in {"provisioner", "job", "helper", "helper2"} : code'[x] = <<>>
  BY <1>2, <1>4, <1>7
<1>9. StopsBeforeFreeing(code'["self"])
  BY <1>2, <1>3, <1>5, <1>8, RestOfTheChain
<1>10. ~Abandoned /\ ~Abandoned'
  BY <1>4, <1>8, NothingBrings DEF Abandoned, GivesUp
<1>11. \A step \in Steps(code'["provisioner"]) \cup Steps(code'["job"]) : step.do \in UndoSteps
  BY <1>8, NothingBrings
<1>12. ASSUME NEW res \in made' \ draining'
       PROVE  Seeks("self", res)'
  <2>1. made' \ draining' \subseteq made \ draining
    <3>1. CASE DestroyFound("self")
      BY <1>2, <3>1, DeletionsTake DEF Deletes
    <3>2. CASE ~DestroyFound("self")
      BY <1>6, <3>2 DEF LookUp, DeleteVolumes, StopVolumeJob, StopTheJob, clusterVars
    <3> QED
      BY <3>1, <3>2
  <2>2. ~Doing("provisioner", "undo")
    BY <1>4 DEF Doing
  <2>3. Seeks("self", res)
    BY <1>10, <1>12, <2>1, <2>2 DEF Undone, Rids
  <2> QED
    BY <1>1, <1>5, <1>12, <2>3, SeekingGoesOn
<1>13. ASSUME NEW l \in Lots
       PROVE  /\ ~Steady(l)' => ~Steady(l)
              /\ claims'[l] = "there" => claims[l] = "there"
  <2>1. \A r \in Routines : ~AskForVolumes(r)
    <3> SUFFICES ASSUME NEW r \in Routines, AskForVolumes(r)
                 PROVE  FALSE
      OBVIOUS
    <3>1. r \in {"provisioner", "job", "helper", "helper2"} /\ code[r] # <<>>
      BY DoingLeads, UndoersDoNotLead DEF AskForVolumes, Doing
    <3> QED
      BY <1>4, <3>1
  <2>2. claims'[l] = "there" => claims[l] = "there"
    <3>1. CASE DeleteVolumes("self")
      BY <1>2, <3>1 DEF DeleteVolumes
    <3>2. CASE ~DeleteVolumes("self")
      BY <1>6, <3>2 DEF LookUp, DestroyFound, StopVolumeJob, StopTheJob, volumeVars
    <3> QED
      BY <3>1, <3>2
  <2> QED
    BY <2>1, <2>2, SteadyStays
<1>14. ASSUME NEW l \in Lots, ~Steady(l)'
       PROVE  /\ l \in LotsOf(code'["self"], "stop volumes")
              /\ Now("self").do # "delete volumes"
  <2>1. ~Steady(l) /\ l \in listed
    BY <1>13, <1>14 DEF Known, VolumesOnly
  <2>2. l \in LotsOf(code["self"], "stop volumes")
    BY <1>10, <2>1 DEF Undone
  <2>3. PICK step \in Steps(code["self"]) : step.do = "stop volumes" /\ step.lot = l
    BY <2>2 DEF LotsOf, Having
  <2>4. CASE step = Now("self")
    <3>1. StopVolumeJob("self")
      BY <1>6, <2>3, <2>4 DEF LookUp, DestroyFound, DeleteVolumes, StopTheJob, Doing
    <3>2. code' = code
      BY <2>1, <2>3, <2>4, <3>1 DEF StopVolumeJob
    <3> QED
      BY <2>2, <2>3, <2>4, <3>2
  <2>5. CASE step # Now("self")
    <3>1. step \in Steps(code'["self"])
      BY <1>5, <1>8, <2>3, <2>5
    <3>2. l \in LotsOf(code'["self"], "stop volumes")
      BY <2>3, <3>1 DEF LotsOf, Having
    <3>3. Now("self").do # "delete volumes"
      BY <1>2, <1>3, <1>5, <2>2, RestOfTheChain
    <3> QED
      BY <3>2, <3>3
  <2> QED
    BY <2>4, <2>5
<1>15. ASSUME NEW l \in Lots, claims'[l] = "there" \/ ~Steady(l)'
       PROVE  Frees("self", l)'
  <2>1. claims[l] = "there" \/ ~Steady(l)
    BY <1>13, <1>15
  <2>2. ~Frees("provisioner", l)
    BY <1>4, NothingBrings DEF Frees
  <2>3. Frees("self", l)
    BY <1>10, <2>1, <2>2 DEF Undone, Releases
  <2>4. claims'[l] = "there" \/ Now("self").do # "delete volumes"
    BY <1>14, <1>15
  <2> QED
    BY <1>1, <2>3, <2>4, FreeingGoesOn
<1>16. ~Blank'
  BY <1>1, <1>5
<1> QED
  BY <1>8, <1>9, <1>11, <1>12, <1>14, <1>15, <1>16 DEF Undone, Rids, Releases

(* The cluster and the volume jobs do not get in its way.                  *)
LEMMA ClusterLeavesUndone ==
  ASSUME IInv, Known, [Next]_vars, Undoable', Undone, \A r \in Routines : ~Step(r)
  PROVE  Undone'
<1>1. /\ Undoable /\ (Blank <=> Blank') /\ env.faults # "any" /\ ~Crash /\ ~ClientDeprovisions
      /\ \A kinds : kinds = {"any"} => ~ACallFails(kinds)
  BY UndoableMoves
<1>2. UNCHANGED <<code, n, got>>
  BY <1>1 DEF Next, VolumeJob, PodsRun, DeleteRCs, vars, lifeVars, programVars
<1>3. /\ \A res : Rids(res)' <=> Rids(res)
      /\ \A l : Releases(l)' <=> Releases(l)
      /\ Abandoned' <=> Abandoned
  BY <1>2 DEF Rids, Releases, Abandoned, GivesUp, Seeks, Frees, Doing, Now
<1>4. made' \ draining' \subseteq made \ draining
  <2>1. \A r \in Routines : ~PostNext(r) /\ ~Deletes(r)
    BY DEF Step, Deletes
  <2>2. DeleteRCs => made' = made \ draining /\ draining' = {}
    BY <1>1 DEF DeleteRCs
  <2> QED
    BY <1>1, <2>1, <2>2, ClusterMoves
<1>5. ASSUME NEW l \in Lots
      PROVE  /\ ~Steady(l)' => ~Steady(l)
             /\ claims'[l] = "there" => claims[l] = "there" \/ ~Steady(l)
  <2>1. \A r \in Routines : ~AskForVolumes(r) /\ ~StopVolumeJob(r) /\ ~DeleteVolumes(r)
    BY DEF Step
  <2>2. claims'[l] = "there" => claims[l] = "there" \/ ~Steady(l)
    <3>1. CASE UNCHANGED <<jobs, listed, claims>>
      BY <3>1
    <3>2. ASSUME NEW k \in Lots, VolumeJob(k)
          PROVE  claims'[l] = "there" => claims[l] = "there" \/ ~Steady(l)
      <4>1. CASE CreateClaims(k)
        <5>1. ~Steady(k) /\ (l # k => claims'[l] = claims[l])
          BY <4>1 DEF CreateClaims, Steady, IInv, TypeOK
        <5> QED
          BY <5>1
      <4>2. CASE ~CreateClaims(k)
        <5>1. claims' = claims
          BY <3>2, <4>2 DEF VolumeJob, VolumesBound, OneVolumeFails, VolumesFail
        <5> QED
          BY <5>1
      <4> QED
        BY <4>1, <4>2
    <3> QED
      BY <1>1, <2>1, <3>1, <3>2, VolumesMove
  <2> QED
    BY <2>1, <2>2, SteadyStays
<1> QED
  BY <1>1, <1>2, <1>3, <1>4, <1>5 DEF Undone

LEMMA UndoneGoesOn ==
  ASSUME IInv, Known, [Next]_vars, Undoable', Undone
  PROVE  Undone'
<1>1. code["client"] = <<>>
  BY UndoableMoves
<1>2. ASSUME NEW r \in Routines, Step(r)
      PROVE  r \in {"provisioner", "job", "self"}
  <2>1. code[r] # <<>>
    BY <1>2, StepMoves DEF IInv
  <2> QED
    BY <1>1, <2>1 DEF Undone, Routines
<1> QED
  BY <1>2, UndoingHandsOver, UndoingAlone, SelfUndoes, ClusterLeavesUndone

LEMMA WayOutStep ==
  ASSUME IInv, Known, WayOut, [Next]_vars
  PROVE  WayOut'
<1> SUFFICES ASSUME Undoable'
             PROVE  Building' \/ Undone'
  BY DEF WayOut
<1>1. Building \/ Undone
  BY UndoableMoves DEF WayOut
<1> QED
  BY <1>1, BuildingMoves, UndoneGoesOn

LEMMA InitWayOut ==
  ASSUME Init
  PROVE  WayOut
<1>1. /\ code["provisioner"] = Handler.DoProvision /\ n["provisioner"] = 0
      /\ \A r \in Routines \ {"provisioner"} : code[r] = <<>>
      /\ {"provisioner", "job", "helper", "helper2", "self"} \subseteq Routines
      /\ made = {} /\ draining = {} /\ ~cancelled
      /\ \A l \in Lots : jobs[l] = "none"
  BY DEF Init, Routines
<1>2. IInv
  BY InitInvariant
<1> SUFFICES ASSUME Undoable
             PROVE  Building
  BY DEF WayOut
<1>3. ChainIsLast(code["provisioner"])
  BY <1>1, <1>2, TheUndoing DEF Undoes, IInv
<1>4. Steps(code["job"]) = {} /\ GoIsLast(code["job"])
  BY <1>1, NothingBrings DEF GoIsLast
<1>5. \A res \in PostedBy(Handler.DoProvision) :
        Left(code["provisioner"], n["provisioner"], res, <<>>)
  BY <1>1, PostsFromTheStart DEF Brought
<1>6. \A l \in Lots : Steady(l)
  BY <1>1 DEF Steady
<1> QED
  BY <1>1, <1>3, <1>4, <1>5, <1>6 DEF Building

(* Of every reachable state with calls that are refused: the provisioning  *)
(* goes on and has or will post all of its chain, or it is given up and    *)
(* everything that exists is still going to be deleted (the error branches *)
(* of DoProvision and run).                                                *)
OutcomeInv == IInv /\ Known /\ WayOut

THEOREM OutcomeInvariant == Spec => []OutcomeInv
<1>1. Init => OutcomeInv
  BY InitInvariant, InitKnown, InitWayOut DEF OutcomeInv
<1>2. OutcomeInv /\ [Next]_vars => OutcomeInv'
  BY NextInvariant, KnownStep, WayOutStep DEF OutcomeInv
<1> QED
  BY <1>1, <1>2, PTL DEF Spec

(* A provisioning that is refused is undone: at rest there is all of what  *)
(* DoProvision posts, or nothing, for every service whose error branches   *)
(* keep the conditions of ServiceTables (DoProvision).                     *)
THEOREM RefusedIsUndone == Spec => []AllOrNothing
<1>1. OutcomeInv => AllOrNothing
  <2> SUFFICES ASSUME OutcomeInv, Undoable, Quiet
               PROVE  Clean \/ Own \subseteq made
    BY DEF AllOrNothing, Undoable
  <2>1. /\ \A r \in {"provisioner", "job", "self"} : code[r] = <<>>
        /\ draining = {}
    BY DEF Quiet, Routines
  <2>2. CASE Building
    <3>1. PostedBy(Handler.DoProvision) \subseteq made
      BY <2>1, <2>2, NothingBrings DEF Building, Left
    <3>2. DOMAIN Handler.DoProvision = 1..Len(Handler.DoProvision)
      BY HandlerIsHandler, StraightIsSeq DEF OutcomeInv, IInv, IsHandler, WellFormed
    <3>3. Own \subseteq PostedBy(Handler.DoProvision)
      BY <3>2 DEF Own, Chains, PostedBy, Having, Steps
    <3> QED
      BY <3>1, <3>3
  <2>3. CASE Undone
    <3>1. ~Abandoned
      BY <2>1, NothingBrings DEF Abandoned, GivesUp
    <3>2. \A res : ~Rids(res)
      BY <2>1, <3>1, NothingBrings DEF Rids, Seeks, Doing
    <3>3. \A l : ~Releases(l)
      BY <2>1, <3>1, NothingBrings DEF Releases, Frees
    <3> QED
      BY <2>1, <2>3, <3>2, <3>3 DEF Undone, Clean
  <2> QED
    BY <2>2, <2>3 DEF OutcomeInv, WayOut
<1> QED
  BY <1>1, OutcomeInvariant, PTL
=============================================================================
