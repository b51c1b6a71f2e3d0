------------------------ MODULE ServiceInstanceProofs ------------------------
(***************************************************************************)
(* Proofs about ServiceInstance for every table of well-formed handlers    *)
(* (IsHandler), any number of failing calls, and any surroundings: that    *)
(* its goroutines stay within their programs, and that they ask for their  *)
(* volumes as VolumeJobContract has it.                                    *)
(***************************************************************************)
EXTENDS ServiceInstance, SequenceTheorems, TLAPS

-----------------------------------------------------------------------------
(* The inductive invariant.                                                *)

(* What a goroutine may be made to do.                                     *)
Repertoire(r) ==
  CASE r = "provisioner" -> ProvisionSteps \cup UndoSteps
    [] r = "job" -> RunSteps \cup UndoSteps
    [] r \in {"helper", "helper2"} -> {"post"}
    [] OTHER -> DeprovisionSteps

(* What is still to be done by a goroutine is a program it can execute.    *)
Programmed ==
  \A r \in Routines :
    /\ WellFormed(Handler.load, Repertoire(r), code[r])
    /\ \A step \in Steps(code[r]) :
         /\ step.do = "volumes" => r = Asker(step.lot)
         /\ r \in {"helper", "helper2"} => step.else = <<>>

(* Who can still start a goroutine finds it idle: nobody is started while  *)
(* it runs.                                                                *)
Succession ==
  /\ code["provisioner"] # <<>> =>
       \A r \in {"job", "helper", "helper2", "self"} : code[r] = <<>>
  /\ code["job"] # <<>> => code["self"] = <<>>
  /\ \A step \in Steps(code["job"]) : step.do = "go" => code[step.helper] = <<>>
  /\ \A step \in Steps(code["provisioner"]) :
       step.do \in {"saved", "saved blank"} => record = "no"
  /\ record # "gone" => code["client"] = <<>>

(* Only chains and lists are counted, and the count is short of their end. *)
Counted ==
  \A r \in Routines :
    /\ n[r] > 0 => Doing(r, "post") \/ Doing(r, "remove")
    /\ Doing(r, "post") => n[r] < Len(Now(r).chain)

(* Pods belong to RCs and deployment configs, and are going once these are *)
(* scaled down.                                                            *)
PodsOfRCs ==
  /\ running \cap draining = {}
  /\ \A res \in running \cup draining : Kind(res) \in {Rc, Dc}

IInv == TypeOK /\ Programmed /\ Succession /\ Counted /\ PodsOfRCs

-----------------------------------------------------------------------------
(* Programs.                                                               *)

(* What is left of a program is a program, and its first step is one that  *)
(* the goroutine can take.                                                 *)
LEMMA RestIsStraight ==
  ASSUME NEW load, NEW kinds, NEW p, Straight(load, kinds, p), p # <<>>
  PROVE  /\ Straight(load, kinds, Tail(p))
         /\ Steps(Tail(p)) \subseteq Steps(p)
         /\ Head(p) \in Steps(p) /\ Head(p).do \in kinds /\ Loaded(load, Head(p))
         /\ Head(p) = p[1] /\ 1 \in DOMAIN p
         /\ \A i \in DOMAIN Tail(p) :
              i + 1 \in DOMAIN p /\ i + 1 # 1 /\ Tail(p)[i] = p[i + 1]
         /\ Len(p) = 1 => Tail(p) = <<>>
<1> DEFINE S == {step \in Steps(p) : step.do \in kinds /\ Loaded(load, step)}
           T == {step \in Steps(Tail(p)) : step.do \in kinds /\ Loaded(load, step)}
<1>1. p \in Seq(S)
  BY DEF Straight
<1> HIDE DEF S
<1>2. /\ Head(p) = p[1] /\ Head(p) \in S /\ Len(p) \in Nat /\ Len(p) > 0 /\ DOMAIN p = 1..Len(p)
      /\ Tail(p) \in Seq(S) /\ Len(Tail(p)) = Len(p) - 1
      /\ DOMAIN Tail(p) = 1..Len(Tail(p))
      /\ \A i \in 1..Len(Tail(p)) : Tail(p)[i] = p[i + 1]
  BY <1>1
<1>3. \A i \in DOMAIN Tail(p) : i + 1 \in DOMAIN p /\ i + 1 # 1 /\ Tail(p)[i] = p[i + 1]
  BY <1>2
<1>9. Len(p) = 1 => Tail(p) = <<>>
  <2>1. Len(p) = 1 => Len(Tail(p)) = 0
    BY <1>2
  <2> QED
    BY <1>2, <2>1, EmptySeq
<1>4. Steps(Tail(p)) \subseteq Steps(p)
  BY <1>3 DEF Steps
<1>5. \A i \in DOMAIN Tail(p) : Tail(p)[i] \in T
  <2> TAKE i \in DOMAIN Tail(p)
  <2>1. Tail(p)[i] \in S
    BY <1>2
  <2> QED
    BY <2>1 DEF S, Steps
<1> HIDE DEF T
<1>6. Tail(p) \in Seq(T)
  <2>1. Tail(p) \in [1..Len(Tail(p)) -> S] /\ Len(Tail(p)) \in Nat
    BY <1>2, LenProperties
  <2>2. Tail(p) \in [1..Len(Tail(p)) -> T]
    BY <2>1, <1>5
  <2> QED
    BY <2>1, <2>2, SeqDef
<1>7. /\ \A i, j \in DOMAIN Tail(p) : Alike(Tail(p)[i], Tail(p)[j]) => i = j
      /\ \A i \in DOMAIN Tail(p) :
           Tail(p)[i].do \in {"start job", "deprovision"} => i = Len(Tail(p))
  <2>1. \A i \in DOMAIN Tail(p) : i \in Nat
    BY <1>2
  <2>2. /\ \A i, j \in DOMAIN p : Alike(p[i], p[j]) => i = j
        /\ \A i \in DOMAIN p : p[i].do \in {"start job", "deprovision"} => i = Len(p)
    BY DEF Straight
  <2>3. ASSUME NEW i \in DOMAIN Tail(p), NEW j \in DOMAIN Tail(p),
               Alike(Tail(p)[i], Tail(p)[j])
        PROVE  i = j
    <3>1. i + 1 = j + 1
      BY <2>2, <2>3, <1>3
    <3> QED
      BY <3>1, <2>1
  <2>4. ASSUME NEW i \in DOMAIN Tail(p), Tail(p)[i].do \in {"start job", "deprovision"}
        PROVE  i = Len(Tail(p))
    <3>1. i + 1 = Len(p)
      BY <2>2, <2>4, <1>3
    <3> QED
      BY <3>1, <2>1, <1>2
  <2> QED
    BY <2>3, <2>4
<1>8. Straight(load, kinds, Tail(p))
  BY <1>6, <1>7 DEF Straight, T
<1> QED
  BY <1>2, <1>3, <1>4, <1>8, <1>9 DEF S

LEMMA RestIsWellFormed ==
  ASSUME NEW load, NEW kinds, NEW p, WellFormed(load, kinds, p), p # <<>>
  PROVE  WellFormed(load, kinds, Tail(p))
BY RestIsStraight DEF WellFormed

LEMMA NothingIsWellFormed ==
  ASSUME NEW load, NEW kinds
  PROVE  WellFormed(load, kinds, <<>>) /\ Steps(<<>>) = {}
<1>1. Steps(<<>>) = {}
  BY DEF Steps
<1>2. DOMAIN <<>> = {} /\ \A S : <<>> \in Seq(S)
  OBVIOUS
<1> QED
  BY <1>1, <1>2 DEF WellFormed, Straight

(* A program within one repertoire is within a larger one; and one that    *)
(* does not branch is well-formed.                                         *)
LEMMA LargerRepertoire ==
  ASSUME NEW load, NEW kinds, NEW more, kinds \subseteq more, NEW p
  PROVE  /\ WellFormed(load, kinds, p) => WellFormed(load, more, p)
         /\ Straight(load, UndoSteps, p) => WellFormed(load, UndoSteps, p)
<1>1. Straight(load, kinds, p) => Straight(load, more, p)
  <2> DEFINE S(k) == {step \in Steps(p) : step.do \in k /\ Loaded(load, step)}
  <2>1. S(kinds) \subseteq S(more)
    OBVIOUS
  <2>2. p \in Seq(S(kinds)) => p \in Seq(S(more))
    <3> HIDE DEF S
    <3> QED
      BY <2>1
  <2> QED
    BY <2>2 DEF Straight
<1>2. ASSUME Straight(load, UndoSteps, p), NEW step \in Steps(p)
      PROVE  step.do \in UndoSteps
  <2> DEFINE S == {s \in Steps(p) : s.do \in UndoSteps /\ Loaded(load, s)}
  <2>1. p \in Seq(S)
    BY <1>2 DEF Straight
  <2>2. PICK i \in DOMAIN p : step = p[i]
    BY DEF Steps
  <2>3. step \in S
    <3> HIDE DEF S
    <3> QED
      BY <2>1, <2>2
  <2> QED
    BY <2>3
<1> QED
  BY <1>1, <1>2 DEF WellFormed, UndoSteps, Branching

-----------------------------------------------------------------------------
(* Goroutines.                                                             *)
Follows(r, q) ==
  \/ q \in {code[r], Tail(code[r]), <<>>}
  \/ Now(r).do \in Branching /\ q = Now(r).else

Becomes(r, q) ==
  /\ DOMAIN code' = Routines
  /\ code'[r] = q
  /\ \A s \in Routines \ {r} : code'[s] = code[s]

HandsOver(r) == Start(r) \/ StartHelper(r) \/ DeprovisionSelf(r)

(* The handler of the instance is one of those that are well-formed.       *)
LEMMA HandlerIsHandler ==
  ASSUME TypeOK
  PROVE  IsHandler(Handler)
BY InstanceAssumption DEF TypeOK, Handler

(* A step stays within the program, or hands over to another goroutine.    *)
LEMMA StepMoves ==
  ASSUME TypeOK, NEW r \in Routines, Step(r)
  PROVE  /\ code[r] # <<>> /\ env' = env
         /\ HandsOver(r) \/ \E q : Follows(r, q) /\ Becomes(r, q)
         /\ record' = record \/ (Save(r) /\ record' = "yes" /\ Becomes(r, Tail(code[r])))
<1> DEFINE Stays == \E q : Follows(r, q) /\ Becomes(r, q)
<1>1. DOMAIN code = Routines
  BY DEF TypeOK
<1>2. UNCHANGED code => Stays
  BY <1>1 DEF Follows, Becomes
<1>3. /\ Continue(r) => Stays /\ Becomes(r, Tail(code[r]))
      /\ Leave(r) => Stays
  BY <1>1 DEF Follows, Becomes, Continue, Leave, Instead
<1>4. Now(r).do \in Branching /\ Instead(r, Now(r).else) => Stays
  BY <1>1 DEF Follows, Becomes, Instead
<1> HIDE DEF Stays
<1>5. CASE Save(r)
  BY <1>3, <1>5 DEF Save, Doing, Stays
<1>6. CASE Send(r)
  BY <1>2, <1>3, <1>6 DEF Send, Doing, Stays
<1>7. CASE PostNext(r)
  <2>1. Now(r).do \in Branching /\ code[r] # <<>>
    BY <1>7 DEF PostNext, Doing, Branching
  <2>2. UNCHANGED code \/ Continue(r) \/ Instead(r, Now(r).else)
    BY <1>7 DEF PostNext
  <2>3. env' = env /\ record' = record
    BY <1>7 DEF PostNext
  <2> QED
    BY <2>1, <2>2, <2>3, <1>2, <1>3, <1>4 DEF Stays
<1>8. CASE UndoChain(r) \/ Kdelete(r) \/ LookUp(r) \/ DestroyFound(r)
  <2>1. code[r] # <<>> /\ env' = env /\ record' = record /\ (UNCHANGED code \/ Continue(r))
    BY <1>8 DEF UndoChain, Kdelete, LookUp, DestroyFound, Doing
  <2> QED
    BY <2>1, <1>2, <1>3 DEF Stays
<1>9. CASE Look(r)
  <2>1. Now(r).do \in Branching
    BY <1>9 DEF Look, Doing, Branching
  <2> QED
    BY <2>1, <1>3, <1>4, <1>9 DEF Look, Doing, Stays
<1>10. CASE AskForVolumes(r)
  BY <1>2, <1>10 DEF AskForVolumes, Doing, Stays, programVars
<1>11. CASE VolumesAnswered(r)
  <2>1. Now(r).do \in Branching
    BY <1>11 DEF VolumesAnswered, Doing, Branching
  <2> QED
    BY <2>1, <1>3, <1>4, <1>11 DEF VolumesAnswered, Doing, Stays
<1>12. CASE DeleteVolumes(r)
  BY <1>3, <1>12 DEF DeleteVolumes, Doing, Stays
<1>13. CASE WaitForPods(r) \/ LookAtCancelled(r) \/ WaitInited(r)
  BY <1>3, <1>13 DEF WaitForPods, LookAtCancelled, WaitInited, Doing, Stays
<1>14. CASE FollowWatch(r)
  <2>1. Now(r).do \in Branching
    BY <1>14 DEF FollowWatch, Doing, Branching
  <2> QED
    BY <2>1, <1>3, <1>4, <1>14 DEF FollowWatch, Doing, Stays
<1>15. CASE CreateTheUser(r) \/ DropTheUser(r)
  BY <1>2, <1>3, <1>15 DEF CreateTheUser, DropTheUser, Doing, Stays
<1>16. CASE StopVolumeJob(r) \/ StopTheJob(r)
  BY <1>2, <1>3, <1>16 DEF StopVolumeJob, StopTheJob, Doing, Stays
<1>17. CASE HandsOver(r)
  BY <1>17 DEF HandsOver, Start, StartHelper, DeprovisionSelf, Doing
<1> QED
  BY <1>5, <1>6, <1>7, <1>8, <1>9, <1>10, <1>11, <1>12, <1>13, <1>14, <1>15, <1>16, <1>17
  DEF Step, HandsOver, Stays

(* What follows a step is still a program of the goroutine.                *)
LEMMA FollowsWellFormed ==
  ASSUME Programmed, NEW r \in Routines, code[r] # <<>>, NEW q, Follows(r, q)
  PROVE  /\ WellFormed(Handler.load, Repertoire(r), q)
         /\ \A step \in Steps(q) :
              \/ step \in Steps(code[r])
              \/ step.do \in UndoSteps /\ r \in {"provisioner", "job"}
<1>1. WellFormed(Handler.load, Repertoire(r), code[r])
  BY DEF Programmed
<1>2. /\ Straight(Handler.load, Repertoire(r), code[r])
      /\ Now(r) \in Steps(code[r]) /\ Now(r).do \in Repertoire(r)
      /\ Steps(Tail(code[r])) \subseteq Steps(code[r])
  BY <1>1, RestIsStraight DEF WellFormed, Now
<1>3. CASE q \in {code[r], Tail(code[r]), <<>>}
  BY <1>1, <1>2, <1>3, RestIsWellFormed, NothingIsWellFormed
<1>4. CASE Now(r).do \in Branching /\ q = Now(r).else
  <2>1. Straight(Handler.load, UndoSteps, q)
    BY <1>1, <1>2, <1>4 DEF WellFormed
  <2>2. CASE r \in {"provisioner", "job"}
    <3>1. UndoSteps \subseteq Repertoire(r)
      BY <2>2 DEF Repertoire
    <3>2. \A step \in Steps(q) : step.do \in UndoSteps
      <4> DEFINE S == {step \in Steps(q) : step.do \in UndoSteps /\ Loaded(Handler.load, step)}
      <4>1. q \in Seq(S)
        BY <2>1 DEF Straight
      <4> HIDE DEF S
      <4>2. Steps(q) \subseteq S
        BY <4>1 DEF Steps
      <4> QED
        BY <4>2 DEF S
    <3> QED
      BY <2>1, <2>2, <3>1, <3>2, LargerRepertoire
  <2>3. CASE r \in {"helper", "helper2"}
    <3>1. q = <<>>
      BY <1>2, <1>4, <2>3 DEF Programmed
    <3> QED
      BY <3>1, NothingIsWellFormed
  <2>4. CASE r \in {"client", "self"}
    <3>1. Now(r).do \notin Branching
      BY <1>2, <2>4 DEF Repertoire, DeprovisionSteps, Branching
    <3> QED
      BY <3>1, <1>4
  <2> QED
    BY <2>2, <2>3, <2>4 DEF Routines
<1> QED
  BY <1>3, <1>4 DEF Follows

(* Of a routine: a program it may be given.                                *)
Fits(r, p) ==
  /\ WellFormed(Handler.load, Repertoire(r), p)
  /\ \A step \in Steps(p) :
       /\ step.do = "volumes" => r = Asker(step.lot)
       /\ r \in {"helper", "helper2"} => step.else = <<>>

LEMMA RestFits ==
  ASSUME Programmed, NEW r \in Routines, code[r] # <<>>, NEW q, Follows(r, q)
  PROVE  Fits(r, q)
BY FollowsWellFormed DEF Programmed, Fits, UndoSteps

LEMMA NothingFits ==
  ASSUME NEW r
  PROVE  Fits(r, <<>>)
BY NothingIsWellFormed DEF Fits

(* The steps of a straight program are of its kinds.                       *)
LEMMA StepsAreOfKind ==
  ASSUME NEW load, NEW kinds, NEW p, Straight(load, kinds, p), NEW step \in Steps(p)
  PROVE  step.do \in kinds
<1> DEFINE S == {s \in Steps(p) : s.do \in kinds /\ Loaded(load, s)}
<1>1. p \in Seq(S)
  BY DEF Straight
<1> HIDE DEF S
<1>2. step \in S
  BY <1>1 DEF Steps
<1> QED
  BY <1>2 DEF S

LEMMA HandlersFit ==
  ASSUME TypeOK
  PROVE  /\ Fits("provisioner", Handler.DoProvision)
         /\ Fits("job", Handler.run)
         /\ Fits("client", Handler.DoDeprovision)
         /\ Fits("self", Handler.DoDeprovision)
<1>1. IsHandler(Handler)
  BY HandlerIsHandler
<1>2. Fits("provisioner", Handler.DoProvision)
  <2>1. WellFormed(Handler.load, Repertoire("provisioner"), Handler.DoProvision)
    <3>1. ProvisionSteps \subseteq Repertoire("provisioner")
      BY DEF Repertoire
    <3> QED
      BY <1>1, <3>1, LargerRepertoire DEF IsHandler
  <2> QED
    BY <1>1, <2>1 DEF Fits, IsHandler, AsksFor, Asker
<1>3. Fits("job", Handler.run)
  <2>1. WellFormed(Handler.load, Repertoire("job"), Handler.run)
    <3>1. RunSteps \subseteq Repertoire("job")
      BY DEF Repertoire
    <3> QED
      BY <1>1, <3>1, LargerRepertoire DEF IsHandler
  <2> QED
    BY <1>1, <2>1 DEF Fits, IsHandler, AsksFor, Asker
<1>4. ASSUME NEW r \in {"client", "self"}
      PROVE  Fits(r, Handler.DoDeprovision)
  <2>1. WellFormed(Handler.load, DeprovisionSteps, Handler.DoDeprovision)
    BY <1>1 DEF IsHandler
  <2>2. Repertoire(r) = DeprovisionSteps
    BY DEF Repertoire
  <2>3. \A step \in Steps(Handler.DoDeprovision) : step.do \in DeprovisionSteps
    BY <2>1, StepsAreOfKind DEF WellFormed
  <2> QED
    BY <2>1, <2>2, <2>3 DEF Fits, DeprovisionSteps
<1> QED
  BY <1>2, <1>3, <1>4

(* Who hands over has nothing else to do, or is the job that starts a      *)
(* helper; who is started is idle.                                         *)
Starts(r, s, p) ==
  /\ s # r /\ s \in Routines /\ code[s] = <<>> /\ Fits(s, p)
  /\ DOMAIN code' = Routines
  /\ code'[r] = Tail(code[r]) /\ code'[s] = p
  /\ \A other \in Routines \ {r, s} : code'[other] = code[other]

LEMMA HandsOverTo ==
  ASSUME TypeOK, Programmed, Succession, NEW r \in Routines, HandsOver(r)
  PROVE  \E s, p :
           /\ Starts(r, s, p)
           /\ \/ r = "provisioner" /\ s = "job" /\ Tail(code[r]) = <<>>
              \/ /\ r = "job" /\ Now(r).do = "go"
                 /\ s \in {"helper", "helper2"} /\ s = Now(r).helper
              \/ r \in {"provisioner", "job"} /\ s = "self" /\ Tail(code[r]) = <<>>
<1>1. /\ code[r] # <<>> /\ WellFormed(Handler.load, Repertoire(r), code[r])
      /\ DOMAIN code = Routines
  BY DEF HandsOver, Start, StartHelper, DeprovisionSelf, Doing, Programmed, TypeOK
<1>2. /\ Straight(Handler.load, Repertoire(r), code[r])
      /\ Now(r) \in Steps(code[r]) /\ Now(r).do \in Repertoire(r)
      /\ Now(r) = code[r][1] /\ 1 \in DOMAIN code[r]
  BY <1>1, RestIsStraight DEF WellFormed, Now
<1>3. Now(r).do \in {"start job", "deprovision"} => Tail(code[r]) = <<>>
  <2> SUFFICES ASSUME Now(r).do \in {"start job", "deprovision"}
               PROVE  Tail(code[r]) = <<>>
    OBVIOUS
  <2>1. Len(code[r]) = 1
    BY <1>2 DEF Straight
  <2> QED
    BY <2>1, <1>1, <1>2, RestIsStraight
<1>4. CASE Start(r)
  <2>1. Now(r).do = "start job"
    BY <1>4 DEF Start, Doing
  <2>2. r = "provisioner"
    BY <1>2, <2>1 DEF Routines, Repertoire, ProvisionSteps, RunSteps, UndoSteps, DeprovisionSteps
  <2>3. code["job"] = <<>>
    BY <1>1, <2>2 DEF Succession
  <2>4. Starts(r, "job", Handler.run)
    BY <1>1, <1>4, <2>2, <2>3, HandlersFit DEF Starts, Start, Routines
  <2> QED
    BY <2>1, <2>2, <2>4, <1>3
<1>5. CASE StartHelper(r)
  <2>1. Now(r).do = "go"
    BY <1>5 DEF StartHelper, Doing
  <2>2. r = "job"
    BY <1>2, <2>1 DEF Routines, Repertoire, ProvisionSteps, RunSteps, UndoSteps, DeprovisionSteps
  <2>3. /\ Now(r).helper \in {"helper", "helper2"}
        /\ Straight(Handler.load, {"post"}, Now(r).program)
        /\ \A post \in Steps(Now(r).program) : post.else = <<>>
    BY <1>1, <1>2, <2>1 DEF WellFormed
  <2>4. code[Now(r).helper] = <<>>
    BY <1>2, <2>1, <2>2 DEF Succession
  <2>5. Fits(Now(r).helper, Now(r).program)
    <3>1. \A post \in Steps(Now(r).program) : post.do = "post"
      BY <2>3, StepsAreOfKind
    <3>2. Repertoire(Now(r).helper) = {"post"}
      BY <2>3 DEF Repertoire
    <3>3. Straight(Handler.load, UndoSteps, <<>>)
      BY NothingIsWellFormed DEF WellFormed
    <3> QED
      BY <2>3, <3>1, <3>2, <3>3 DEF Fits, WellFormed
  <2>6. Starts(r, Now(r).helper, Now(r).program)
    BY <1>1, <1>5, <2>2, <2>3, <2>4, <2>5 DEF Starts, StartHelper, Routines
  <2> QED
    BY <2>1, <2>2, <2>3, <2>6
<1>6. CASE DeprovisionSelf(r)
  <2>1. Now(r).do = "deprovision"
    BY <1>6 DEF DeprovisionSelf, Doing
  <2>2. r \in {"provisioner", "job"}
    BY <1>2, <2>1 DEF Routines, Repertoire, ProvisionSteps, RunSteps, UndoSteps, DeprovisionSteps
  <2>3. code["self"] = <<>>
    BY <1>1, <2>2 DEF Succession
  <2>4. Starts(r, "self", Handler.DoDeprovision)
    BY <1>1, <1>6, <2>2, <2>3, HandlersFit DEF Starts, DeprovisionSelf, Routines
  <2> QED
    BY <2>1, <2>2, <2>4, <1>3
<1> QED
  BY <1>4, <1>5, <1>6 DEF HandsOver

(* Every step of the instance does one of these to its goroutines.         *)
LEMMA NextMoves ==
  ASSUME TypeOK, Next
  PROVE  /\ env' = env
         /\ \/ \E r \in Routines : Step(r)
            \/ UNCHANGED <<code, n, got, sent, record>>
            \/ ClientDeprovisions
            \/ Crash
<1>1. CASE \E r \in Routines : Step(r)
  BY <1>1, StepMoves
<1>2. CASE \E l \in Lots : VolumeJob(l)
  BY <1>2 DEF VolumeJob, programVars
<1>3. CASE \E g \in DOMAIN Handler.load : PodsRun(g)
  BY <1>3 DEF PodsRun, programVars
<1>4. CASE DeleteRCs
  BY <1>4 DEF DeleteRCs, programVars
<1>5. CASE ClientDeprovisions
  BY <1>5 DEF ClientDeprovisions
<1>6. CASE Crash
  BY <1>6 DEF Crash
<1> QED
  BY <1>1, <1>2, <1>3, <1>4, <1>5, <1>6 DEF Next

LEMMA ProgramsStep ==
  ASSUME TypeOK, Programmed, Succession, [Next]_vars
  PROVE  Programmed' /\ Succession'
<1>1. DOMAIN code = Routines /\ Programmed = \A r \in Routines : Fits(r, code[r])
  BY DEF TypeOK, Programmed, Fits
<1>2. env' = env => (Programmed' <=> \A r \in Routines : Fits(r, code'[r]))
  BY DEF Programmed, Fits, Handler
<1>3. ASSUME NEW r \in Routines, Step(r), NEW q, Follows(r, q), Becomes(r, q)
      PROVE  Programmed' /\ Succession'
  <2>1. /\ code[r] # <<>> /\ env' = env
        /\ record' = record \/ (Save(r) /\ record' = "yes" /\ Becomes(r, Tail(code[r])))
    BY <1>3, StepMoves
  <2>2. Programmed'
    BY <1>1, <1>2, <1>3, <2>1, RestFits DEF Becomes
  <2>3. \A s \in Routines : code[s] = <<>> => code'[s] = <<>>
    BY <1>3, <2>1 DEF Becomes
  <2>4. \A s \in Routines : \A step \in Steps(code'[s]) :
          step \in Steps(code[s]) \/ step.do \in UndoSteps
    BY <1>3, <2>1, FollowsWellFormed DEF Becomes
  <2>5. \A step \in Steps(code'["job"]) : step.do = "go" => code'[step.helper] = <<>>
    <3> SUFFICES ASSUME NEW step \in Steps(code'["job"]), step.do = "go"
                 PROVE  code'[step.helper] = <<>>
      OBVIOUS
    <3>1. step \in Steps(code["job"])
      BY <2>4 DEF Routines, UndoSteps
    <3>2. step.helper \in Routines
      BY <3>1 DEF Programmed, WellFormed, Routines
    <3> QED
      BY <2>3, <3>1, <3>2 DEF Succession
  <2>6. \A step \in Steps(code'["provisioner"]) :
          step.do \in {"saved", "saved blank"} => record' = "no"
    <3> SUFFICES ASSUME NEW step \in Steps(code'["provisioner"]),
                        step.do \in {"saved", "saved blank"}
                 PROVE  record' = "no"
      OBVIOUS
    <3>1. step \in Steps(code["provisioner"])
      BY <2>4 DEF Routines, UndoSteps
    <3>2. CASE Save(r)
      <4>1. Doing(r, "saved") \/ Doing(r, "saved blank")
        BY <3>2 DEF Save
      <4>2. /\ WellFormed(Handler.load, Repertoire(r), code[r])
            /\ Now(r) = code[r][1] /\ Now(r).do \in Repertoire(r)
        <5>1. WellFormed(Handler.load, Repertoire(r), code[r])
          BY DEF Programmed
        <5>2. Straight(Handler.load, Repertoire(r), code[r])
          BY <5>1 DEF WellFormed
        <5> QED
          BY <2>1, <5>1, <5>2, RestIsStraight DEF Now
      <4>3. r = "provisioner"
        BY <4>1, <4>2 DEF Doing, Repertoire, Routines, ProvisionSteps, RunSteps, UndoSteps,
                          DeprovisionSteps
      <4>4. code'[r] \in {<<>>, Tail(code[r])}
        BY <3>2, <1>1 DEF Save, Continue, Leave, Instead
      <4>5. code'[r] # <<>>
        BY <4>3, NothingIsWellFormed
      <4>6. code'[r] = Tail(code[r])
        BY <4>4, <4>5
      <4>7. PICK i \in DOMAIN Tail(code[r]) : step = Tail(code[r])[i]
        BY <4>3, <4>6 DEF Steps
      <4>8. /\ i + 1 \in DOMAIN code[r] /\ 1 \in DOMAIN code[r] /\ i + 1 # 1
            /\ step = code[r][i + 1]
        BY <4>2, <4>7, <2>1, RestIsStraight DEF WellFormed
      <4>9. Alike(code[r][i + 1], code[r][1])
        BY <4>1, <4>2, <4>8 DEF Alike, Doing
      <4> QED
        BY <4>2, <4>8, <4>9 DEF WellFormed, Straight
    <3>3. CASE ~Save(r)
      BY <3>1, <3>3, <2>1 DEF Succession
    <3> QED
      BY <3>2, <3>3
  <2>7. record' # "gone" => code'["client"] = <<>>
    <3>1. CASE record' = record
      BY <3>1, <2>3 DEF Succession, Routines
    <3>2. CASE Save(r)
      <4>1. record = "no"
        <5>1. /\ Now(r) \in Steps(code[r]) /\ Now(r).do \in Repertoire(r)
              /\ Now(r).do \in {"saved", "saved blank"}
          BY <3>2, <2>1, RestIsStraight DEF Programmed, WellFormed, Now, Save, Doing
        <5>2. r = "provisioner"
          BY <5>1 DEF Repertoire, Routines, ProvisionSteps, RunSteps, UndoSteps,
                      DeprovisionSteps
        <5> QED
          BY <5>1, <5>2 DEF Succession
      <4> QED
        BY <4>1, <2>3 DEF Succession, Routines
    <3> QED
      BY <3>1, <3>2, <2>1
  <2>8. /\ code'["provisioner"] # <<>> =>
             \A s \in {"job", "helper", "helper2", "self"} : code'[s] = <<>>
        /\ code'["job"] # <<>> => code'["self"] = <<>>
    <3>1. {"provisioner", "job", "helper", "helper2", "self"} \subseteq Routines
      BY DEF Routines
    <3> QED
      BY <2>3, <3>1 DEF Succession
  <2> QED
    BY <2>2, <2>5, <2>6, <2>7, <2>8 DEF Succession
<1>4. ASSUME NEW r \in Routines, HandsOver(r)
      PROVE  Programmed' /\ Succession'
  <2>1. code[r] # <<>> /\ env' = env /\ record' = record
    BY <1>4 DEF HandsOver, Start, StartHelper, DeprovisionSelf, Doing
  <2>2. PICK s, p :
          /\ Starts(r, s, p)
          /\ \/ r = "provisioner" /\ s = "job" /\ Tail(code[r]) = <<>>
             \/ /\ r = "job" /\ Now(r).do = "go"
                /\ s \in {"helper", "helper2"} /\ s = Now(r).helper
             \/ r \in {"provisioner", "job"} /\ s = "self" /\ Tail(code[r]) = <<>>
    BY <1>4, HandsOverTo
  <2>3. Fits(r, Tail(code[r]))
    BY <2>1, RestFits DEF Follows
  <2>4. Programmed'
    BY <1>1, <1>2, <2>1, <2>2, <2>3 DEF Starts
  <2>5. r \in {"provisioner", "job"} /\ s # "client" /\ s # "provisioner"
    BY <2>2
  <2>6. /\ code'["client"] = code["client"]
        /\ code'[r] = Tail(code[r]) /\ \A x \in Routines \ {r, s} : code'[x] = code[x]
    BY <2>2, <2>5 DEF Starts, Routines
  <2>7. /\ Steps(Tail(code[r])) \subseteq Steps(code[r])
        /\ Straight(Handler.load, Repertoire(r), code[r])
        /\ Now(r) = code[r][1] /\ 1 \in DOMAIN code[r]
        /\ \A i \in DOMAIN Tail(code[r]) :
             i + 1 \in DOMAIN code[r] /\ i + 1 # 1 /\ Tail(code[r])[i] = code[r][i + 1]
    <3>1. Straight(Handler.load, Repertoire(r), code[r])
      BY DEF Programmed, WellFormed
    <3>2. \A q : Straight(Handler.load, Repertoire(r), q) /\ q # <<>>
                => \A i \in DOMAIN Tail(q) :
                     i + 1 \in DOMAIN q /\ i + 1 # 1 /\ Tail(q)[i] = q[i + 1]
      BY RestIsStraight
    <3>3. \A i \in DOMAIN Tail(code[r]) :
            i + 1 \in DOMAIN code[r] /\ i + 1 # 1 /\ Tail(code[r])[i] = code[r][i + 1]
      BY <2>1, <3>1, <3>2
    <3> QED
      BY <2>1, <3>1, <3>3, RestIsStraight DEF Now
  <2>8. CASE r = "provisioner" /\ s = "job" /\ Tail(code[r]) = <<>>
    <3>1. \A step \in Steps(code'["job"]) : step.do = "go" => step.helper \in {"helper", "helper2"}
      BY <2>2, <2>8 DEF Starts, Fits, WellFormed
    <3>2. /\ code'["provisioner"] = <<>> /\ code'["helper"] = <<>>
          /\ code'["helper2"] = <<>> /\ code'["self"] = <<>>
      BY <2>1, <2>6, <2>8 DEF Succession, Routines
    <3> QED
      BY <2>1, <2>4, <2>6, <3>1, <3>2, NothingIsWellFormed DEF Succession
  <2>9. CASE r \in {"provisioner", "job"} /\ s = "self" /\ Tail(code[r]) = <<>>
    <3>1. code'["provisioner"] = <<>> /\ code'["job"] = <<>>
      BY <2>1, <2>6, <2>9 DEF Succession, Routines
    <3> QED
      BY <2>1, <2>4, <2>6, <3>1, NothingIsWellFormed DEF Succession
  <2>10. CASE /\ r = "job" /\ Now(r).do = "go"
              /\ s \in {"helper", "helper2"} /\ s = Now(r).helper
    <3>1. code["provisioner"] = <<>> /\ code["self"] = <<>>
      BY <2>1, <2>10 DEF Succession
    <3>2. code'["provisioner"] = <<>> /\ code'["self"] = <<>>
      BY <2>6, <2>10, <3>1 DEF Routines
    <3>3. ASSUME NEW step \in Steps(code'["job"]), step.do = "go"
          PROVE  code'[step.helper] = <<>>
      <4>1. step \in Steps(code["job"]) /\ step \in Steps(Tail(code["job"]))
        BY <2>6, <2>7, <2>10, <3>3
      <4>2. code[step.helper] = <<>> /\ step.helper \in {"helper", "helper2"}
        BY <3>3, <4>1 DEF Succession, Programmed, WellFormed, Routines
      <4>3. PICK i \in DOMAIN Tail(code["job"]) : step = Tail(code["job"])[i]
        BY <4>1 DEF Steps
      <4>4. i + 1 \in DOMAIN code["job"] /\ i + 1 # 1 /\ step = code["job"][i + 1]
        BY <4>3, <2>7, <2>10
      <4>5. step.helper = s => Alike(code["job"][i + 1], code["job"][1])
        BY <2>7, <2>10, <3>3, <4>4 DEF Alike
      <4>6. step.helper # s
        BY <2>7, <2>10, <4>4, <4>5 DEF Straight
      <4> QED
        BY <2>6, <2>10, <4>2, <4>6 DEF Routines
    <3> QED
      BY <2>1, <2>4, <2>6, <3>2, <3>3, NothingIsWellFormed DEF Succession
  <2> QED
    BY <2>2, <2>8, <2>9, <2>10
<1>5. CASE UNCHANGED <<env, code, record>>
  <2>1. \A r \in Routines : Fits(r, code'[r])
    BY <1>1, <1>5
  <2> QED
    BY <1>1, <1>2, <1>5, <2>1 DEF Succession
<1>6. CASE ClientDeprovisions
  <2>1. /\ env' = env /\ record' = "gone" /\ record = "yes"
        /\ code'["client"] = Handler.DoDeprovision
        /\ \A r \in Routines \ {"client"} : code'[r] = code[r]
    BY <1>1, <1>6 DEF ClientDeprovisions, Routines
  <2>2. Programmed'
    BY <1>1, <1>2, <2>1, HandlersFit
  <2>3. \A r \in {"provisioner", "job", "helper", "helper2", "self"} : code'[r] = code[r]
    BY <2>1 DEF Routines
  <2>4. ASSUME NEW step \in Steps(code["job"]), step.do = "go"
        PROVE  code'[step.helper] = <<>>
    BY <2>3, <2>4 DEF Succession, Programmed, WellFormed, Routines
  <2> QED
    BY <2>1, <2>2, <2>3, <2>4 DEF Succession
<1>7. CASE Crash
  <2>1. env' = env /\ record' = record /\ \A r \in Routines : code'[r] = <<>>
    BY <1>7 DEF Crash
  <2>2. Programmed'
    BY <1>2, <2>1, NothingFits
  <2> QED
    BY <2>1, <2>2, NothingIsWellFormed DEF Succession, Routines
<1>8. CASE Next
  BY <1>3, <1>4, <1>5, <1>6, <1>7, <1>8, NextMoves, StepMoves
<1> QED
  BY <1>5, <1>8 DEF vars, lifeVars, programVars

-----------------------------------------------------------------------------
(* Counters: how far the goroutines are in their chains and lists.         *)
Counters ==
  /\ n \in [Routines -> Nat]
  /\ \A r \in Routines : code[r] = <<>> => n[r] = 0
  /\ got \in [Routines -> SUBSET Resources]
  /\ sent \subseteq {r \in Posters : Doing(r, "post")}

(* A chain or list to be worked through names resources of the service.    *)
LEMMA ListsName ==
  ASSUME Programmed, NEW r \in Routines, code[r] # <<>>
  PROVE  /\ Doing(r, "post") =>
              /\ Len(Now(r).chain) \in Nat \ {0}
              /\ \A i \in 1..Len(Now(r).chain) : <<Now(r).group, Now(r).chain[i]>> \in Resources
         /\ Doing(r, "remove") =>
              /\ Len(Now(r).list) \in Nat
              /\ \A i \in 1..Len(Now(r).list) : <<Now(r).group, Now(r).list[i]>> \in Resources
<1>1. Straight(Handler.load, Repertoire(r), code[r])
  BY DEF Programmed, WellFormed
<1>2. Loaded(Handler.load, Now(r))
  BY <1>1, RestIsStraight DEF Now
<1> DEFINE g == Now(r).group
           F == DOMAIN Handler.load[g]
<1>3. ASSUME g \in DOMAIN Handler.load, NEW s \in Seq(F)
      PROVE  /\ Len(s) \in Nat /\ (s # <<>> => Len(s) # 0)
             /\ \A i \in 1..Len(s) : <<g, s[i]>> \in Resources
  <2>1. \A f \in F : <<g, f>> \in Resources
    BY <1>3 DEF Resources
  <2> HIDE DEF F
  <2>2. Len(s) \in Nat /\ (s # <<>> => Len(s) # 0) /\ \A i \in 1..Len(s) : s[i] \in F
    BY EmptySeq, ElementOfSeq
  <2> QED
    BY <2>1, <2>2
<1>4. ASSUME Doing(r, "post")
      PROVE  g \in DOMAIN Handler.load /\ Now(r).chain \in Seq(F) /\ Now(r).chain # <<>>
  BY <1>2, <1>4 DEF Loaded, Doing
<1>5. ASSUME Doing(r, "remove")
      PROVE  g \in DOMAIN Handler.load /\ Now(r).list \in Seq(F)
  BY <1>2, <1>5 DEF Loaded, Doing
<1> HIDE DEF F
<1> QED
  BY <1>3, <1>4, <1>5

(* What a step does to the counters of its goroutine.                      *)
LEMMA StepCounts ==
  ASSUME IInv, NEW r \in Routines, Step(r)
  PROVE  /\ n' \in [Routines -> Nat]
         /\ \A x \in Routines \ {r} : n'[x] = n[x] /\ got'[x] = got[x]
         /\ \/ n'[r] = 0
            \/ code'[r] = code[r] /\ n'[r] = n[r]
            \/ code'[r] = code[r] /\ n'[r] = n[r] + 1 /\ Doing(r, "remove")
            \/ /\ code'[r] = code[r] /\ n'[r] = n[r] + 1
               /\ Doing(r, "post") /\ n[r] + 1 < Len(Now(r).chain)
         /\ got' \in [Routines -> SUBSET Resources]
         /\ sent' \subseteq sent \cup {r} /\ sent' \subseteq Posters
         /\ r \in sent' => Doing(r, "post") /\ code'[r] = code[r]
<1>1. /\ n \in [Routines -> Nat] /\ got \in [Routines -> SUBSET Resources]
      /\ sent \subseteq Posters /\ (r \in sent => Doing(r, "post"))
      /\ DOMAIN code = Routines
  BY DEF IInv, TypeOK
<1>2. Doing(r, "post") \/ Doing(r, "remove") \/ n[r] = 0
  BY <1>1 DEF IInv, Counted
<1>3. CASE Send(r)
  <2>1. r \in Posters /\ Doing(r, "post") /\ got' = got
    BY <1>3 DEF Send
  <2>2. CASE n' = [n EXCEPT ![r] = 0] /\ sent' = sent /\ r \notin sent
    BY <1>1, <2>1, <2>2
  <2>3. CASE sent' = sent \cup {r} /\ code' = code /\ n' = n
    BY <1>1, <2>1, <2>3
  <2> QED
    BY <1>3, <2>2, <2>3 DEF Send
<1>4. CASE PostNext(r)
  <2> DEFINE res == <<Now(r).group, Now(r).chain[n[r] + 1]>>
  <2>1. /\ Doing(r, "post") /\ sent' = sent \ {r}
        /\ \/ n' = [n EXCEPT ![r] = 0] /\ (got' = [got EXCEPT ![r] = {}] \/ got' = got)
           \/ /\ n[r] + 1 # Len(Now(r).chain) /\ n' = [n EXCEPT ![r] = @ + 1]
              /\ got' = [got EXCEPT ![r] = @ \cup {res}] /\ code' = code
    BY <1>4 DEF PostNext
  <2>2. Len(Now(r).chain) \in Nat /\ n[r] < Len(Now(r).chain) /\ res \in Resources
    <3>1. code[r] # <<>> /\ n[r] < Len(Now(r).chain)
      BY <2>1 DEF IInv, Counted, Doing
    <3>2. /\ Len(Now(r).chain) \in Nat
          /\ \A i \in 1..Len(Now(r).chain) : <<Now(r).group, Now(r).chain[i]>> \in Resources
      BY <2>1, <3>1, ListsName DEF IInv
    <3>3. n[r] + 1 \in 1..Len(Now(r).chain)
      BY <1>1, <3>1, <3>2
    <3> QED
      BY <3>1, <3>2, <3>3
  <2> HIDE DEF res
  <2>3. CASE n' = [n EXCEPT ![r] = 0] /\ (got' = [got EXCEPT ![r] = {}] \/ got' = got)
    BY <1>1, <2>1, <2>3
  <2>4. CASE /\ n[r] + 1 # Len(Now(r).chain) /\ n' = [n EXCEPT ![r] = @ + 1]
             /\ got' = [got EXCEPT ![r] = @ \cup {res}] /\ code' = code
    <3>1. n[r] \in Nat /\ n[r] + 1 < Len(Now(r).chain)
      BY <1>1, <2>2, <2>4
    <3>2. n' \in [Routines -> Nat] /\ n'[r] = n[r] + 1 /\ got' \in [Routines -> SUBSET Resources]
      BY <1>1, <2>2, <2>4, <3>1
    <3> QED
      BY <1>1, <2>1, <2>4, <3>1, <3>2
  <2> QED
    BY <2>1, <2>3, <2>4
<1>5. CASE UndoChain(r)
  <2>1. n' = n /\ sent' = sent /\ got' = [got EXCEPT ![r] = {}] /\ n[r] = 0 /\ r \notin sent
    BY <1>1, <1>2, <1>5 DEF UndoChain, Doing
  <2> QED
    BY <1>1, <2>1
<1>6. CASE DestroyFound(r)
  <2>1. /\ n' = [n EXCEPT ![r] = 0] /\ sent' = sent
        /\ got' = [got EXCEPT ![r] = {}] /\ r \notin sent
    BY <1>1, <1>6 DEF DestroyFound, Doing
  <2> QED
    BY <1>1, <2>1
<1>7. CASE LookUp(r)
  <2> DEFINE res == <<Now(r).group, Now(r).list[n[r] + 1]>>
  <2>1. /\ n[r] < Len(Now(r).list) /\ Doing(r, "remove") /\ code' = code /\ sent' = sent
        /\ n' = [n EXCEPT ![r] = @ + 1] /\ r \notin sent
        /\ (got' = [got EXCEPT ![r] = @ \cup {res}] \/ got' = [got EXCEPT ![r] = @] \/ got' = got)
    BY <1>1, <1>7 DEF LookUp, Doing
  <2>2. res \in Resources
    <3>1. code[r] # <<>>
      BY <2>1 DEF Doing
    <3>2. /\ Len(Now(r).list) \in Nat
          /\ \A i \in 1..Len(Now(r).list) : <<Now(r).group, Now(r).list[i]>> \in Resources
      BY <2>1, <3>1, ListsName DEF IInv
    <3>3. n[r] + 1 \in 1..Len(Now(r).list)
      BY <1>1, <2>1, <3>2
    <3> QED
      BY <3>2, <3>3
  <2> HIDE DEF res
  <2>3. n[r] \in Nat /\ n' \in [Routines -> Nat] /\ n'[r] = n[r] + 1
    BY <1>1, <2>1
  <2>4. got' \in [Routines -> SUBSET Resources] /\ \A x \in Routines \ {r} : got'[x] = got[x]
    BY <1>1, <2>1, <2>2
  <2> QED
    BY <1>1, <2>1, <2>3, <2>4
<1>8. CASE UNCHANGED <<n, got, sent>> /\ n[r] = 0 /\ r \notin sent
  BY <1>1, <1>8
<1>9. ASSUME \/ Save(r) \/ Kdelete(r) \/ Look(r)
             \/ AskForVolumes(r) \/ VolumesAnswered(r) \/ DeleteVolumes(r)
             \/ WaitForPods(r) \/ LookAtCancelled(r) \/ WaitInited(r)
      PROVE  UNCHANGED <<n, got, sent>> /\ n[r] = 0 /\ r \notin sent
  BY <1>1, <1>2, <1>9 DEF Save, Kdelete, Look, AskForVolumes, VolumesAnswered, DeleteVolumes,
     WaitForPods, LookAtCancelled, WaitInited, Doing, programVars
<1>10. ASSUME \/ FollowWatch(r) \/ HandsOver(r) \/ CreateTheUser(r) \/ DropTheUser(r)
              \/ StopVolumeJob(r) \/ StopTheJob(r)
       PROVE  UNCHANGED <<n, got, sent>> /\ n[r] = 0 /\ r \notin sent
  BY <1>1, <1>2, <1>10 DEF FollowWatch, HandsOver, Start, StartHelper, DeprovisionSelf,
     CreateTheUser, DropTheUser, StopVolumeJob, StopTheJob, Doing
<1> QED
  BY <1>3, <1>4, <1>5, <1>6, <1>7, <1>8, <1>9, <1>10 DEF Step, HandsOver

(* There is something to post in a chain.                                  *)
LEMMA ChainsAreLong ==
  ASSUME NEW load, NEW kinds, NEW p, WellFormed(load, kinds, p), p # <<>>, Head(p).do = "post"
  PROVE  Len(Head(p).chain) \in Nat \ {0}
<1>1. Loaded(load, Head(p))
  BY RestIsStraight DEF WellFormed
<1>2. PICK S : Head(p).chain \in Seq(S) /\ Head(p).chain # <<>>
  BY <1>1 DEF Loaded
<1> QED
  BY <1>2, EmptySeq

CountsOf(r) ==
  /\ n[r] > 0 => Doing(r, "post") \/ Doing(r, "remove")
  /\ Doing(r, "post") => n[r] < Len(Now(r).chain)

(* A goroutine at the beginning of a program has counted nothing.          *)
LEMMA FromTheStart ==
  ASSUME Programmed', NEW r \in Routines, n'[r] = 0
  PROVE  CountsOf(r)'
<1>2. WellFormed((Handler').load, Repertoire(r), code'[r])
  BY DEF Programmed
<1>3. ASSUME code'[r] # <<>>, Head(code'[r]).do = "post"
      PROVE  0 < Len(Head(code'[r]).chain)
  <2>1. Len(Head(code'[r]).chain) \in Nat \ {0}
    BY <1>2, <1>3, ChainsAreLong
  <2> QED
    BY <2>1
<1> QED
  BY <1>3 DEF CountsOf, Doing, Now

(* The counters after a step: a goroutine that is started was idle, and    *)
(* had counted nothing.                                                    *)
LEMMA CountersStep ==
  ASSUME IInv, Programmed', [Next]_vars
  PROVE  Counters' /\ Counted'
<1>1. /\ n \in [Routines -> Nat] /\ got \in [Routines -> SUBSET Resources]
      /\ sent \subseteq Posters /\ (\A r \in sent : Doing(r, "post"))
      /\ DOMAIN code = Routines /\ \A r \in Routines : code[r] = <<>> => n[r] = 0
  BY DEF IInv, TypeOK
<1>2. env' = env => Resources' = Resources
  BY DEF Resources, Handler
<1>3. Posters \subseteq Routines
  BY DEF Posters, Routines
<1>4. SUFFICES /\ n' \in [Routines -> Nat]
               /\ got' \in [Routines -> SUBSET Resources] /\ env' = env
               /\ \A r \in Routines : CountsOf(r)'
               /\ sent' \subseteq Posters
               /\ \A r \in sent' : Doing(r, "post")'
  <2>1. ASSUME n' \in [Routines -> Nat], NEW r \in Routines, CountsOf(r)', code'[r] = <<>>
        PROVE  n'[r] = 0
    BY <2>1 DEF CountsOf, Doing
  <2> QED
    BY <1>2, <1>3, <2>1 DEF Counters, Counted, CountsOf
<1>5. ASSUME NEW r \in Routines, code'[r] = code[r], n'[r] = n[r]
      PROVE  CountsOf(r)'
  BY <1>5 DEF IInv, Counted, CountsOf, Doing, Now
<1>6. ASSUME NEW r \in sent, code'[r] = code[r]
      PROVE  Doing(r, "post")'
  BY <1>1, <1>6 DEF Doing, Now
<1>7. CASE UNCHANGED <<env, code, n, got, sent>>
  BY <1>1, <1>5, <1>6, <1>7, <1>3
<1>8. ASSUME NEW r \in Routines, Step(r)
      PROVE  /\ n' \in [Routines -> Nat]
             /\ got' \in [Routines -> SUBSET Resources] /\ env' = env
             /\ \A x \in Routines : CountsOf(x)'
             /\ sent' \subseteq Posters
             /\ \A x \in sent' : Doing(x, "post")'
  <2>1. /\ n' \in [Routines -> Nat] /\ got' \in [Routines -> SUBSET Resources]
        /\ \A x \in Routines \ {r} : n'[x] = n[x]
        /\ sent' \subseteq sent \cup {r} /\ sent' \subseteq Posters
        /\ r \in sent' => Doing(r, "post") /\ code'[r] = code[r]
        /\ \/ n'[r] = 0
           \/ code'[r] = code[r] /\ n'[r] = n[r]
           \/ code'[r] = code[r] /\ n'[r] = n[r] + 1 /\ Doing(r, "remove")
           \/ /\ code'[r] = code[r] /\ n'[r] = n[r] + 1
              /\ Doing(r, "post") /\ n[r] + 1 < Len(Now(r).chain)
    BY <1>8, StepCounts
  <2>2. \A x \in Routines \ {r} : code'[x] = code[x] \/ code[x] = <<>>
    <3>1. (\E q : Follows(r, q) /\ Becomes(r, q)) \/ \E s, p : Starts(r, s, p)
      BY <1>8, StepMoves, HandsOverTo DEF IInv
    <3> QED
      BY <3>1 DEF Becomes, Starts
  <2>3. ASSUME NEW x \in Routines \ {r}
        PROVE  CountsOf(x)' /\ (x \in sent' => Doing(x, "post")')
    <3>1. CASE code'[x] = code[x]
      BY <1>5, <1>6, <2>1, <3>1
    <3>2. CASE code[x] = <<>>
      BY <1>1, <2>1, <3>2, FromTheStart DEF Doing
    <3> QED
      BY <2>2, <3>1, <3>2
  <2>4. CountsOf(r)'
    <3>1. CASE n'[r] = 0
      BY <3>1, FromTheStart
    <3>2. CASE code'[r] = code[r] /\ n'[r] = n[r]
      BY <3>2, <1>5
    <3>3. CASE code'[r] = code[r] /\ n'[r] = n[r] + 1 /\ Doing(r, "remove")
      BY <3>3 DEF CountsOf, Doing, Now
    <3>4. CASE /\ code'[r] = code[r] /\ n'[r] = n[r] + 1
               /\ Doing(r, "post") /\ n[r] + 1 < Len(Now(r).chain)
      BY <3>4 DEF CountsOf, Doing, Now
    <3> QED
      BY <2>1, <3>1, <3>2, <3>3, <3>4
  <2>5. r \in sent' => Doing(r, "post")'
    BY <2>1 DEF Doing, Now
  <2> QED
    BY <1>3, <1>8, <2>1, <2>3, <2>4, <2>5, StepMoves DEF IInv
<1>9. CASE ClientDeprovisions
  <2>1. /\ UNCHANGED <<env, n, got, sent>> /\ record = "yes"
        /\ \A r \in Routines \ {"client"} : code'[r] = code[r]
    BY <1>1, <1>9 DEF ClientDeprovisions
  <2>2. n["client"] = 0 /\ "client" \notin sent
    BY <1>1, <2>1 DEF IInv, Succession, Posters, Routines
  <2>3. CountsOf("client")'
    BY <2>1, <2>2, FromTheStart DEF Routines
  <2> QED
    BY <1>1, <1>3, <1>5, <1>6, <2>1, <2>2, <2>3
<1>10. CASE Crash
  <2>1. /\ n' = [r \in Routines |-> 0] /\ got' = [r \in Routines |-> {}]
        /\ sent' = {} /\ env' = env
    BY <1>10 DEF Crash
  <2> QED
    BY <2>1, FromTheStart
<1>11. CASE Next
  <2>1. env' = env
    BY <1>11, NextMoves DEF IInv
  <2> QED
    BY <1>7, <1>8, <1>9, <1>10, <1>11, <2>1, NextMoves DEF IInv
<1> QED
  BY <1>7, <1>11 DEF vars, lifeVars, programVars

-----------------------------------------------------------------------------
(* The cluster.                                                            *)
Cluster ==
  /\ made \in SUBSET Resources /\ running \in SUBSET made
  /\ draining \in SUBSET Resources
  /\ PodsOfRCs

(* A deletion leaves no pods running of what is gone.                      *)
LEMMA DeletionKeepsCluster ==
  ASSUME Cluster, NEW set \in SUBSET Resources, DeleteAll(set), env' = env
  PROVE  Cluster'
<1>1. Resources' = Resources /\ \A res : Kind(res)' = Kind(res)
  BY DEF Resources, Handler, Kind
<1>2. PICK gone \in SUBSET Resources : Delete(gone)
  <2>1. CASE Delete(set)
    BY <2>1
  <2>2. CASE \E res \in set : Delete(set \ {res})
    BY <2>2
  <2> QED
    BY <2>1, <2>2 DEF DeleteAll
<1> DEFINE slow == {res \in gone : Kind(res) \in {Rc, Dc}}
<1>3. /\ made' = made \ {res \in gone : Kind(res) # Rc}
      /\ draining' = draining \cup slow /\ running' = running \ slow
  BY <1>2 DEF Delete
<1>4. running' \subseteq made'
  BY <1>3 DEF Cluster, PodsOfRCs
<1>5. /\ running' \cap draining' = {}
      /\ \A res \in running' \cup draining' : Kind(res) \in {Rc, Dc}
  BY <1>3 DEF Cluster, PodsOfRCs
<1> QED
  BY <1>1, <1>2, <1>3, <1>4, <1>5 DEF Cluster, PodsOfRCs

LEMMA ClusterStep ==
  ASSUME IInv, [Next]_vars
  PROVE  Cluster'
<1>1. Cluster /\ got \in [Routines -> SUBSET Resources]
  BY DEF IInv, TypeOK, Cluster
<1>2. env' = env => Resources' = Resources /\ \A res : Kind(res)' = Kind(res)
  BY DEF Resources, Handler, Kind
<1>3. CASE UNCHANGED <<env, made, running, draining>>
  BY <1>1, <1>2, <1>3 DEF Cluster, PodsOfRCs
<1>4. ASSUME NEW r \in Routines, Step(r), env' = env
      PROVE  Cluster'
  <2>1. CASE PostNext(r)
    <3> DEFINE res == <<Now(r).group, Now(r).chain[n[r] + 1]>>
    <3>1. /\ Doing(r, "post") /\ code[r] # <<>> /\ n[r] < Len(Now(r).chain) /\ n[r] \in Nat
      BY <2>1 DEF PostNext, IInv, TypeOK, Counted, Doing
    <3>2. /\ Len(Now(r).chain) \in Nat
          /\ \A i \in 1..Len(Now(r).chain) : <<Now(r).group, Now(r).chain[i]>> \in Resources
      BY <3>1, ListsName DEF IInv
    <3>3. n[r] + 1 \in 1..Len(Now(r).chain)
      BY <3>1, <3>2
    <3>4. res \in Resources
      BY <3>2, <3>3
    <3>5. /\ made' = made \/ made' = made \cup {res}
          /\ running' = running /\ draining' = draining
      BY <2>1 DEF PostNext
    <3> HIDE DEF res
    <3> QED
      BY <1>1, <1>2, <1>4, <3>4, <3>5 DEF Cluster, PodsOfRCs
  <2>2. CASE UndoChain(r) \/ Kdelete(r) \/ DestroyFound(r)
    <3>1. /\ got[r] \cap Of(Now(r).group, Now(r).fields) \in SUBSET Resources
          /\ made \cap Of(Now(r).group, Now(r).fields) \in SUBSET Resources
          /\ got[r] \cap made \cap Of(Now(r).group, Now(r).fields) \in SUBSET Resources
      BY <1>1 DEF Cluster
    <3>2. \E set \in SUBSET Resources : DeleteAll(set)
      BY <2>2, <3>1 DEF UndoChain, Kdelete, DestroyFound
    <3> QED
      BY <1>1, <1>4, <3>2, DeletionKeepsCluster
  <2>3. CASE CreateTheUser(r) \/ DropTheUser(r)
    BY <1>3, <2>3 DEF CreateTheUser, DropTheUser
  <2>4. CASE Save(r) \/ Send(r) \/ LookUp(r) \/ Look(r)
             \/ AskForVolumes(r) \/ VolumesAnswered(r) \/ DeleteVolumes(r)
    BY <1>3, <2>4 DEF Save, Send, LookUp, Look, AskForVolumes, VolumesAnswered, DeleteVolumes,
       clusterVars
  <2>5. CASE WaitForPods(r) \/ LookAtCancelled(r) \/ WaitInited(r) \/ FollowWatch(r)
             \/ StopVolumeJob(r) \/ StopTheJob(r) \/ HandsOver(r)
    BY <1>3, <2>5 DEF WaitForPods, LookAtCancelled, WaitInited, FollowWatch, StopVolumeJob,
       StopTheJob, HandsOver, Start, StartHelper, DeprovisionSelf, clusterVars
  <2> QED
    BY <1>4, <2>1, <2>2, <2>3, <2>4, <2>5 DEF Step, HandsOver
<1>5. CASE \E l \in Lots : VolumeJob(l)
  BY <1>3, <1>5 DEF VolumeJob, clusterVars
<1>6. ASSUME NEW g \in DOMAIN Handler.load, PodsRun(g)
      PROVE  Cluster'
  BY <1>1, <1>2, <1>6 DEF PodsRun, Cluster, PodsOfRCs
<1>7. CASE DeleteRCs
  <2>1. /\ draining' = {} /\ running' = running /\ env' = env
        /\ made \ draining \subseteq made' /\ made' \subseteq made
    BY <1>7 DEF DeleteRCs
  <2> QED
    BY <1>1, <1>2, <2>1 DEF Cluster, PodsOfRCs
<1>8. CASE ClientDeprovisions
  BY <1>3, <1>8 DEF ClientDeprovisions, clusterVars
<1>9. CASE Crash
  <2> DEFINE res(r) == <<Now(r).group, Now(r).chain[n[r] + 1]>>
  <2>1. ASSUME NEW r \in sent
        PROVE  res(r) \in Resources
    <3>1. r \in Routines /\ Doing(r, "post")
      BY DEF IInv, TypeOK, Posters, Routines
    <3>2. code[r] # <<>> /\ n[r] < Len(Now(r).chain) /\ n[r] \in Nat
      BY <3>1 DEF IInv, TypeOK, Counted, Doing
    <3>3. /\ Len(Now(r).chain) \in Nat
          /\ \A i \in 1..Len(Now(r).chain) : <<Now(r).group, Now(r).chain[i]>> \in Resources
      BY <3>1, <3>2, ListsName DEF IInv
    <3>4. n[r] + 1 \in 1..Len(Now(r).chain)
      BY <3>2, <3>3
    <3> QED
      BY <3>3, <3>4
  <2>2. PICK late \in SUBSET {res(r) : r \in sent} : made' = made \cup late
    BY <1>9 DEF Crash
  <2>3. late \subseteq Resources
    <3> HIDE DEF res
    <3> QED
      BY <2>1
  <2>4. running' = running \cup (draining \cap made) /\ draining' = {} /\ env' = env
    BY <1>9 DEF Crash
  <2> QED
    BY <1>1, <1>2, <2>2, <2>3, <2>4 DEF Cluster, PodsOfRCs
<1>10. CASE Next
  BY <1>4, <1>5, <1>6, <1>7, <1>8, <1>9, <1>10, NextMoves DEF Next, IInv
<1> QED
  BY <1>3, <1>10 DEF vars, lifeVars, clusterVars

-----------------------------------------------------------------------------
(* The volume jobs, the users and the rest.                                *)
Others ==
  /\ env \in Surroundings
  /\ DOMAIN code = Routines
  /\ cancelled \in BOOLEAN
  /\ record \in {"no", "yes", "gone"}
  /\ users \in SUBSET {"default", "instance"}
  /\ jobs \in [Lots -> {"none", "creating", "cancelled", "answered",
                       "done", "failed", "blocked"}]
  /\ listed \in SUBSET Lots
  /\ claims \in [Lots -> {"none", "there", "gone"}]
  /\ failures \in 0..MaxFailures
  /\ crashed \in {"no", "working", "removing"}

LEMMA FailuresCounted ==
  ASSUME failures \in 0..MaxFailures, NEW kinds, ACallFails(kinds)
  PROVE  failures' \in 0..MaxFailures
BY InstanceAssumption DEF ACallFails

LEMMA OthersStep ==
  ASSUME IInv, [Next]_vars
  PROVE  Others'
<1> DEFINE Volumes == /\ jobs' \in [Lots -> {"none", "creating", "cancelled", "answered",
                                             "done", "failed", "blocked"}]
                      /\ listed' \in SUBSET Lots
                      /\ claims' \in [Lots -> {"none", "there", "gone"}]
           Rest == /\ cancelled' \in BOOLEAN
                   /\ record' \in {"no", "yes", "gone"}
                   /\ users' \in SUBSET {"default", "instance"}
           Failures == failures' \in 0..MaxFailures
<1>1. Others
  BY DEF IInv, TypeOK, Others
<1>2. UNCHANGED <<jobs, listed, claims>> => Volumes
  BY <1>1 DEF Others
<1>3. UNCHANGED <<cancelled, record, users>> => Rest
  BY <1>1 DEF Others
<1>4. /\ UNCHANGED failures => Failures
      /\ \A kinds : ACallFails(kinds) => Failures
  BY <1>1, FailuresCounted DEF Others
<1>5. ASSUME NEW r \in Routines, Step(r)
      PROVE  Volumes /\ Rest /\ Failures /\ DOMAIN code' = Routines
  <2>0. DOMAIN code' = Routines
    BY <1>5, StepMoves, HandsOverTo DEF IInv, Becomes, Starts
  <2>1. CASE AskForVolumes(r)
    <3>1. Now(r).lot \in Lots
      <4>1. Straight(Handler.load, Repertoire(r), code[r]) /\ code[r] # <<>>
        BY <2>1 DEF IInv, Programmed, WellFormed, AskForVolumes, Doing
      <4>2. Loaded(Handler.load, Now(r))
        BY <4>1, RestIsStraight DEF Now
      <4> QED
        BY <4>2, <2>1 DEF Loaded, AskForVolumes, Doing, Lots
    <3>2. Volumes
      BY <1>1, <2>1, <3>1 DEF AskForVolumes, Others
    <3> QED
      BY <1>3, <1>4, <2>0, <2>1, <3>2 DEF AskForVolumes, clusterVars, programVars
  <2>2. CASE DeleteVolumes(r)
    <3>1. Volumes
      BY <1>1, <2>2 DEF DeleteVolumes, Others
    <3> QED
      BY <1>3, <1>4, <2>0, <2>2, <3>1 DEF DeleteVolumes, clusterVars
  <2>3. CASE StopVolumeJob(r)
    <3>1. Volumes
      BY <1>1, <2>3 DEF StopVolumeJob, Others
    <3> QED
      BY <1>3, <1>4, <2>0, <2>3, <3>1 DEF StopVolumeJob, clusterVars
  <2>4. CASE Save(r) \/ StopTheJob(r)
    <3>1. Rest
      BY <1>1, <2>4 DEF Save, StopTheJob, Others, clusterVars
    <3> QED
      BY <1>2, <1>4, <2>0, <2>4, <3>1 DEF Save, StopTheJob, volumeVars
  <2>5. CASE CreateTheUser(r) \/ DropTheUser(r)
    <3>1. Rest
      BY <1>1, <2>5 DEF CreateTheUser, DropTheUser, Others
    <3> QED
      BY <1>2, <1>4, <2>0, <2>5, <3>1 DEF CreateTheUser, DropTheUser, volumeVars
  <2>6. CASE Send(r) \/ LookUp(r) \/ Look(r) \/ VolumesAnswered(r) \/ WaitForPods(r)
             \/ LookAtCancelled(r) \/ WaitInited(r) \/ FollowWatch(r) \/ HandsOver(r)
    BY <1>2, <1>3, <1>4, <2>0, <2>6 DEF Send, LookUp, Look, VolumesAnswered, WaitForPods,
       LookAtCancelled, WaitInited, FollowWatch, HandsOver, Start, StartHelper,
       DeprovisionSelf, volumeVars, clusterVars
  <2>7. CASE PostNext(r) \/ UndoChain(r) \/ Kdelete(r) \/ DestroyFound(r)
    <3>1. Failures
      BY <1>4, <2>7 DEF PostNext, UndoChain, Kdelete, DestroyFound, DeleteAll
    <3> QED
      BY <1>2, <1>3, <2>0, <2>7, <3>1 DEF PostNext, UndoChain, Kdelete, DestroyFound, volumeVars
  <2> QED
    BY <1>5, <2>1, <2>2, <2>3, <2>4, <2>5, <2>6, <2>7 DEF Step, HandsOver
<1>6. ASSUME NEW l \in Lots, VolumeJob(l)
      PROVE  Volumes /\ Rest /\ Failures /\ DOMAIN code' = Routines
  <2>1. Volumes
    BY <1>1, <1>6 DEF VolumeJob, CreateClaims, VolumesBound, OneVolumeFails, VolumesFail, Others
  <2>2. Failures
    BY <1>4, <1>6 DEF VolumeJob, CreateClaims, VolumesBound, OneVolumeFails, VolumesFail
  <2> QED
    BY <1>1, <1>3, <1>6, <2>1, <2>2 DEF VolumeJob, programVars, clusterVars, Others
<1>7. ASSUME NEW g \in DOMAIN Handler.load, PodsRun(g)
      PROVE  Volumes /\ Rest /\ Failures /\ DOMAIN code' = Routines
  BY <1>1, <1>2, <1>3, <1>4, <1>7 DEF PodsRun, programVars, volumeVars, Others
<1>8. ASSUME DeleteRCs
      PROVE  Volumes /\ Rest /\ Failures /\ DOMAIN code' = Routines
  <2>1. /\ UNCHANGED <<jobs, listed, claims>> /\ UNCHANGED <<cancelled, record, users>>
        /\ code' = code /\ (UNCHANGED failures \/ ACallFails({"any"}))
    BY <1>8 DEF DeleteRCs, programVars, volumeVars
  <2> HIDE DEF Volumes, Rest, Failures
  <2> QED
    BY <1>1, <1>2, <1>3, <1>4, <2>1 DEF Others
<1>9. ASSUME ClientDeprovisions
      PROVE  Volumes /\ Rest /\ Failures /\ DOMAIN code' = Routines
  <2>1. Rest
    BY <1>1, <1>9 DEF ClientDeprovisions, clusterVars, Others
  <2> QED
    <3>1. UNCHANGED <<jobs, listed, claims>> /\ UNCHANGED failures /\ DOMAIN code' = Routines
      BY <1>1, <1>9 DEF ClientDeprovisions, volumeVars, Others
    <3> HIDE DEF Volumes, Rest, Failures
    <3> QED
      BY <1>2, <1>4, <2>1, <3>1
<1>10. ASSUME Crash
      PROVE   Volumes /\ Rest /\ Failures /\ DOMAIN code' = Routines
  <2>1. Volumes
    <3>1. jobs' \in [Lots -> {"none", "creating", "cancelled", "answered",
                              "done", "failed", "blocked"}]
      BY <1>1, <1>10 DEF Crash, Others
    <3>2. claims' \in [Lots -> {"none", "there", "gone"}]
      BY <1>1, <1>10 DEF Crash, Others
    <3> QED
      BY <3>1, <3>2, <1>10 DEF Crash
  <2> QED
    <3>1. /\ UNCHANGED <<cancelled, record, users>> /\ UNCHANGED failures
          /\ DOMAIN code' = Routines
      BY <1>10 DEF Crash
    <3> HIDE DEF Volumes, Rest, Failures
    <3> QED
      BY <1>3, <1>4, <2>1, <3>1
<1>11. CASE UNCHANGED vars
  BY <1>1, <1>11 DEF Others, vars, lifeVars, programVars, clusterVars, volumeVars
<1>12. CASE Next
  <2>1. env' = env
    BY <1>12, NextMoves DEF IInv
  <2>2. crashed' \in {"no", "working", "removing"}
    BY <1>1, <1>12 DEF Next, Crash, Others
  <2>3. Volumes /\ Rest /\ Failures /\ DOMAIN code' = Routines
    <3> HIDE DEF Volumes, Rest, Failures
    <3> QED
      BY <1>5, <1>6, <1>7, <1>8, <1>9, <1>10, <1>12 DEF Next
  <2> QED
    BY <1>1, <2>1, <2>2, <2>3 DEF Others
<1> QED
  BY <1>11, <1>12

-----------------------------------------------------------------------------
(* Types.                                                                  *)
LEMMA InitInvariant ==
  ASSUME Init
  PROVE  IInv
<1>1. Others /\ Cluster /\ Counters
  <2>1. Others
    <3>1. failures \in 0..MaxFailures
      BY InstanceAssumption DEF Init
    <3>2. DOMAIN code = Routines /\ env \in Surroundings
      BY DEF Init
    <3>3. /\ jobs \in [Lots -> {"none", "creating", "cancelled", "answered",
                                "done", "failed", "blocked"}]
          /\ claims \in [Lots -> {"none", "there", "gone"}]
      BY DEF Init
    <3> QED
      BY <3>1, <3>2, <3>3 DEF Init, Others
  <2>2. Cluster
    BY DEF Init, Cluster, PodsOfRCs
  <2>3. Counters
    BY DEF Init, Counters
  <2> QED
    BY <2>1, <2>2, <2>3
<1>2. TypeOK
  BY <1>1 DEF TypeOK, Others, Cluster, Counters
<1>3. /\ code["provisioner"] = Handler.DoProvision /\ record = "no"
      /\ \A r \in Routines \ {"provisioner"} : code[r] = <<>>
      /\ \A r \in Routines : n[r] = 0
  BY DEF Init, Routines
<1>4. Programmed
  <2>1. \A r \in Routines : Fits(r, code[r])
    BY <1>2, <1>3, HandlersFit, NothingFits
  <2> QED
    BY <2>1 DEF Programmed, Fits
<1>5. Succession
  BY <1>3, NothingIsWellFormed DEF Succession, Routines
<1>6. Counted
  <2> SUFFICES ASSUME NEW r \in Routines, Doing(r, "post")
               PROVE  n[r] < Len(Now(r).chain)
    BY <1>3 DEF Counted
  <2>1. Len(Now(r).chain) \in Nat \ {0}
    BY <1>4, ListsName DEF Doing
  <2> QED
    BY <1>3, <2>1
<1> QED
  BY <1>1, <1>2, <1>4, <1>5, <1>6 DEF IInv, Cluster

LEMMA NextInvariant ==
  ASSUME IInv, [Next]_vars
  PROVE  IInv'
<1>1. Programmed' /\ Succession'
  BY ProgramsStep DEF IInv
<1>2. Counters' /\ Counted' /\ Cluster' /\ Others'
  BY <1>1, CountersStep, ClusterStep, OthersStep
<1>3. TypeOK'
  BY <1>2 DEF TypeOK, Counters, Cluster, Others
<1> QED
  BY <1>1, <1>2, <1>3 DEF IInv, Cluster

(* The goroutines of a service stay within their programs, whatever fails  *)
(* and whenever the broker crashes: nobody is started while it runs, posts *)
(* and look-ups stay within their lists, only a poster with a request      *)
(* under way is waited for, and no pods run of what does not exist (every  *)
(* goroutine of DoProvision, of a job's run and of DoDeprovision).         *)
THEOREM ServiceTypes == Spec => []TypeOK
<1>1. Init => IInv
  BY InitInvariant
<1>2. IInv /\ [Next]_vars => IInv'
  BY NextInvariant
<1>3. IInv => TypeOK
  BY DEF IInv
<1> QED
  BY <1>1, <1>2, <1>3, PTL DEF Spec

-----------------------------------------------------------------------------
(* The volume jobs.                                                        *)

(* An asker waits while its job is at work, and asks but once: what it has *)
(* asked for is not ahead of it any more.  The job of the second lot's     *)
(* asker is started when the provisioner has ended.                        *)
Awaited ==
  /\ \A l \in Lots :
       /\ l \in listed => jobs[l] # "none"
       /\ jobs[l] \in {"creating", "cancelled"} => Unread(l) /\ l \in listed
       /\ \A i \in DOMAIN code[Asker(l)] :
            code[Asker(l)][i].do = "volumes" /\ i # 1 => jobs[l] = "none"
  /\ code["provisioner"] # <<>> => jobs[2] = "none"

Uncrashed == env.faults # "crash"
AInv == IInv /\ Uncrashed /\ Awaited

Over == {"done"} \cup Failed

(* What can happen to a lot of volumes.                                    *)
SameListing(l) == l \in listed' <=> l \in listed
SameCode(l) == code'[Asker(l)] = code[Asker(l)]

Undisturbed(l) ==
  /\ SameCode(l) /\ SameListing(l)
  /\ \/ jobs'[l] = jobs[l]
     \/ jobs[l] = "creating" /\ jobs'[l] = "cancelled"
     \/ jobs[l] = "answered" /\ jobs'[l] \in {"failed", "blocked"}

AskerGoesOn(l) ==
  /\ SameListing(l) /\ jobs'[l] = jobs[l] /\ jobs[l] \notin {"creating", "cancelled"}
  /\ jobs[l] # "none" => /\ \A step \in Steps(code'[Asker(l)]) : step.do # "volumes"
                         /\ ~Unread(l)'

IsAsked(l) ==
  /\ SameCode(l) /\ Unread(l) /\ l \in listed'
  /\ jobs[l] = "none" /\ jobs'[l] = "creating"

IsSettled(l) ==
  /\ SameCode(l) /\ SameListing(l)
  /\ jobs[l] \in {"creating", "cancelled"} /\ jobs'[l] \in Over

IsReleased(l) ==
  /\ SameCode(l) /\ l \in listed /\ l \notin listed'
  /\ jobs'[l] = jobs[l] /\ jobs[l] \in {"done", "failed"}

LotMoves(l) ==
  Undisturbed(l) \/ AskerGoesOn(l) \/ IsAsked(l) \/ IsSettled(l) \/ IsReleased(l)

(* Only the asker of a lot asks for it.                                    *)
LEMMA OnlyTheAsker ==
  ASSUME IInv, NEW r \in Routines, Doing(r, "volumes")
  PROVE  Now(r).lot \in Lots /\ \A l \in Lots : r = Asker(l) <=> l = Now(r).lot
<1>1. Straight(Handler.load, Repertoire(r), code[r]) /\ code[r] # <<>>
  BY DEF IInv, Programmed, WellFormed, Doing
<1>2. Loaded(Handler.load, Now(r)) /\ Now(r) \in Steps(code[r])
  BY <1>1, RestIsStraight DEF Now
<1>3. Now(r).lot \in Lots /\ r = Asker(Now(r).lot)
  BY <1>2 DEF Loaded, Lots, Doing, IInv, Programmed
<1> QED
  BY <1>3 DEF Asker, Lots

(* Only these steps touch the volume jobs.                                 *)
LEMMA StepLeavesJobs ==
  ASSUME NEW r \in Routines, Step(r), ~AskForVolumes(r), ~StopVolumeJob(r)
  PROVE  UNCHANGED <<jobs, listed>>
<1>1. CASE Save(r) \/ Send(r) \/ PostNext(r) \/ UndoChain(r) \/ Kdelete(r) \/ LookUp(r)
           \/ DestroyFound(r) \/ Look(r) \/ VolumesAnswered(r) \/ DeleteVolumes(r)
  BY <1>1 DEF Save, Send, PostNext, UndoChain, Kdelete, LookUp, DestroyFound, Look,
     VolumesAnswered, DeleteVolumes, volumeVars
<1>2. CASE Start(r) \/ WaitForPods(r) \/ LookAtCancelled(r) \/ WaitInited(r) \/ FollowWatch(r)
           \/ StartHelper(r) \/ CreateTheUser(r) \/ DropTheUser(r) \/ StopTheJob(r)
           \/ DeprovisionSelf(r)
  BY <1>2 DEF Start, WaitForPods, LookAtCancelled, WaitInited, FollowWatch, StartHelper,
     CreateTheUser, DropTheUser, StopTheJob, DeprovisionSelf, volumeVars
<1> QED
  BY <1>1, <1>2 DEF Step

(* An asker that has asked goes on to what asks for nothing.               *)
LEMMA NothingAskedAgain ==
  ASSUME AInv, NEW l \in Lots, jobs[l] # "none", NEW q,
         code[Asker(l)] # <<>>, Follows(Asker(l), q), q # code[Asker(l)]
  PROVE  /\ \A step \in Steps(q) : step.do # "volumes"
         /\ q # <<>> => Head(q).do # "volumes"
<1> DEFINE r == Asker(l)
<1>1. r \in Routines
  BY DEF Asker, Routines
<1>2. /\ Straight(Handler.load, Repertoire(r), code[r])
      /\ \A step \in Steps(code[r]) : step.do \in Branching => Straight(Handler.load, UndoSteps, step.else)
  BY <1>1 DEF AInv, IInv, Programmed, WellFormed
<1>3. WellFormed(Handler.load, Repertoire(r), q)
  BY <1>1, FollowsWellFormed DEF AInv, IInv
<1>4. \A step \in Steps(q) : step.do # "volumes"
  <2>1. CASE q = Tail(code[r])
    <3> SUFFICES ASSUME NEW i \in DOMAIN Tail(code[r]), Tail(code[r])[i].do = "volumes"
                 PROVE  FALSE
      BY <2>1 DEF Steps
    <3>1. \A p : Straight(Handler.load, Repertoire(r), p) /\ p # <<>>
                => \A k \in DOMAIN Tail(p) :
                     k + 1 \in DOMAIN p /\ k + 1 # 1 /\ Tail(p)[k] = p[k + 1]
      BY RestIsStraight
    <3>2. i + 1 \in DOMAIN code[r] /\ i + 1 # 1 /\ code[r][i + 1].do = "volumes"
      BY <1>2, <3>1
    <3> QED
      BY <3>2 DEF AInv, Awaited
  <2>2. CASE q = <<>>
    BY <2>2, NothingIsWellFormed
  <2>3. CASE Now(r).do \in Branching /\ q = Now(r).else
    <3>1. Now(r) \in Steps(code[r])
      BY <1>2, RestIsStraight DEF Now
    <3>2. Straight(Handler.load, UndoSteps, q)
      BY <1>2, <2>3, <3>1
    <3> QED
      <4>1. \A step \in Steps(q) : step.do \in UndoSteps
        BY <3>2, StepsAreOfKind
      <4> QED
        BY <4>1 DEF UndoSteps
  <2> QED
    BY <2>1, <2>2, <2>3 DEF Follows
<1>5. q # <<>> => Head(q) \in Steps(q)
  BY <1>3, RestIsStraight DEF WellFormed
<1> QED
  BY <1>4, <1>5

LEMMA LotStep ==
  ASSUME AInv, [Next]_vars, NEW l \in Lots
  PROVE  LotMoves(l)
<1> DEFINE a == Asker(l)
<1>1. a \in {"provisioner", "job"} /\ a \in Routines
  BY DEF Asker, Routines
<1>2. jobs \in [Lots -> {"none", "creating", "cancelled", "answered",
                         "done", "failed", "blocked"}]
  BY DEF AInv, IInv, TypeOK
<1>3. CASE UNCHANGED <<jobs, listed>> /\ code'[a] = code[a]
  BY <1>3 DEF LotMoves, Undisturbed, SameCode, SameListing
<1>4. ASSUME NEW r \in Routines, AskForVolumes(r)
      PROVE  LotMoves(l)
  <2>1. /\ Doing(r, "volumes") /\ jobs[Now(r).lot] = "none"
        /\ jobs' = [jobs EXCEPT ![Now(r).lot] = "creating"]
        /\ listed' = listed \cup {Now(r).lot} /\ code' = code
    BY <1>4 DEF AskForVolumes, programVars
  <2>2. CASE Now(r).lot = l
    <3>1. r = a
      BY <2>1, <2>2, OnlyTheAsker DEF AInv
    <3> QED
      BY <1>2, <2>1, <2>2, <3>1 DEF LotMoves, IsAsked, SameCode, Unread
  <2>3. CASE Now(r).lot # l
    BY <1>2, <2>1, <2>3 DEF LotMoves, Undisturbed, SameCode, SameListing
  <2> QED
    BY <2>2, <2>3
<1>5. ASSUME NEW r \in Routines, StopVolumeJob(r)
      PROVE  LotMoves(l)
  <2>1. r # a
    <3>1. Doing(r, "stop volumes")
      BY <1>5 DEF StopVolumeJob
    <3>2. Straight(Handler.load, Repertoire(r), code[r]) /\ code[r] # <<>>
      BY <3>1 DEF AInv, IInv, Programmed, WellFormed, Doing
    <3>3. Now(r).do \in Repertoire(r)
      BY <3>2, RestIsStraight DEF Now
    <3> QED
      BY <1>1, <3>1, <3>3 DEF Doing, Repertoire, ProvisionSteps, RunSteps, UndoSteps
  <2>2. /\ listed' = listed
        /\ code' = [code EXCEPT ![r] = Tail(@)] \/ code' = code
        /\ \/ jobs' = jobs
           \/ \E k : jobs[k] = "creating" /\ jobs' = [jobs EXCEPT ![k] = "cancelled"]
    BY <1>5 DEF StopVolumeJob, Continue
  <2>3. code'[a] = code[a]
    BY <1>1, <2>1, <2>2 DEF AInv, IInv, TypeOK
  <2>4. jobs'[l] = jobs[l] \/ (jobs[l] = "creating" /\ jobs'[l] = "cancelled")
    BY <1>2, <2>2
  <2> QED
    BY <2>2, <2>3, <2>4 DEF LotMoves, Undisturbed, SameCode, SameListing
<1>6. ASSUME NEW r \in Routines, Step(r), ~AskForVolumes(r), ~StopVolumeJob(r)
      PROVE  LotMoves(l)
  <2>1. UNCHANGED <<jobs, listed>> /\ code[r] # <<>>
    BY <1>6, StepLeavesJobs, StepMoves DEF AInv, IInv
  <2>2. CASE code'[a] = code[a]
    BY <1>3, <2>1, <2>2
  <2>3. CASE r = a /\ code'[a] # code[a]
    <3>1. Follows(a, code'[a])
      <4>1. CASE \E q : Follows(r, q) /\ Becomes(r, q)
        BY <2>3, <4>1 DEF Becomes
      <4>2. CASE HandsOver(r)
        BY <1>6, <2>3, <4>2, HandsOverTo DEF AInv, IInv, Starts, Follows
      <4> QED
        BY <1>6, <4>1, <4>2, StepMoves DEF AInv, IInv
    <3>2. jobs[l] # "none" =>
            /\ \A step \in Steps(code'[a]) : step.do # "volumes"
            /\ ~Unread(l)'
      <4> SUFFICES ASSUME jobs[l] # "none"
                   PROVE  /\ \A step \in Steps(code'[a]) : step.do # "volumes"
                          /\ ~Unread(l)'
        OBVIOUS
      <4>1. /\ \A step \in Steps(code'[a]) : step.do # "volumes"
            /\ code'[a] # <<>> => Head(code'[a]).do # "volumes"
        BY <2>1, <2>3, <3>1, NothingAskedAgain
      <4> QED
        BY <4>1 DEF Unread, Doing, Now
    <3>3. jobs[l] \notin {"creating", "cancelled"}
      <4> SUFFICES ASSUME jobs[l] \in {"creating", "cancelled"}
                   PROVE  FALSE
        OBVIOUS
      <4>1. Doing(r, "volumes") /\ Now(r).lot = l
        BY <2>3 DEF AInv, Awaited, Unread
      <4>2. ~VolumesAnswered(r)
        BY <4>1 DEF VolumesAnswered
      <4> QED
        BY <1>6, <4>1, <4>2 DEF Step, Doing, Save, Send, PostNext, UndoChain, Kdelete, LookUp,
           DestroyFound, Look, DeleteVolumes, Start, WaitForPods, LookAtCancelled, WaitInited,
           FollowWatch, StartHelper, CreateTheUser, DropTheUser, StopTheJob, DeprovisionSelf
    <3> QED
      BY <2>1, <3>2, <3>3 DEF LotMoves, AskerGoesOn, SameListing
  <2>4. CASE r # a /\ code'[a] # code[a]
    <3>1. HandsOver(r)
      BY <1>1, <1>6, <2>4, StepMoves DEF AInv, IInv, Becomes
    <3>2. r = "provisioner"
      BY <1>1, <2>4, <3>1, HandsOverTo DEF AInv, IInv, Starts
    <3>3. l = 2
      BY <2>4, <3>2 DEF Asker, Lots
    <3>4. jobs[l] = "none"
      BY <2>1, <3>2, <3>3 DEF AInv, Awaited
    <3> QED
      BY <2>1, <3>4 DEF LotMoves, AskerGoesOn, SameListing
  <2> QED
    BY <2>2, <2>3, <2>4
<1>7. ASSUME NEW k \in Lots, VolumeJob(k)
      PROVE  LotMoves(l)
  <2>1. code' = code
    BY <1>7 DEF VolumeJob, programVars
  <2>2. CASE CreateClaims(k) /\ listed' = listed
    BY <1>3, <2>1, <2>2 DEF CreateClaims
  <2>3. CASE VolumesBound(k) /\ listed' = listed
    <3>1. /\ jobs[k] \in {"creating", "cancelled"} /\ jobs' = [jobs EXCEPT ![k] = "done"]
      BY <2>3 DEF VolumesBound
    <3> QED
      BY <1>2, <2>1, <2>3, <3>1
      DEF LotMoves, Undisturbed, IsSettled, SameCode, SameListing, Over, Failed
  <2>4. CASE OneVolumeFails(k) /\ listed' = listed
    <3>1. /\ jobs[k] = "creating" /\ jobs' = [jobs EXCEPT ![k] = "answered"]
      BY <2>4 DEF OneVolumeFails
    <3> QED
      BY <1>2, <2>1, <2>4, <3>1
      DEF LotMoves, Undisturbed, IsSettled, SameCode, SameListing, Over, Failed
  <2>5. CASE VolumesFail(k) /\ listed' = listed
    <3>1. /\ jobs[k] \in {"creating", "cancelled", "answered"}
          /\ \/ jobs' = [jobs EXCEPT ![k] = "failed"]
             \/ jobs' = [jobs EXCEPT ![k] = "blocked"]
      BY <2>5 DEF VolumesFail
    <3>2. CASE k = l
      BY <1>2, <2>1, <2>5, <3>1, <3>2
      DEF LotMoves, Undisturbed, IsSettled, SameCode, SameListing, Over, Failed
    <3>3. CASE k # l
      BY <1>2, <2>1, <2>5, <3>1, <3>3 DEF LotMoves, Undisturbed, SameCode, SameListing
    <3> QED
      BY <3>2, <3>3
  <2>6. CASE /\ k \in listed /\ jobs[k] \in {"done", "failed"}
             /\ listed' = listed \ {k} /\ jobs' = jobs
    BY <2>1, <2>6 DEF LotMoves, Undisturbed, IsReleased, SameCode, SameListing
  <2> QED
    BY <1>7, <2>2, <2>3, <2>4, <2>5, <2>6 DEF VolumeJob
<1>8. CASE (\E g \in DOMAIN Handler.load : PodsRun(g)) \/ DeleteRCs
  BY <1>3, <1>8 DEF PodsRun, DeleteRCs, programVars, volumeVars
<1>9. CASE ClientDeprovisions
  <2>1. UNCHANGED <<jobs, listed>> /\ code'[a] = code[a]
    BY <1>1, <1>9 DEF ClientDeprovisions, volumeVars, AInv, IInv, TypeOK
  <2> QED
    BY <1>3, <2>1
<1>10. ~Crash
  BY DEF Crash, AInv, Uncrashed
<1>11. CASE UNCHANGED vars
  BY <1>3, <1>11 DEF vars, lifeVars, programVars, volumeVars
<1>12. CASE Next
  BY <1>4, <1>5, <1>6, <1>7, <1>8, <1>9, <1>10, <1>12 DEF Next
<1> QED
  BY <1>11, <1>12

LEMMA ProvisionerEnds ==
  ASSUME AInv, [Next]_vars, code["provisioner"] = <<>>
  PROVE  code'["provisioner"] = <<>>
<1>1. DOMAIN code = Routines /\ "provisioner" \in Routines
  BY DEF AInv, IInv, TypeOK, Routines
<1>2. ASSUME NEW r \in Routines, Step(r)
      PROVE  code'["provisioner"] = <<>>
  <2>1. r # "provisioner"
    BY <1>2, StepMoves DEF AInv, IInv
  <2>2. CASE \E q : Follows(r, q) /\ Becomes(r, q)
    BY <1>1, <2>1, <2>2 DEF Becomes
  <2>3. CASE HandsOver(r)
    <3>1. PICK s, p : Starts(r, s, p) /\ s # "provisioner"
      BY <2>3, HandsOverTo DEF AInv, IInv
    <3> QED
      BY <1>1, <2>1, <3>1 DEF Starts
  <2> QED
    BY <1>2, <2>2, <2>3, StepMoves DEF AInv, IInv
<1>3. CASE ClientDeprovisions
  BY <1>1, <1>3 DEF ClientDeprovisions
<1>4. CASE Crash
  BY <1>1, <1>4 DEF Crash
<1> QED
  BY <1>2, <1>3, <1>4, NextMoves DEF AInv, IInv, vars, lifeVars, programVars

LEMMA AwaitedStep ==
  ASSUME AInv, [Next]_vars
  PROVE  AInv'
<1>1. IInv'
  BY NextInvariant DEF AInv
<1>2. Uncrashed'
  BY NextMoves DEF AInv, IInv, Uncrashed, vars, lifeVars
<1>3. jobs \in [Lots -> {"none", "creating", "cancelled", "answered",
                         "done", "failed", "blocked"}]
  BY DEF AInv, IInv, TypeOK
<1>4. ASSUME NEW l \in Lots
      PROVE  /\ l \in listed' => jobs'[l] # "none"
             /\ jobs'[l] \in {"creating", "cancelled"} => Unread(l)' /\ l \in listed'
             /\ \A i \in DOMAIN code'[Asker(l)] :
                  code'[Asker(l)][i].do = "volumes" /\ i # 1 => jobs'[l] = "none"
  <2>1. /\ l \in listed => jobs[l] # "none"
        /\ jobs[l] \in {"creating", "cancelled"} => Unread(l) /\ l \in listed
        /\ \A i \in DOMAIN code[Asker(l)] :
             code[Asker(l)][i].do = "volumes" /\ i # 1 => jobs[l] = "none"
    BY DEF AInv, Awaited
  <2>2. SameCode(l) => (Unread(l)' <=> Unread(l))
    BY DEF SameCode, Unread, Doing, Now
  <2>3. CASE Undisturbed(l)
    BY <2>1, <2>2, <2>3 DEF Undisturbed, SameCode, SameListing
  <2>4. CASE AskerGoesOn(l)
    <3>1. \A i \in DOMAIN code'[Asker(l)] :
            code'[Asker(l)][i].do = "volumes" /\ i # 1 => jobs'[l] = "none"
      BY <2>4 DEF AskerGoesOn, Steps
    <3> QED
      BY <2>1, <2>4, <3>1 DEF AskerGoesOn, SameListing
  <2>5. CASE IsAsked(l)
    <3> DEFINE p == code[Asker(l)]
    <3>1. p # <<>> /\ Head(p).do = "volumes" /\ Asker(l) \in Routines
      BY <2>5 DEF IsAsked, Unread, Doing, Now, Asker, Routines
    <3>2. Straight(Handler.load, Repertoire(Asker(l)), p)
      BY <3>1 DEF AInv, IInv, Programmed, WellFormed
    <3>3. p[1].do = "volumes" /\ 1 \in DOMAIN p
      BY <3>1, <3>2, RestIsStraight
    <3>4. \A i \in DOMAIN p : p[i].do = "volumes" => i = 1
      BY <3>2, <3>3 DEF Straight, Alike
    <3> QED
      BY <2>2, <2>5, <3>4 DEF IsAsked, SameCode
  <2>6. CASE IsSettled(l)
    BY <2>1, <2>2, <2>6 DEF IsSettled, SameCode, SameListing, Over, Failed
  <2>7. CASE IsReleased(l)
    BY <2>1, <2>2, <2>7 DEF IsReleased, SameCode
  <2> QED
    BY <2>3, <2>4, <2>5, <2>6, <2>7, LotStep DEF LotMoves
<1>5. code'["provisioner"] # <<>> => jobs'[2] = "none"
  <2> SUFFICES ASSUME code'["provisioner"] # <<>>
               PROVE  jobs'[2] = "none"
    OBVIOUS
  <2>1. code["provisioner"] # <<>>
    BY ProvisionerEnds
  <2>2. jobs[2] = "none" /\ code["job"] = <<>>
    BY <2>1 DEF AInv, Awaited, IInv, Succession
  <2>3. ~Unread(2)
    BY <2>2 DEF Unread, Doing, Asker
  <2>4. LotMoves(2)
    BY LotStep DEF Lots
  <2> QED
    BY <2>2, <2>3, <2>4
    DEF LotMoves, Undisturbed, AskerGoesOn, IsAsked, IsSettled, IsReleased
<1> QED
  BY <1>1, <1>2, <1>4, <1>5 DEF AInv, Awaited

LEMMA InitAwaited ==
  ASSUME Init, env.faults # "crash"
  PROVE  AInv
<1>1. IInv
  BY InitInvariant
<1>2. Awaited
  BY DEF Init, Awaited, Lots
<1> QED
  BY <1>1, <1>2 DEF AInv, Uncrashed

(* What an abstract volume job sees of a step.                             *)
Done(l) == Settled(l, {"done"})
Lost(l) == Settled(l, Failed)

SeesNothing(l) == UNCHANGED <<Holder(l), Asked(l), Done(l), Lost(l), Answered(l)>>
SeesGrant(l) ==
  /\ Asked(l) = {} /\ Holder(l) = "nobody"
  /\ Holder(l)' = Asker(l) /\ Asked(l)' = {Asker(l)}
  /\ UNCHANGED <<Done(l), Lost(l), Answered(l)>>
SeesSettle(l) ==
  /\ Holder(l) = Asker(l)
  /\ Done(l)[Asker(l)] = {} /\ Lost(l)[Asker(l)] = {}
  /\ \/ Done(l)' = [Done(l) EXCEPT ![Asker(l)] = {l}] /\ UNCHANGED Lost(l)
     \/ Lost(l)' = [Lost(l) EXCEPT ![Asker(l)] = {l}] /\ UNCHANGED Done(l)
  /\ UNCHANGED <<Holder(l), Asked(l), Answered(l)>>
SeesAnswer(l) ==
  /\ Asked(l) = {Asker(l)} /\ Answered(l)[Asker(l)] = "none"
  /\ \/ /\ Done(l)[Asker(l)] = {l}
        /\ Answered(l)' = [Answered(l) EXCEPT ![Asker(l)] = "nil"]
     \/ /\ Lost(l)[Asker(l)] # {}
        /\ Answered(l)' = [Answered(l) EXCEPT ![Asker(l)] = "err"]
  /\ UNCHANGED <<Holder(l), Asked(l), Done(l), Lost(l)>>
SeesRelease(l) ==
  /\ Holder(l) = Asker(l) /\ Holder(l)' = "nobody"
  /\ Done(l)[Asker(l)] \cup Lost(l)[Asker(l)] = {l}
  /\ UNCHANGED <<Asked(l), Done(l), Lost(l), Answered(l)>>

LEMMA LotIsSeen ==
  ASSUME AInv, [Next]_vars, NEW l \in Lots
  PROVE  SeesNothing(l) \/ SeesGrant(l) \/ SeesSettle(l) \/ SeesAnswer(l) \/ SeesRelease(l)
<1>1. /\ l \in listed => jobs[l] # "none"
      /\ jobs[l] \in {"creating", "cancelled"} => Unread(l) /\ l \in listed
      /\ jobs[l] \in {"none", "creating", "cancelled"} \cup Over
  BY DEF AInv, Awaited, IInv, TypeOK, Over, Failed
<1>2. SameCode(l) => (Unread(l)' <=> Unread(l))
  BY DEF SameCode, Unread, Doing, Now
<1>3. SameListing(l) => Holder(l)' = Holder(l)
  BY DEF SameListing, Holder
<1>4. jobs'[l] = jobs[l] => UNCHANGED <<Asked(l), Done(l), Lost(l)>>
  BY DEF Asked, Done, Lost, Settled
<1>5. jobs'[l] = jobs[l] /\ (Unread(l)' <=> Unread(l)) => Answered(l)' = Answered(l)
  BY DEF Answered
<1>6. CASE Undisturbed(l)
  <2>1. UNCHANGED <<Asked(l), Done(l), Lost(l)>>
    BY <1>6 DEF Undisturbed, Asked, Done, Lost, Settled, Failed
  <2>2. Answered(l)' = Answered(l)
    BY <1>1, <1>2, <1>6 DEF Undisturbed, Answered
  <2> QED
    BY <1>3, <1>6, <2>1, <2>2 DEF Undisturbed, SeesNothing
<1>7. CASE AskerGoesOn(l)
  <2>1. /\ jobs'[l] = jobs[l] /\ jobs[l] \in {"none"} \cup Over
        /\ jobs[l] # "none" => ~Unread(l)'
        /\ UNCHANGED <<Holder(l), Asked(l), Done(l), Lost(l)>>
    BY <1>1, <1>3, <1>4, <1>7 DEF AskerGoesOn
  <2>2. CASE jobs[l] = "none"
    BY <2>1, <2>2 DEF SeesNothing, Answered
  <2>3. CASE jobs[l] # "none" /\ ~Unread(l)
    BY <1>5, <2>1, <2>3 DEF SeesNothing
  <2>4. CASE jobs[l] = "done" /\ Unread(l)
    <3>1. Asked(l) = {Asker(l)} /\ Done(l)[Asker(l)] = {l}
      BY <2>4 DEF Asked, Done, Settled
    <3>2. /\ Answered(l)[Asker(l)] = "none"
          /\ Answered(l)' = [Answered(l) EXCEPT ![Asker(l)] = "nil"]
      <4>1. Answered(l) = [r \in {Asker(l)} |-> "none"]
        BY <2>4 DEF Answered
      <4>2. jobs'[l] = "done" /\ jobs'[l] # "none" /\ ~Unread(l)'
        BY <2>1, <2>4
      <4>3. Answered(l)' = [r \in {Asker(l)} |-> "nil"]
        BY <4>2 DEF Answered
      <4> QED
        BY <4>1, <4>3
    <3> QED
      BY <2>1, <3>1, <3>2 DEF SeesAnswer
  <2>5. CASE jobs[l] \in Failed /\ Unread(l)
    <3>1. Asked(l) = {Asker(l)} /\ Lost(l)[Asker(l)] # {}
      BY <2>5 DEF Asked, Lost, Settled, Failed
    <3>2. /\ Answered(l)[Asker(l)] = "none"
          /\ Answered(l)' = [Answered(l) EXCEPT ![Asker(l)] = "err"]
      BY <2>1, <2>5 DEF Answered, Failed
    <3> QED
      BY <2>1, <3>1, <3>2 DEF SeesAnswer
  <2> QED
    BY <2>1, <2>2, <2>3, <2>4, <2>5 DEF Over
<1>8. CASE IsAsked(l)
  <2>1. Asked(l) = {} /\ Holder(l) = "nobody" /\ Holder(l)' = Asker(l) /\ Asked(l)' = {Asker(l)}
    BY <1>1, <1>8 DEF IsAsked, Asked, Holder
  <2>2. UNCHANGED <<Done(l), Lost(l), Answered(l)>>
    BY <1>2, <1>8 DEF IsAsked, Done, Lost, Settled, Failed, Answered
  <2> QED
    BY <2>1, <2>2 DEF SeesGrant
<1>9. CASE IsSettled(l)
  <2>1. Holder(l) = Asker(l) /\ UNCHANGED <<Holder(l), Asked(l), Answered(l)>>
    <3>1. /\ jobs[l] \in {"creating", "cancelled"} /\ jobs'[l] \in Over
          /\ l \in listed /\ Unread(l) /\ Unread(l)' /\ Holder(l)' = Holder(l)
      BY <1>1, <1>2, <1>3, <1>9 DEF IsSettled
    <3>2. jobs[l] # "none" /\ jobs'[l] # "none"
      BY <3>1 DEF Over, Failed
    <3>3. Asked(l)' = Asked(l)
      BY <3>2 DEF Asked
    <3>4. Answered(l)' = Answered(l)
      BY <3>1 DEF Answered
    <3>5. Holder(l) = Asker(l)
      BY <3>1 DEF Holder
    <3> QED
      BY <3>1, <3>3, <3>4, <3>5
  <2>2. Done(l)[Asker(l)] = {} /\ Lost(l)[Asker(l)] = {}
    BY <1>9 DEF IsSettled, Done, Lost, Settled, Failed
  <2>3. CASE jobs'[l] = "done"
    BY <1>9, <2>1, <2>2, <2>3 DEF IsSettled, SeesSettle, Done, Lost, Settled, Failed
  <2>4. CASE jobs'[l] \in Failed
    BY <1>9, <2>1, <2>2, <2>4 DEF IsSettled, SeesSettle, Done, Lost, Settled, Failed
  <2> QED
    BY <1>9, <2>3, <2>4 DEF IsSettled, Over
<1>10. CASE IsReleased(l)
  <2>1. Holder(l) = Asker(l) /\ Holder(l)' = "nobody"
    BY <1>10 DEF IsReleased, Holder
  <2>2. Done(l)[Asker(l)] \cup Lost(l)[Asker(l)] = {l}
    BY <1>10 DEF IsReleased, Done, Lost, Settled, Failed
  <2> QED
    BY <1>2, <1>4, <1>5, <1>10, <2>1, <2>2 DEF IsReleased, SeesRelease
<1> QED
  BY <1>6, <1>7, <1>8, <1>9, <1>10, LotStep DEF LotMoves

(* Unless the broker crashes, which ends the asker with its question, the  *)
(* handlers ask for their volumes, and act on the answers, as the contract *)
(* of the volume jobs has it (StartCreatePvcVolumnJob and <-result in      *)
(* DoProvision and in kafka_pvc's run).                                    *)
THEOREM VolumesAwaited == Spec /\ env.faults # "crash" => VolumesAsPromised
<1>1. Init /\ env.faults # "crash" => AInv /\ FirstLot!Init /\ SecondLot!Init
  <2> SUFFICES ASSUME Init, env.faults # "crash"
               PROVE  AInv /\ FirstLot!Init /\ SecondLot!Init
    OBVIOUS
  <2>1. \A l \in Lots : /\ Holder(l) = "nobody" /\ Asked(l) = {}
                        /\ Done(l) = [r \in {Asker(l)} |-> {}]
                        /\ Lost(l) = [r \in {Asker(l)} |-> {}]
                        /\ Answered(l) = [r \in {Asker(l)} |-> "none"]
    BY DEF Init, Holder, Asked, Done, Lost, Settled, Failed, Answered
  <2> QED
    BY <2>1, InitAwaited DEF FirstLot!Init, SecondLot!Init, Lots, Done, Lost
<1>2. AInv /\ [Next]_vars => AInv'
  BY AwaitedStep
<1>3. AInv /\ [Next]_vars => [FirstLot!Next]_(FirstLot!vars)
  <2> SUFFICES ASSUME AInv, [Next]_vars
               PROVE  [FirstLot!Next]_(FirstLot!vars)
    OBVIOUS
  <2>1. SeesNothing(1) \/ SeesGrant(1) \/ SeesSettle(1) \/ SeesAnswer(1) \/ SeesRelease(1)
    BY LotIsSeen DEF Lots
  <2>2. CASE SeesNothing(1)
    BY <2>2 DEF SeesNothing, Done, Lost, FirstLot!vars
  <2>3. CASE SeesGrant(1)
    <3>1. FirstLot!Grant(Asker(1))
      BY <2>3 DEF SeesGrant, Done, Lost, FirstLot!Grant
    <3> QED
      BY <3>1 DEF FirstLot!Next
  <2>4. CASE SeesSettle(1)
    <3>1. FirstLot!Settle(Asker(1), 1)
      BY <2>4 DEF SeesSettle, Done, Lost, FirstLot!Settle
    <3> QED
      BY <3>1 DEF FirstLot!Next
  <2>5. CASE SeesAnswer(1)
    <3>1. FirstLot!Answer(Asker(1))
      BY <2>5 DEF SeesAnswer, Done, Lost, FirstLot!Answer
    <3> QED
      BY <3>1 DEF FirstLot!Next
  <2>6. CASE SeesRelease(1)
    <3>1. FirstLot!Release(Asker(1))
      BY <2>6 DEF SeesRelease, Done, Lost, FirstLot!Release
    <3> QED
      BY <3>1 DEF FirstLot!Next
  <2> QED
    BY <2>1, <2>2, <2>3, <2>4, <2>5, <2>6
<1>4. AInv /\ [Next]_vars => [SecondLot!Next]_(SecondLot!vars)
  <2> SUFFICES ASSUME AInv, [Next]_vars
               PROVE  [SecondLot!Next]_(SecondLot!vars)
    OBVIOUS
  <2>1. SeesNothing(2) \/ SeesGrant(2) \/ SeesSettle(2) \/ SeesAnswer(2) \/ SeesRelease(2)
    BY LotIsSeen DEF Lots
  <2>2. CASE SeesNothing(2)
    BY <2>2 DEF SeesNothing, Done, Lost, SecondLot!vars
  <2>3. CASE SeesGrant(2)
    <3>1. SecondLot!Grant(Asker(2))
      BY <2>3 DEF SeesGrant, Done, Lost, SecondLot!Grant
    <3> QED
      BY <3>1 DEF SecondLot!Next
  <2>4. CASE SeesSettle(2)
    <3>1. SecondLot!Settle(Asker(2), 2)
      BY <2>4 DEF SeesSettle, Done, Lost, SecondLot!Settle
    <3> QED
      BY <3>1 DEF SecondLot!Next
  <2>5. CASE SeesAnswer(2)
    <3>1. SecondLot!Answer(Asker(2))
      BY <2>5 DEF SeesAnswer, Done, Lost, SecondLot!Answer
    <3> QED
      BY <3>1 DEF SecondLot!Next
  <2>6. CASE SeesRelease(2)
    <3>1. SecondLot!Release(Asker(2))
      BY <2>6 DEF SeesRelease, Done, Lost, SecondLot!Release
    <3> QED
      BY <3>1 DEF SecondLot!Next
  <2> QED
    BY <2>1, <2>2, <2>3, <2>4, <2>5, <2>6
<1> QED
  BY <1>1, <1>2, <1>3, <1>4, PTL DEF Spec, VolumesAsPromised, FirstLot!Spec, SecondLot!Spec
=============================================================================
