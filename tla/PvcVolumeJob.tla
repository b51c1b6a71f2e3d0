---------------------------- MODULE PvcVolumeJob ----------------------------
(***************************************************************************)
(* The volume jobs of handler/datafoundry.go.                              *)
(*                                                                         *)
(* A provisioning goroutine asks for the volumes of its instance with      *)
(* StartCreatePvcVolumnJob, an update goroutine for larger ones with       *)
(* StartExpandPvcVolumnJob.  Both register a job under the same name in    *)
(* the table pvcVolumnCreatingJobs and read ONE message from the channel   *)
(* they are given, whose capacity is 1.  The job runs one goroutine per    *)
(* volume; a deprovisioning goroutine cancels the job it finds in the      *)
(* table, polls until the table is empty, then deletes the volumes.        *)
(*                                                                         *)
(* One job name (one instance) is modelled: names do not interact.         *)
(***************************************************************************)

CONSTANTS
  Volumes,      \* the volumes of the instance (1 or 3 in the handlers)
  Creators,     \* goroutines that call StartCreatePvcVolumnJob
  Expanders,    \* goroutines that call StartExpandPvcVolumnJob
  Cancellers,   \* goroutines of DoDeprovision
  NoJob         \* the nil of the job table

Starters == Creators \cup Expanders

ASSUME StartersAssumption == /\ Creators \cap Expanders = {}
                             /\ NoJob \notin Starters
                             /\ Volumes # {}

VARIABLES
  jobs,       \* the job registered under the name, or NoJob
  cancelled,  \* [Starters -> BOOLEAN]: job.cancelChan is closed
  spc,        \* what each starter is doing
  got,        \* the message each starter has read
  c,          \* the result channel of each starter (one slot)
  rpc,        \* where run() of each starter's job is
  gpc,        \* where the goroutine of each job and volume is
  errChan,    \* the volumes whose request error is in errChan
  kpc,        \* what each canceller is doing
  ktgt,       \* the job each canceller found
  dels,       \* the DeleteVolumn goroutines each canceller has in flight
  pvc,        \* the phase of each claim in the cluster
  grown       \* the volumes that have the new size

jobVars == <<jobs, cancelled, rpc, gpc, errChan>>
starterVars == <<spc, got>>
cancellerVars == <<kpc, ktgt, dels>>
cluster == <<pvc, grown>>
vars == <<jobVars, starterVars, c, cancellerVars, cluster>>

Phases == {"absent", "pending", "bound"}
Running == {"wait", "first", "second", "delete"}

(* Where the goroutine of a volume is once its request has failed: the     *)
(* request was refused, or it was given up and the server may yet carry it *)
(* out ("timedOut") or has done so ("straggled").                          *)
RequestErrors == {"requestError", "timedOut", "straggled"}
Settled == {"ok", "waitError"} \cup RequestErrors

-----------------------------------------------------------------------------
TypeOK ==
  /\ jobs \in Starters \cup {NoJob}
  /\ cancelled \in [Starters -> BOOLEAN]
  /\ spc \in [Starters -> {"ready", "reading", "answered"}]
  /\ got \in [Starters -> {"none", "nil", "err"}]
  /\ c \in [Starters -> {"empty", "nil", "err"}]
  /\ rpc \in [Starters -> {"none", "gone"} \cup Running]
  /\ gpc \in [Starters -> [Volumes ->
                {"none", "request", "enter", "open", "watch", "report"} \cup Settled]]
  /\ errChan \in [Starters -> SUBSET Volumes]
  /\ kpc \in [Cancellers -> {"look", "cancel", "poll", "clear", "deleting"}]
  /\ ktgt \in [Cancellers -> Starters \cup {NoJob}]
  /\ dels \in [Cancellers -> SUBSET Volumes]
  /\ pvc \in [Volumes -> Phases]
  /\ grown \in SUBSET Volumes

Init ==
  /\ jobs = NoJob
  /\ cancelled = [j \in Starters |-> FALSE]
  /\ spc = [j \in Starters |-> "ready"]
  /\ got = [j \in Starters |-> "none"]
  /\ c = [j \in Starters |-> "empty"]
  /\ rpc = [j \in Starters |-> "none"]
  /\ gpc = [j \in Starters |-> [v \in Volumes |-> "none"]]
  /\ errChan = [j \in Starters |-> {}]
  /\ kpc = [k \in Cancellers |-> "look"]
  /\ ktgt = [k \in Cancellers |-> NoJob]
  /\ dels = [k \in Cancellers |-> {}]
  /\ pvc = [v \in Volumes |-> "absent"]
  /\ grown = {}

-----------------------------------------------------------------------------
(* The channel c has one slot: a send waits until the slot is empty.       *)
Send(j, m) == c[j] = "empty" /\ c' = [c EXCEPT ![j] = m]

Goto(j, v, l) == gpc' = [gpc EXCEPT ![j][v] = l]

(* Mistakes that the checks must notice stand before the definition they   *)
(* would be made in.  Here: no look at the table; no message on a refusal. *)
StartUnchecked(j) ==
  /\ spc[j] = "ready"
  /\ spc' = [spc EXCEPT ![j] = "reading"]
  /\ jobs' = j
  /\ rpc' = [rpc EXCEPT ![j] = "wait"]
  /\ gpc' = [gpc EXCEPT ![j] = [v \in Volumes |-> "request"]]
  /\ UNCHANGED <<c, cancelled, errChan, got, cancellerVars, cluster>>

StartRefusesSilently(j) ==
  /\ spc[j] = "ready"
  /\ spc' = [spc EXCEPT ![j] = "reading"]
  /\ IF jobs = NoJob
       THEN /\ jobs' = j
            /\ rpc' = [rpc EXCEPT ![j] = "wait"]
            /\ gpc' = [gpc EXCEPT ![j] = [v \in Volumes |-> "request"]]
       ELSE UNCHANGED <<jobs, rpc, gpc>>
  /\ UNCHANGED <<c, cancelled, errChan, got, cancellerVars, cluster>>

(* StartCreatePvcVolumnJob / StartExpandPvcVolumnJob, under the mutex: the *)
(* job is registered and run, or the caller gets the "is ongoing" error.   *)
Start(j) ==
  /\ spc[j] = "ready"
  /\ spc' = [spc EXCEPT ![j] = "reading"]
  /\ \/ /\ jobs = NoJob
        /\ jobs' = j
        /\ rpc' = [rpc EXCEPT ![j] = "wait"]
        /\ gpc' = [gpc EXCEPT ![j] = [v \in Volumes |-> "request"]]
        /\ UNCHANGED c
     \/ /\ jobs # NoJob
        /\ Send(j, "err")
        /\ UNCHANGED <<jobs, rpc, gpc>>
  /\ UNCHANGED <<cancelled, errChan, got, cancellerVars, cluster>>

(* The starter's only receive: err = <-result.                             *)
Read(j) ==
  /\ spc[j] = "reading"
  /\ c[j] # "empty"
  /\ spc' = [spc EXCEPT ![j] = "answered"]
  /\ got' = [got EXCEPT ![j] = c[j]]
  /\ c' = [c EXCEPT ![j] = "empty"]
  /\ UNCHANGED <<jobVars, cancellerVars, cluster>>

-----------------------------------------------------------------------------
(* The goroutine of one volume.                                            *)

(* CreateVolumn succeeded: the claim exists, pending.                      *)
CreateVolumn(j, v) ==
  /\ j \in Creators
  /\ gpc[j][v] = "request"
  /\ pvc[v] = "absent"
  /\ pvc' = [pvc EXCEPT ![v] = "pending"]
  /\ Goto(j, v, "enter")
  /\ UNCHANGED <<jobs, cancelled, rpc, errChan, starterVars, c, cancellerVars,
                 grown>>

(* ExpandVolumn succeeded: nothing to wait for.                            *)
ExpandVolumn(j, v) ==
  /\ j \in Expanders
  /\ gpc[j][v] = "request"
  /\ pvc[v] # "absent"
  /\ grown' = grown \cup {v}
  /\ Goto(j, v, "ok")
  /\ UNCHANGED <<jobs, cancelled, rpc, errChan, starterVars, c, cancellerVars,
                 pvc>>

(* Mistake: the error is logged and not put in errChan.                    *)
RequestErrorUnreported(j, v) ==
  /\ gpc[j][v] = "request"
  /\ \E l \in {"requestError", "timedOut"} : Goto(j, v, l)
  /\ UNCHANGED <<jobs, cancelled, rpc, errChan, starterVars, c, cancellerVars,
                 cluster>>

(* The request failed: the server refused it, or dfRequest gave it up      *)
(* after its 8 seconds.                                                    *)
RequestError(j, v) ==
  /\ gpc[j][v] = "request"
  /\ \E l \in {"requestError", "timedOut"} : Goto(j, v, l)
  /\ errChan' = [errChan EXCEPT ![j] = @ \cup {v}]
  /\ UNCHANGED <<jobs, cancelled, rpc, starterVars, c, cancellerVars, cluster>>

(* The server carries out a request that was given up, at any later time:  *)
(* the job may be over, and the volumes deleted, by then.  (Carried out    *)
(* with its reply lost is this step right after the error.)                *)
LateRequest(j, v) ==
  /\ gpc[j][v] = "timedOut"
  /\ Goto(j, v, "straggled")
  /\ \/ /\ j \in Creators
        /\ pvc[v] = "absent"
        /\ pvc' = [pvc EXCEPT ![v] = "pending"]
        /\ UNCHANGED grown
     \/ /\ j \in Expanders
        /\ pvc[v] # "absent"
        /\ grown' = grown \cup {v}
        /\ UNCHANGED pvc
  /\ UNCHANGED <<jobs, cancelled, rpc, errChan, starterVars, c, cancellerVars>>

(* WaitUntilPvcIsBound looks at cancelChan before it asks for the watch.   *)
EnterWait(j, v) ==
  /\ gpc[j][v] = "enter"
  /\ Goto(j, v, IF cancelled[j] THEN "report" ELSE "open")
  /\ UNCHANGED <<jobs, cancelled, rpc, errChan, starterVars, c, cancellerVars,
                 cluster>>

(* KWatch returns, with the stream or with an error.  Its client has no    *)
(* timeout, the one-hour timer is not started yet and cancelChan is not    *)
(* looked at: it may as well never return.                                 *)
KWatch(j, v) ==
  /\ gpc[j][v] = "open"
  /\ \E l \in {"watch", "report"} : Goto(j, v, l)
  /\ UNCHANGED <<jobs, cancelled, rpc, errChan, starterVars, c, cancellerVars,
                 cluster>>

(* Mistake: any phase will do.                                             *)
WaitAnyPhase(j, v) ==
  /\ gpc[j][v] = "watch"
  /\ Goto(j, v, "ok")
  /\ UNCHANGED <<jobs, cancelled, rpc, errChan, starterVars, c, cancellerVars,
                 cluster>>

(* A watch event, or the Get made 3 seconds later, shows the phase Bound.  *)
WaitBound(j, v) ==
  /\ gpc[j][v] = "watch"
  /\ pvc[v] = "bound"
  /\ Goto(j, v, "ok")
  /\ UNCHANGED <<jobs, cancelled, rpc, errChan, starterVars, c, cancellerVars,
                 cluster>>

(* The wait ends with an error: cancelled, the one-hour timer, a watch or  *)
(* decoding error, a failed Get ("pvc not found"), an unexpected phase.    *)
WaitError(j, v) ==
  /\ gpc[j][v] = "watch"
  /\ Goto(j, v, "report")
  /\ UNCHANGED <<jobs, cancelled, rpc, errChan, starterVars, c, cancellerVars,
                 cluster>>

(* c <- fmt.Errorf("WaitUntilPvcIsBound ...") straight from the goroutine. *)
ReportWaitError(j, v) ==
  /\ gpc[j][v] = "report"
  /\ Send(j, "err")
  /\ Goto(j, v, "waitError")
  /\ UNCHANGED <<jobs, cancelled, rpc, errChan, starterVars, cancellerVars,
                 cluster>>

-----------------------------------------------------------------------------
(* The body of run after the goroutines are started.                       *)

(* Mistake: no wg.Wait().                                                  *)
AllDoneEarly(j) ==
  /\ rpc[j] = "wait"
  /\ rpc' = [rpc EXCEPT ![j] = "first"]
  /\ UNCHANGED <<jobs, cancelled, gpc, errChan, starterVars, c, cancellerVars,
                 cluster>>

(* wg.Wait() returns, errChan is closed.                                   *)
AllDone(j) ==
  /\ rpc[j] = "wait"
  /\ \A v \in Volumes : gpc[j][v] \in Settled
  /\ rpc' = [rpc EXCEPT ![j] = "first"]
  /\ UNCHANGED <<jobs, cancelled, gpc, errChan, starterVars, c, cancellerVars,
                 cluster>>

(* Mistakes: errChan is not looked at; no return after c <- nil.           *)
SendNilAlways(j) ==
  /\ rpc[j] = "first"
  /\ Send(j, "nil")
  /\ rpc' = [rpc EXCEPT ![j] = "delete"]
  /\ UNCHANGED <<jobs, cancelled, gpc, errChan, starterVars, cancellerVars,
                 cluster>>

SendNilNoReturn(j) ==
  /\ rpc[j] = "first"
  /\ errChan[j] = {}
  /\ Send(j, "nil")
  /\ rpc' = [rpc EXCEPT ![j] = "second"]
  /\ UNCHANGED <<jobs, cancelled, gpc, errChan, starterVars, cancellerVars,
                 cluster>>

(* No request error: c <- nil; return.                                     *)
SendNil(j) ==
  /\ rpc[j] = "first"
  /\ errChan[j] = {}
  /\ Send(j, "nil")
  /\ rpc' = [rpc EXCEPT ![j] = "delete"]
  /\ UNCHANGED <<jobs, cancelled, gpc, errChan, starterVars, cancellerVars,
                 cluster>>

(* The request errors, joined.  The loop drains errChan.                   *)
SendJoined(j) ==
  /\ rpc[j] = "first"
  /\ errChan[j] # {}
  /\ Send(j, "err")
  /\ errChan' = [errChan EXCEPT ![j] = {}]
  /\ rpc' = [rpc EXCEPT ![j] = "second"]
  /\ UNCHANGED <<jobs, cancelled, gpc, starterVars, cancellerVars, cluster>>

(* The trailing c <- nil, which follows the joined errors.                 *)
SendTrailingNil(j) ==
  /\ rpc[j] = "second"
  /\ Send(j, "nil")
  /\ rpc' = [rpc EXCEPT ![j] = "delete"]
  /\ UNCHANGED <<jobs, cancelled, gpc, errChan, starterVars, cancellerVars,
                 cluster>>

(* Mistake: the job stays in the table.                                    *)
UnregisterForgotten(j) ==
  /\ rpc[j] = "delete"
  /\ rpc' = [rpc EXCEPT ![j] = "gone"]
  /\ UNCHANGED <<jobs, cancelled, gpc, errChan, starterVars, c, cancellerVars,
                 cluster>>

(* delete(pvcVolumnCreatingJobs, jobName), under the mutex, by NAME.       *)
Unregister(j) ==
  /\ rpc[j] = "delete"
  /\ jobs' = NoJob
  /\ rpc' = [rpc EXCEPT ![j] = "gone"]
  /\ UNCHANGED <<cancelled, gpc, errChan, starterVars, c, cancellerVars,
                 cluster>>

-----------------------------------------------------------------------------
(* The goroutine of DoDeprovision.                                         *)

(* volumeJob := GetCreatePvcVolumnJob(...)                                 *)
Look(k) ==
  /\ kpc[k] = "look"
  /\ ktgt' = [ktgt EXCEPT ![k] = jobs]
  /\ kpc' = [kpc EXCEPT ![k] = IF jobs = NoJob THEN "clear" ELSE "cancel"]
  /\ UNCHANGED <<jobVars, starterVars, c, dels, cluster>>

(* Mistake: a cancelled job leaves the table at once.                      *)
CancelUnregisters(k) ==
  /\ kpc[k] = "cancel"
  /\ cancelled' = [cancelled EXCEPT ![ktgt[k]] = TRUE]
  /\ kpc' = [kpc EXCEPT ![k] = "poll"]
  /\ jobs' = NoJob
  /\ UNCHANGED <<rpc, gpc, errChan, starterVars, c, ktgt, dels, cluster>>

(* volumeJob.Cancel(), idempotent.                                         *)
Cancel(k) ==
  /\ kpc[k] = "cancel"
  /\ cancelled' = [cancelled EXCEPT ![ktgt[k]] = TRUE]
  /\ kpc' = [kpc EXCEPT ![k] = "poll"]
  /\ UNCHANGED <<jobs, rpc, gpc, errChan, starterVars, c, ktgt, dels, cluster>>

(* Mistake: no wait.                                                       *)
PollExitAtOnce(k) ==
  /\ kpc[k] = "poll"
  /\ kpc' = [kpc EXCEPT ![k] = "clear"]
  /\ UNCHANGED <<jobVars, starterVars, c, ktgt, dels, cluster>>

(* "wait job to exit": the loop ends when the table has NO job of the name.*)
PollExit(k) ==
  /\ kpc[k] = "poll"
  /\ jobs = NoJob
  /\ kpc' = [kpc EXCEPT ![k] = "clear"]
  /\ UNCHANGED <<jobVars, starterVars, c, ktgt, dels, cluster>>

(* DeleteVolumns: one fire-and-forget goroutine per volume.                *)
DeleteVolumns(k) ==
  /\ kpc[k] = "clear"
  /\ kpc' = [kpc EXCEPT ![k] = "deleting"]
  /\ dels' = [dels EXCEPT ![k] = Volumes]
  /\ UNCHANGED <<jobVars, starterVars, c, ktgt, cluster>>

(* Mistake: a claim is taken for deleted while it is terminating.          *)
DeleteVolumnTerminates(k, v) ==
  /\ v \in dels[k]
  /\ dels' = [dels EXCEPT ![k] = @ \ {v}]
  /\ pvc' = [pvc EXCEPT ![v] = "terminating"]
  /\ UNCHANGED <<jobVars, starterVars, c, kpc, ktgt, grown>>

(* go DeleteVolumn(...): its error is dropped.                             *)
DeleteVolumn(k, v) ==
  /\ v \in dels[k]
  /\ dels' = [dels EXCEPT ![k] = @ \ {v}]
  /\ \/ /\ pvc' = [pvc EXCEPT ![v] = "absent"]
        /\ grown' = grown \ {v}
     \/ UNCHANGED cluster
  /\ UNCHANGED <<jobVars, starterVars, c, kpc, ktgt>>

(* The cluster binds a claim.                                              *)
ClusterBind(v) ==
  /\ pvc[v] = "pending"
  /\ pvc' = [pvc EXCEPT ![v] = "bound"]
  /\ UNCHANGED <<jobVars, starterVars, c, cancellerVars, grown>>

-----------------------------------------------------------------------------
VolumeStep(j, v) ==
  \/ CreateVolumn(j, v) \/ ExpandVolumn(j, v) \/ RequestError(j, v)
  \/ EnterWait(j, v) \/ WaitBound(j, v) \/ WaitError(j, v)
  \/ ReportWaitError(j, v)

(* What nothing obliges to happen: a watch request that returns, a given   *)
(* up request that is carried out.                                         *)
RemoteStep(j, v) == KWatch(j, v) \/ LateRequest(j, v)

RunStep(j) ==
  \/ AllDone(j) \/ SendNil(j) \/ SendJoined(j) \/ SendTrailingNil(j)
  \/ Unregister(j)

CancellerStep(k) ==
  \/ Look(k) \/ Cancel(k) \/ PollExit(k) \/ DeleteVolumns(k)

Next ==
  \/ \E j \in Starters : Start(j) \/ Read(j) \/ RunStep(j)
  \/ \E j \in Starters, v \in Volumes : VolumeStep(j, v) \/ RemoteStep(j, v)
  \/ \E k \in Cancellers : CancellerStep(k)
  \/ \E k \in Cancellers, v \in Volumes : DeleteVolumn(k, v)
  \/ \E v \in Volumes : ClusterBind(v)

(* Every started goroutine keeps running: a request ends (8s), an opened   *)
(* watch ends (one hour at most), a poll comes round.  Not so KWatch: the  *)
(* request that opens the watch has no timeout.  Nothing obliges a starter *)
(* or a canceller to arrive, the cluster to bind a claim, or the server to *)
(* carry out a request that was given up.                                  *)
Fairness ==
  /\ \A j \in Starters : WF_vars(Read(j)) /\ WF_vars(RunStep(j))
  /\ \A j \in Starters, v \in Volumes : WF_vars(VolumeStep(j, v))
  /\ \A k \in Cancellers : WF_vars(Cancel(k) \/ PollExit(k) \/ DeleteVolumns(k))
  /\ \A k \in Cancellers, v \in Volumes : WF_vars(DeleteVolumn(k, v))

Spec == Init /\ [][Next]_vars
FairSpec == Spec /\ Fairness

(* A platform whose watch requests always return.                          *)
PromptSpec ==
  FairSpec /\ \A j \in Starters, v \in Volumes : WF_vars(KWatch(j, v))

-----------------------------------------------------------------------------
Failed(j) == {v \in Volumes : gpc[j][v] \in RequestErrors \cup {"waitError", "report"}}
Active(j) == {v \in Volumes : gpc[j][v] \in {"request", "enter", "open", "watch", "report"}}

(* A goroutine of j's job waits for KWatch to return.                      *)
InWatch(j) == \E v \in Volumes : gpc[j][v] = "open"

(* A goroutine of j's job waits to send on a channel nobody will read: the *)
(* starter made its one receive and the slot is taken.                     *)
Blocked(j) ==
  /\ spc[j] = "answered"
  /\ c[j] # "empty"
  /\ \/ rpc[j] \in {"first", "second"}
     \/ \E v \in Volumes : gpc[j][v] = "report"

(* Jobs of one name exclude each other although Unregister deletes by name *)
(* and not by job: the table holds j exactly while j's job runs.           *)
OneJobAtATime == \A j \in Starters : rpc[j] \in Running <=> jobs = j

(* The one message the starter reads tells the truth although the channel  *)
(* also carries a nil after errors (lines 254, 268, 276, 305): nil only if *)
(* every volume went well, an error only if the job was refused or a       *)
(* volume failed.                                                          *)
AnswerIsTrue ==
  \A j \in Starters :
    /\ got[j] = "nil" => \A v \in Volumes : gpc[j][v] = "ok"
    /\ got[j] = "err" => rpc[j] = "none" \/ Failed(j) # {}

(* What a creator that was told nil relies on when it goes on to create    *)
(* the pods: every claim is bound, until a deprovisioner deletes it.       *)
ClaimsBoundWhenTold ==
  (\E j \in Creators : got[j] = "nil") =>
    \/ \E k \in Cancellers : kpc[k] = "deleting"
    \/ \A v \in Volumes : pvc[v] = "bound"

(* A canceller that found a job deletes volumes only when no goroutine of  *)
(* that job can still make a request: its deletions are overtaken by none  *)
(* but a request that was given up before and is carried out late.         *)
DeletionsFollowTheJob ==
  \A k \in Cancellers :
    kpc[k] \in {"clear", "deleting"} /\ ktgt[k] # NoJob =>
      rpc[ktgt[k]] = "gone" /\ Active(ktgt[k]) = {}

(* The exact price of the one-slot channel (line 175): a job's goroutine   *)
(* is blocked for good only if two volumes failed, one of them while       *)
(* waiting to be bound; an expanding job never is.                         *)
BlockedByTwoFailures ==
  \A j \in Starters :
    Blocked(j) =>
      /\ j \in Creators
      /\ \E v, w \in Failed(j) : v # w /\ gpc[j][v] \notin RequestErrors

(* Every claim that comes into being has somebody who answers for it:      *)
(* either a creating job that is still in the table asks for it, so that a *)
(* canceller waits for it, or it is a request that was given up, whose     *)
(* starter is not told that all went well, so that it undoes.              *)
ClaimsAreAccountedFor ==
  [][\A v \in Volumes : pvc[v] = "absent" /\ pvc'[v] # "absent" =>
       \/ jobs \in Creators /\ jobs' = jobs /\ gpc[jobs][v] = "request"
       \/ \E j \in Creators : gpc[j][v] = "timedOut" /\ got[j] # "nil"]_vars

(* Liveness: whoever starts a job, or is refused one, is answered, unless  *)
(* a watch request of its job never returns.  (It reads until it is        *)
(* answered, and a goroutine enters KWatch once: if it is never answered,  *)
(* one goroutine of its job stays in KWatch for ever.)                     *)
StarterIsAnswered ==
  \A j \in Starters :
    spc[j] = "reading" ~> spc[j] = "answered" \/ InWatch(j)

(* Liveness: a job leaves the table, so a deprovisioner that waits for it  *)
(* goes on to delete the volumes ("wait job to exit", "caller will do the  *)
(* deletions").                                                            *)
CallerDoesTheDeletions ==
  \A k \in Cancellers : kpc[k] = "poll" ~> kpc[k] = "deleting"

(* Liveness: what the code does promise of it: the deprovisioner's wait    *)
(* ends unless a job is blocked for good, which takes two failures, or is  *)
(* held for ever by a watch request that never returns.                    *)
PollEndsUnlessBlocked ==
  \A k \in Cancellers :
    kpc[k] = "poll" ~>
      kpc[k] = "deleting" \/ \E j \in Starters : Blocked(j) \/ InWatch(j)

-----------------------------------------------------------------------------
(* The contract's state, read off the job's.                               *)
Contract == INSTANCE VolumeJobContract WITH
  Nobody <- NoJob,
  holder <- jobs,
  asked <- {j \in Starters : spc[j] # "ready"},
  refused <- {j \in Starters : spc[j] # "ready" /\ rpc[j] = "none"},
  done <- [j \in Starters |-> {v \in Volumes : gpc[j][v] = "ok"}],
  failed <- [j \in Starters |-> Failed(j)],
  answer <- got

(* Every behaviour of the goroutines, the channel and the table is one the *)
(* contract of VolumeJobContract allows.                                   *)
KeepsContract == Contract!Spec

-----------------------------------------------------------------------------
(* The inductive invariant behind the safety properties, in parts.         *)

(* Where the starter, its job and the job's goroutines are, together.      *)
Shape ==
  \A j \in Starters :
    /\ rpc[j] \in Running <=> jobs = j
    /\ got[j] = "none" <=> spc[j] # "answered"
    /\ spc[j] = "ready" => rpc[j] = "none" /\ c[j] = "empty"
    /\ rpc[j] = "none" => \A v \in Volumes : gpc[j][v] = "none"
    /\ rpc[j] = "wait" => \A v \in Volumes : gpc[j][v] # "none"
    /\ rpc[j] \in {"first", "second", "delete", "gone"} =>
         \A v \in Volumes : gpc[j][v] \in Settled
    /\ j \in Expanders =>
         \A v \in Volumes :
           gpc[j][v] \in {"none", "request", "ok"} \cup RequestErrors
    /\ rpc[j] \in {"none", "wait", "first"} =>
         errChan[j] = {v \in Volumes : gpc[j][v] \in RequestErrors}

(* The first message is an error as soon as anything has failed and spoken.*)
Told ==
  \A j \in Starters :
    /\ rpc[j] = "none" => c[j] # "nil" /\ got[j] # "nil"
    /\ got[j] = "nil" => \A v \in Volumes : gpc[j][v] = "ok"
    /\ c[j] = "nil" /\ got[j] = "none" => \A v \in Volumes : gpc[j][v] = "ok"
    /\ c[j] = "err" \/ got[j] = "err" => rpc[j] = "none" \/ Failed(j) # {}
    /\ rpc[j] = "second" \/ (\E v \in Volumes : gpc[j][v] = "waitError") =>
         c[j] = "err" \/ got[j] # "none"

(* How many messages have gone through the slot, by the goroutines that    *)
(* sent them.                                                              *)
Slot ==
  \A j \in Starters :
    /\ rpc[j] \in {"wait", "first"} /\ (got[j] # "none" \/ c[j] # "empty") =>
         \E v \in Volumes : gpc[j][v] = "waitError"
    /\ rpc[j] \in {"wait", "first"} /\ got[j] # "none" /\ c[j] # "empty" =>
         \E v, w \in Volumes : /\ v # w
                               /\ gpc[j][v] = "waitError"
                               /\ gpc[j][w] = "waitError"
    /\ rpc[j] = "second" => \E v \in Volumes : gpc[j][v] \in RequestErrors
    /\ rpc[j] = "second" /\ got[j] # "none" /\ c[j] # "empty" =>
         \E v \in Volumes : gpc[j][v] = "waitError"

(* A claim that a job saw bound stays bound until somebody deletes.        *)
Claims ==
  /\ \A k \in Cancellers : dels[k] # {} => kpc[k] = "deleting"
  /\ \/ \E k \in Cancellers : kpc[k] = "deleting"
     \/ \A j \in Creators, v \in Volumes : gpc[j][v] = "ok" => pvc[v] = "bound"

(* The job a canceller found has run, and is gone once the wait is over.   *)
Found ==
  \A k \in Cancellers :
    /\ kpc[k] \in {"cancel", "poll"} =>
         ktgt[k] \in Starters /\ rpc[ktgt[k]] # "none"
    /\ kpc[k] \in {"clear", "deleting"} /\ ktgt[k] # NoJob =>
         rpc[ktgt[k]] = "gone"

IInv == TypeOK /\ Shape /\ Told /\ Slot /\ Claims /\ Found
=============================================================================
