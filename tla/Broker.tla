------------------------------- MODULE Broker -------------------------------
(***************************************************************************)
(* The front end of the broker (main.go): the service-broker operations on *)
(* ONE instance id, each an HTTP request that reads and writes the record  *)
(* of the instance in etcd in several separate calls.  Nothing serialises  *)
(* the requests but the etcd calls themselves.                             *)
(*                                                                         *)
(* A handler's goroutines are kept abstract: what a provisioning goroutine *)
(* builds is either there or not, a destroyer may come too early for it.   *)
(* PvcHandler has their detail.                                            *)
(***************************************************************************)
EXTENDS Naturals, FiniteSets

CONSTANTS
  Provisions, Updates, Deprovisions, Binds, Unbinds,  \* the requests
  BindingOf,    \* the binding id of each bind and unbind request
  Size0,        \* the volume size of the plan
  Target,       \* the size each update asks for
  MaxInFlight,  \* bound: requests under way at a time
  NoInfo        \* an _info key that is not there

Requests == Provisions \cup Updates \cup Deprovisions \cup Binds \cup Unbinds
BindingIDs == {BindingOf[r] : r \in Binds \cup Unbinds}
Infos == [prov : Provisions, size : {Size0} \cup {Target[u] : u \in Updates}]

ASSUME BrokerAssumption ==
  /\ IsFiniteSet(Provisions) /\ IsFiniteSet(Deprovisions)
  /\ Provisions \cap (Updates \cup Deprovisions \cup Binds \cup Unbinds) = {}
  /\ Updates \cap (Deprovisions \cup Binds \cup Unbinds) = {}
  /\ Deprovisions \cap (Binds \cup Unbinds) = {}
  /\ Binds \cap Unbinds = {}
  /\ Size0 \in Nat
  /\ Target \in [Updates -> Nat]
  /\ NoInfo \notin Infos
  /\ MaxInFlight \in Nat \ {0}

VARIABLES
  store,    \* the instance's directory in etcd
  pc,       \* where each request is
  reply,    \* what each request was answered
  info,     \* the _info each update and deprovision has read (myServiceInfo)
  saved,    \* the message in each provision's etcdSaveResult
  backend,  \* the provisioning goroutine and what it has built
  undo,     \* the destroyer goroutine of each deprovision
  updater,  \* the goroutine of each update's DoUpdate
  env       \* what the surroundings are like, chosen once

vars == <<store, pc, reply, info, saved, backend, undo, updater, env>>

(* storeFails: calls to etcd may fail.  patient: the platform sends one    *)
(* request at a time and waits for its background work to end.             *)
Envs == [storeFails : BOOLEAN, patient : BOOLEAN]

(* dir: the instance directory; ids: service_id and plan_id; info: _info;  *)
(* binding: the binding directory; bound: the bindings in it; cred: those  *)
(* of them that have their own _info.                                      *)
Empty == [dir |-> FALSE, ids |-> FALSE, info |-> NoInfo, binding |-> FALSE,
          bound |-> {}, cred |-> {}]

Stores == [dir : BOOLEAN, ids : BOOLEAN, info : Infos \cup {NoInfo},
           binding : BOOLEAN, bound : SUBSET BindingIDs, cred : SUBSET BindingIDs]

(* etcd Set creates the parent directories of a key.                       *)
With(s) == [s EXCEPT !.dir = TRUE]
WithBinding(s) == [s EXCEPT !.dir = TRUE, !.binding = TRUE]

(* etcdset calls that lead to s: five tries each, whose last error no      *)
(* caller looks at.  If some fail, or all, the directory may still appear. *)
Set(s) == \/ store' = s
          \/ env.storeFails /\ store' \in {store, With(store)}

-----------------------------------------------------------------------------
TypeOK ==
  /\ store \in Stores
  /\ pc \in [Requests ->
               {"new", "read", "begin", "mkdir", "ids", "info", "mkbinding", "do", "rmdir", "binding", "check", "mkbind", "cred",
                "rmbind", "done"}]
  /\ reply \in [Requests -> {"none", "ok", "noop", "error", "deleteError"}]
  /\ info \in [Updates \cup Deprovisions -> Infos \cup {NoInfo}]
  /\ saved \in [Provisions -> {"none", "nil", "err", "taken"}]
  /\ backend \in [Provisions -> {"none", "waiting", "quit", "building", "built",
                                 "destroyed"}]
  /\ undo \in [Deprovisions -> {"none", "running", "done"}]
  /\ updater \in [Updates -> {"none", "expand", "save", "done"}]
  /\ env \in Envs

Init ==
  /\ store = Empty
  /\ pc = [r \in Requests |-> "new"]
  /\ reply = [r \in Requests |-> "none"]
  /\ info = [r \in Updates \cup Deprovisions |-> NoInfo]
  /\ saved = [p \in Provisions |-> "none"]
  /\ backend = [p \in Provisions |-> "none"]
  /\ undo = [d \in Deprovisions |-> "none"]
  /\ updater = [u \in Updates |-> "none"]
  /\ env \in Envs

goroutines == <<saved, backend, undo, updater>>

At(r, l) == pc[r] = l
Goto(r, l) == pc' = [pc EXCEPT ![r] = l] /\ UNCHANGED reply
Answer(r, m) == pc' = [pc EXCEPT ![r] = "done"] /\ reply' = [reply EXCEPT ![r] = m]

InFlight == {r \in Requests : pc[r] \notin {"new", "done"}}

(* No handler goroutine has work left.                                     *)
Settled ==
  /\ \A p \in Provisions : backend[p] \notin {"waiting", "building"}
  /\ \A d \in Deprovisions : undo[d] # "running"
  /\ \A u \in Updates : updater[u] \in {"none", "done"}

(* The HTTP server starts a goroutine for the request.  A patient platform *)
(* polls LastOperation until the operation before is over.                 *)
Arrive(r) ==
  /\ At(r, "new")
  /\ Cardinality(InFlight) < MaxInFlight
  /\ env.patient => InFlight = {} /\ Settled
  /\ Goto(r, "read")
  /\ UNCHANGED <<store, info, goroutines, env>>

-----------------------------------------------------------------------------
(* Provision                                                               *)

(* List the instances; an error or an instance of this id ends it.         *)
ProvisionRead(p) ==
  /\ At(p, "read")
  /\ \/ store.dir /\ Answer(p, "error")
     \/ ~store.dir /\ Goto(p, "begin")
     \/ env.storeFails /\ Answer(p, "error")
  /\ UNCHANGED <<store, info, goroutines, env>>

(* Mistakes that the checks must notice stand before the definition they   *)
(* would be made in.  Here: the goroutine does not wait for the record.    *)
ProvisionBeginBuilds(p) ==
  /\ At(p, "begin")
  /\ \/ Answer(p, "error") /\ UNCHANGED backend
     \/ Goto(p, "mkdir") /\ backend' = [backend EXCEPT ![p] = "building"]
  /\ UNCHANGED <<store, info, saved, undo, updater, env>>

(* The catalog look-ups and findServicePlanInfo, which may fail, then      *)
(* DoProvision, which starts the goroutine that waits for etcdSaveResult   *)
(* and may all the same return an error.                                   *)
ProvisionBegin(p) ==
  /\ At(p, "begin")
  /\ \/ Answer(p, "error") /\ UNCHANGED <<saved, backend>>
     \/ /\ Answer(p, "error")
        /\ backend' = [backend EXCEPT ![p] = "waiting"]
        /\ saved' = [saved EXCEPT ![p] = "err"]
     \/ /\ Goto(p, "mkdir")
        /\ backend' = [backend EXCEPT ![p] = "waiting"]
        /\ UNCHANGED saved
  /\ UNCHANGED <<store, info, undo, updater, env>>

(* Mistake: the goroutine is not told of the error.                        *)
ProvisionMkdirSilent(p) ==
  /\ At(p, "mkdir")
  /\ \/ ~store.dir /\ store' = With(store) /\ Goto(p, "ids")
     \/ (store.dir \/ env.storeFails) /\ UNCHANGED store /\ Answer(p, "error")
  /\ UNCHANGED <<info, goroutines, env>>

(* Set of a directory: refused by etcd when the directory exists.  A call  *)
(* that timed out may have been carried out.                               *)
ProvisionMkdir(p) ==
  /\ At(p, "mkdir")
  /\ \/ /\ ~store.dir
        /\ store' = With(store)
        /\ Goto(p, "ids")
        /\ UNCHANGED saved
     \/ /\ \/ (store.dir \/ env.storeFails) /\ UNCHANGED store
           \/ env.storeFails /\ ~store.dir /\ store' = With(store)
        /\ saved' = [saved EXCEPT ![p] = "err"]
        /\ Answer(p, "error")
  /\ UNCHANGED <<info, backend, undo, updater, env>>

(* The etcdset calls: organization_guid to plan_id, whose last two are the *)
(* ids, then parameters to _info.  Some of them may fail.                  *)
ProvisionSet(p) ==
  /\ \/ /\ At(p, "ids") /\ Goto(p, "info")
        /\ Set([With(store) EXCEPT !.ids = TRUE])
     \/ /\ At(p, "info") /\ Goto(p, "mkbinding")
        /\ Set([With(store) EXCEPT !.info = [prov |-> p, size |-> Size0]])
  /\ UNCHANGED <<info, goroutines, env>>

(* Mistake: the goroutine is sent nil before the error is looked at.       *)
ProvisionMkbindingTellsFirst(p) ==
  /\ At(p, "mkbinding")
  /\ saved' = [saved EXCEPT ![p] = "nil"]
  /\ \/ ~store.binding /\ store' = WithBinding(store) /\ Answer(p, "ok")
     \/ (store.binding \/ env.storeFails) /\ UNCHANGED store /\ Answer(p, "error")
  /\ UNCHANGED <<info, backend, undo, updater, env>>

(* The binding directory, then the message to the goroutine.               *)
ProvisionMkbinding(p) ==
  /\ At(p, "mkbinding")
  /\ \/ /\ ~store.binding
        /\ store' = WithBinding(store)
        /\ saved' = [saved EXCEPT ![p] = "nil"]
        /\ Answer(p, "ok")
     \/ /\ \/ (store.binding \/ env.storeFails) /\ UNCHANGED store
           \/ env.storeFails /\ ~store.binding /\ store' = WithBinding(store)
        /\ saved' = [saved EXCEPT ![p] = "err"]
        /\ Answer(p, "error")
  /\ UNCHANGED <<info, backend, undo, updater, env>>

(* The provisioning goroutine: err := <-etcdSaveResult.                    *)
TakeSaved(p) ==
  /\ backend[p] = "waiting"
  /\ saved[p] \in {"nil", "err"}
  /\ saved' = [saved EXCEPT ![p] = "taken"]
  /\ backend' = [backend EXCEPT ![p] =
                   IF saved[p] = "nil" THEN "building" ELSE "quit"]
  /\ UNCHANGED <<store, pc, reply, info, undo, updater, env>>

Build(p) ==
  /\ backend[p] = "building"
  /\ backend' = [backend EXCEPT ![p] = "built"]
  /\ UNCHANGED <<store, pc, reply, info, saved, undo, updater, env>>

-----------------------------------------------------------------------------
(* Deprovision, Update and Unbind begin alike: a recursive Get of the      *)
(* instance and a comparison of its ids with the request's.                *)
ReadInstance(r, next) ==
  /\ At(r, "read")
  /\ \/ (~store.dir \/ env.storeFails) /\ Answer(r, "error")
     \/ store.dir /\ ~store.ids /\ Answer(r, "error")
     \/ store.dir /\ store.ids /\ Goto(r, next)
  /\ UNCHANGED <<store, info, goroutines, env>>

(* etcdget of _info, whose error is not looked at: a missing key is a nil  *)
(* response, and the dereference of it a panic that ends the request.      *)
(* What Bind and Unbind read they pass on, and is not kept here.           *)
ReadInfo(r, next) ==
  /\ At(r, "info")
  /\ \/ /\ store.info = NoInfo \/ env.storeFails
        /\ Answer(r, "error")
        /\ UNCHANGED info
     \/ /\ store.info # NoInfo
        /\ info' = IF r \in DOMAIN info THEN [info EXCEPT ![r] = store.info] ELSE info
        /\ Goto(r, next)
  /\ UNCHANGED <<store, goroutines, env>>

(* Mistake: the record goes and the service stays.                         *)
DeprovisionRecordOnly(d) ==
  /\ At(d, "do")
  /\ Goto(d, "rmdir")
  /\ UNCHANGED <<store, info, goroutines, env>>

(* DoDeprovision starts the destroyer and never returns an error.          *)
DeprovisionDo(d) ==
  /\ At(d, "do")
  /\ undo' = [undo EXCEPT ![d] = "running"]
  /\ Goto(d, "rmdir")
  /\ UNCHANGED <<store, info, saved, backend, updater, env>>

(* The recursive Delete of the record.                                     *)
DeprovisionRmdir(d) ==
  /\ At(d, "rmdir")
  /\ \/ store.dir /\ store' = Empty /\ Answer(d, "ok")
     \/ (~store.dir \/ env.storeFails) /\ UNCHANGED store /\ Answer(d, "deleteError")
     \/ env.storeFails /\ store' = Empty /\ Answer(d, "deleteError")
  /\ UNCHANGED <<info, goroutines, env>>

(* The destroyer removes what it finds under the name it was given.  What  *)
(* is being built it may stop (its volume job) or may miss.                *)
Destroy(d) ==
  /\ undo[d] = "running"
  /\ undo' = [undo EXCEPT ![d] = "done"]
  /\ LET p == info[d].prov IN
       \/ /\ backend[p] \in {"building", "built"}
          /\ backend' = [backend EXCEPT ![p] = "destroyed"]
       \/ backend[p] # "built" /\ UNCHANGED backend
  /\ UNCHANGED <<store, pc, reply, info, saved, updater, env>>

-----------------------------------------------------------------------------
(* Update                                                                  *)

(* Compare the size asked for with the size in the _info that was read;    *)
(* if it is larger DoUpdate starts a goroutine that holds that _info.  A   *)
(* smaller size is an error, and so is a catalog look-up that fails.       *)
UpdateDo(u) ==
  /\ At(u, "do")
  /\ \/ Answer(u, "error") /\ UNCHANGED updater
     \/ Target[u] = info[u].size /\ Answer(u, "noop") /\ UNCHANGED updater
     \/ /\ Target[u] > info[u].size
        /\ Answer(u, "ok")
        /\ updater' = [updater EXCEPT ![u] = "expand"]
  /\ UNCHANGED <<store, info, saved, backend, undo, env>>

(* Mistake: the size asked for is taken for an increment.                  *)
UpdaterAdds(u) ==
  /\ updater[u] = "expand"
  /\ updater' = [updater EXCEPT ![u] = "save"]
  /\ info' = [info EXCEPT ![u].size = @ + Target[u]]
  /\ UNCHANGED <<store, pc, reply, saved, backend, undo, env>>

(* StartExpandPvcVolumnJob and its result: an error ends the goroutine,    *)
(* otherwise the sizes in the _info it holds are changed.                  *)
UpdaterExpand(u) ==
  /\ updater[u] = "expand"
  /\ \/ updater' = [updater EXCEPT ![u] = "done"] /\ UNCHANGED info
     \/ /\ updater' = [updater EXCEPT ![u] = "save"]
        /\ info' = [info EXCEPT ![u].size = Target[u]]
  /\ UNCHANGED <<store, pc, reply, saved, backend, undo, env>>

(* callbackSaveNewInfo: etcdset of _info, whatever is there now.           *)
UpdaterSave(u) ==
  /\ updater[u] = "save"
  /\ updater' = [updater EXCEPT ![u] = "done"]
  /\ \/ store' = [With(store) EXCEPT !.info = info[u]]
     \/ env.storeFails /\ UNCHANGED store
  /\ UNCHANGED <<pc, reply, info, saved, backend, undo, env>>

-----------------------------------------------------------------------------
(* Bind                                                                    *)

(* etcdget of the instance directory.                                      *)
BindRead(b) ==
  /\ At(b, "read")
  /\ \/ (~store.dir \/ env.storeFails) /\ Answer(b, "error")
     \/ store.dir /\ Goto(b, "binding")
  /\ UNCHANGED <<store, info, goroutines, env>>

(* etcdget of the binding directory; its error is not looked at.           *)
BindReadBinding(b) ==
  /\ At(b, "binding")
  /\ \/ (~store.binding \/ env.storeFails) /\ Answer(b, "error")
     \/ store.binding /\ BindingOf[b] \in store.bound /\ Answer(b, "error")
     \/ store.binding /\ BindingOf[b] \notin store.bound /\ Goto(b, "check")
  /\ UNCHANGED <<store, info, goroutines, env>>

(* The recursive Get and the comparison of the ids.                        *)
BindCheck(b) ==
  /\ At(b, "check")
  /\ \/ (~store.dir \/ env.storeFails) /\ Answer(b, "error")
     \/ store.dir /\ ~store.ids /\ Answer(b, "error")
     \/ store.dir /\ store.ids /\ Goto(b, "info")
  /\ UNCHANGED <<store, info, goroutines, env>>

(* DoBind looks at the running service: it may fail.                       *)
BindDo(b) ==
  /\ At(b, "do")
  /\ Answer(b, "error") \/ Goto(b, "mkbind")
  /\ UNCHANGED <<store, info, goroutines, env>>

(* The directory of the binding.                                           *)
BindMkbind(b) ==
  /\ At(b, "mkbind")
  /\ LET made == [WithBinding(store) EXCEPT !.bound = @ \cup {BindingOf[b]}] IN
       \/ /\ BindingOf[b] \notin store.bound
          /\ store' = made
          /\ Goto(b, "cred")
       \/ /\ \/ (BindingOf[b] \in store.bound \/ env.storeFails) /\ UNCHANGED store
             \/ env.storeFails /\ store' = made
          /\ Answer(b, "error")
  /\ UNCHANGED <<info, goroutines, env>>

(* app_guid, parameters, binding and _info, errors ignored.                *)
BindCred(b) ==
  /\ At(b, "cred")
  /\ LET begun == [WithBinding(store) EXCEPT !.bound = @ \cup {BindingOf[b]}] IN
       \/ store' = [begun EXCEPT !.cred = @ \cup {BindingOf[b]}]
       \/ env.storeFails /\ store' \in {store, begun}
  /\ Answer(b, "ok")
  /\ UNCHANGED <<info, goroutines, env>>

-----------------------------------------------------------------------------
(* Unbind                                                                  *)

(* etcdget of the binding.                                                 *)
UnbindReadBinding(b) ==
  /\ At(b, "binding")
  /\ \/ (BindingOf[b] \notin store.bound \/ env.storeFails) /\ Answer(b, "error")
     \/ BindingOf[b] \in store.bound /\ Goto(b, "info")
  /\ UNCHANGED <<store, info, goroutines, env>>

(* The binding's own _info, then DoUnbind, which may fail.                 *)
UnbindDo(b) ==
  /\ At(b, "do")
  /\ \/ (BindingOf[b] \notin store.cred \/ env.storeFails) /\ Answer(b, "error")
     \/ BindingOf[b] \in store.cred /\ (Answer(b, "error") \/ Goto(b, "rmbind"))
  /\ UNCHANGED <<store, info, goroutines, env>>

(* Mistake: the recursive Delete is one level too high.                    *)
UnbindRmBindings(b) ==
  /\ At(b, "rmbind")
  /\ store' = [store EXCEPT !.binding = FALSE, !.bound = {}, !.cred = {}]
  /\ Answer(b, "ok")
  /\ UNCHANGED <<info, goroutines, env>>

(* The recursive Delete of the binding.                                    *)
UnbindRmbind(b) ==
  /\ At(b, "rmbind")
  /\ LET removed == [store EXCEPT !.bound = @ \ {BindingOf[b]},
                                  !.cred = @ \ {BindingOf[b]}] IN
       \/ BindingOf[b] \in store.bound /\ store' = removed /\ Answer(b, "ok")
       \/ /\ BindingOf[b] \notin store.bound \/ env.storeFails
          /\ UNCHANGED store
          /\ Answer(b, "deleteError")
       \/ env.storeFails /\ store' = removed /\ Answer(b, "deleteError")
  /\ UNCHANGED <<info, goroutines, env>>

-----------------------------------------------------------------------------
ProvisionStep(p) ==
  \/ ProvisionRead(p) \/ ProvisionBegin(p) \/ ProvisionMkdir(p)
  \/ ProvisionSet(p) \/ ProvisionMkbinding(p)

DeprovisionStep(d) ==
  \/ ReadInstance(d, "info") \/ ReadInfo(d, "do")
  \/ DeprovisionDo(d) \/ DeprovisionRmdir(d)

UpdateStep(u) == ReadInstance(u, "info") \/ ReadInfo(u, "do") \/ UpdateDo(u)

BindStep(b) ==
  \/ BindRead(b) \/ BindReadBinding(b) \/ BindCheck(b) \/ ReadInfo(b, "do")
  \/ BindDo(b) \/ BindMkbind(b) \/ BindCred(b)

UnbindStep(b) ==
  \/ ReadInstance(b, "binding") \/ UnbindReadBinding(b) \/ ReadInfo(b, "do")
  \/ UnbindDo(b) \/ UnbindRmbind(b)

BackendStep(p) == TakeSaved(p) \/ Build(p)
UpdaterStep(u) == UpdaterExpand(u) \/ UpdaterSave(u)

Next ==
  \/ \E r \in Requests : Arrive(r)
  \/ \E p \in Provisions : ProvisionStep(p) \/ BackendStep(p)
  \/ \E d \in Deprovisions : DeprovisionStep(d) \/ Destroy(d)
  \/ \E u \in Updates : UpdateStep(u) \/ UpdaterStep(u)
  \/ \E b \in Binds : BindStep(b)
  \/ \E b \in Unbinds : UnbindStep(b)

Spec == Init /\ [][Next]_vars

-----------------------------------------------------------------------------
(* Provisions whose goroutine was told, or will be, to go ahead.           *)
Winners == {p \in Provisions : \/ saved[p] = "nil"
                               \/ backend[p] \in {"building", "built", "destroyed"}}

(* Deprovisions that have emptied the directory, or may have.              *)
Emptied == {d \in Deprovisions : reply[d] \in {"ok", "deleteError"}}

Quiet == InFlight = {} /\ Settled

(* Concurrent Provisions of one id: all may pass the existence check, but  *)
(* the Set of the directory (line 289), and once more that of the binding  *)
(* directory (line 310), lets one through until a Deprovision has emptied  *)
(* it, whatever fails and is retried in between; and no goroutine builds   *)
(* before it is told (line 138 of the handler).                            *)
OneWinnerPerLife == Cardinality(Winners) <= 1 + Cardinality(Emptied)

(* The answer of the platform and the order to the goroutine agree: what   *)
(* is built is what the platform was told it has (lines 278, 291, 312, 320)*)
BuiltAsAnswered ==
  \A p \in Provisions : p \in Winners <=> reply[p] = "ok"

(* A Provision that was answered ok is completely recorded, as its own     *)
(* instance, until a Deprovision deletes the record, unless etcd fails: no *)
(* losing Provision, Bind, Unbind or updater spoils it.                    *)
SuccessIsRecorded ==
  \A p \in Provisions :
    ~env.storeFails /\ reply[p] = "ok" /\ (\A d \in Deprovisions : pc[d] # "done") =>
      /\ store.dir /\ store.ids /\ store.binding
      /\ store.info # NoInfo /\ store.info.prov = p

(* When nothing is under way the record in etcd and what stands in the     *)
(* cluster agree: what is built and nobody undid is what is recorded, and  *)
(* what is recorded can be deprovisioned.  With a patient platform always; *)
(* with requests that race, until the first Deprovision is among them.     *)
RecordMatchesCluster ==
  /\ Quiet
  /\ ~env.storeFails
  /\ env.patient \/ \A d \in Deprovisions : pc[d] = "new"
  =>
    /\ {p \in Provisions : backend[p] = "built"} =
         IF store.info = NoInfo THEN {} ELSE {store.info.prov}
    /\ store.dir => store.ids /\ store.info # NoInfo /\ store.binding

(* "Update only support volume expanding now": the recorded size of an     *)
(* instance never goes down.                                               *)
OnlyExpands ==
  [][store.info # NoInfo /\ store'.info # NoInfo
       /\ store'.info.prov = store.info.prov
     => store'.info.size >= store.info.size]_vars

(* Every provisioning goroutine is told whether to go ahead, on every path *)
(* out of Provision (lines 278, 291, 312, 320): none waits for ever on     *)
(* etcdSaveResult.                                                         *)
GoroutineIsTold ==
  \A p \in Provisions :
    backend[p] = "waiting" /\ pc[p] = "done" => saved[p] \in {"nil", "err"}
=============================================================================
