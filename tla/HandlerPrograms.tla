--------------------------- MODULE HandlerPrograms ---------------------------
(***************************************************************************)
(* The vocabulary in which the service handlers (servicebroker/<service>)  *)
(* are written down: what a goroutine of a handler does is a sequence of   *)
(* steps.  Every handler is made of the same few calls, in an order and    *)
(* with an error path of its own; the order and the error paths are what   *)
(* PlainHandlers, VolumeHandlers and JobHandlers record, and what          *)
(* ServiceInstance executes.                                               *)
(*                                                                         *)
(* A resource is a pair <<group, field>>: the struct that the code loads,  *)
(* creates, looks up and destroys together, and the field of it.           *)
(***************************************************************************)
EXTENDS Naturals, Sequences

(* What a field is: the typeName of its URI.                               *)
Svc == "services"
Route == "routes"
Rc == "replicationcontrollers"
Dc == "deploymentconfigs"

(* The resources of a group.                                               *)
All(group, list) == {<<group, list[i]>> : i \in 1..Len(list)}

(* err := <-etcdSaveResult: go on if the broker has saved the record.      *)
(* A goroutine may fill in the names of the instance only then, when the   *)
(* record has been saved without them.                                     *)
Saved == [do |-> "saved"]
SavedBlank == [do |-> "saved blank"]

(* A chain of posts that stops at the first error, and what is done then.  *)
Post(group, chain, else) ==
  [do |-> "post", group |-> group, chain |-> chain, else |-> else]

(* The same chain, posted by a goroutine that nobody waits for.            *)
Go(helper, group, chain) ==
  [do |-> "go", helper |-> helper, program |-> <<Post(group, chain, <<>>)>>]

(* destroyX(output): delete those that the chain has posted.               *)
Undo(group, fields) == [do |-> "undo", group |-> group, fields |-> fields]

(* kdel of resources whose names are at hand.                              *)
Kdel(group, fields) == [do |-> "kdel", group |-> group, fields |-> fields]

(* getX and destroyX: look up each of a list, delete those found.          *)
Remove(group, list, fields) ==
  [do |-> "remove", group |-> group, list |-> list, fields |-> fields]

(* getX where an error ends the matter.                                    *)
Find(group, list, else) ==
  [do |-> "find", group |-> group, list |-> list, else |-> else]

(* StartCreatePvcVolumnJob, <-result, and what is done on an error; and    *)
(* DeleteVolumns.  A handler's volumes are in one or two lots.             *)
CreateVolumes(lot, else) == [do |-> "volumes", lot |-> lot, else |-> else]
DeleteVolumns(lot) == [do |-> "delete volumes", lot |-> lot]

(* startXOrchestrationJob.                                                 *)
StartJob == [do |-> "start job"]

(* Of a job: wait until pods of RCs run, or the job is cancelled; look at  *)
(* cancelled; wait until the database in the pods answers.                 *)
Wait(group, fields) == [do |-> "wait", group |-> group, fields |-> fields]
Check == [do |-> "check"]
Inited == [do |-> "inited"]

(* Follow a watch of RCs until they have their replicas; an error of it is *)
(* dealt with by else.                                                     *)
Watch(group, fields, else) ==
  [do |-> "watch", group |-> group, fields |-> fields, else |-> else]

(* Get the job of the instance, cancel it, poll until there is none.       *)
StopVolumes(lot) == [do |-> "stop volumes", lot |-> lot]
StopJob == [do |-> "stop job"]

(* DoDeprovision called by the handler itself.                             *)
Deprovision == [do |-> "deprovision"]

(* cassandra's last two steps: the instance's user, the default user.      *)
CreateUser == [do |-> "create user"]
DropUser == [do |-> "drop user"]

(* How a program with volumes takes a chain apart when it fails, and how   *)
(* DoDeprovision takes the instance apart.                                 *)
UndoWithVolumes(group, fields) == <<Undo(group, fields), DeleteVolumns(1)>>
RemoveWithVolumes(group, list, fields) ==
  <<StopVolumes(1), Remove(group, list, fields), DeleteVolumns(1)>>

(* DoLastOperation: in progress while a volume job of lots or (if job) an  *)
(* orchestration job is in the table; an error if a look-up of needs       *)
(* fails, failed if one of must is not there; succeeded when those of      *)
(* ready are there, if pods with their pods running, and if user the user  *)
(* can log in.                                                             *)
LastOperationWhen(ready) ==
  [lots |-> {}, needs |-> {}, job |-> FALSE, must |-> {},
   ready |-> ready, pods |-> TRUE, user |-> FALSE]
LastOperationAfterVolumes(ready) == [LastOperationWhen(ready) EXCEPT !.lots = {1}]
LastOperationAfterJob(ready) == [LastOperationWhen(ready) EXCEPT !.job = TRUE]

-----------------------------------------------------------------------------
(* What the handlers' programs have in common, so that goroutines can      *)
(* execute them: which steps belong to which program, and what a step      *)
(* needs of the tables.                                                    *)
ProvisionSteps == {"saved", "saved blank", "post", "volumes", "start job"}
RunSteps == {"post", "volumes", "find", "wait", "watch", "check", "inited", "go",
             "create user", "drop user"}
UndoSteps == {"undo", "kdel", "remove", "delete volumes", "deprovision"}
DeprovisionSteps == {"stop volumes", "stop job", "remove", "delete volumes"}
Branching == {"post", "find", "volumes", "watch"}

Steps(program) == {program[i] : i \in DOMAIN program}

Loaded(load, step) ==
  /\ step.do \in {"post", "remove"} => step.group \in DOMAIN load
  /\ step.do = "post" => step.chain \in Seq(DOMAIN load[step.group]) \ {<<>>}
  /\ step.do = "remove" => step.list \in Seq(DOMAIN load[step.group])
  /\ step.do \in {"volumes", "delete volumes", "stop volumes"} => step.lot \in 1..2

(* Two steps that do what a program does but once: wait for the record,    *)
(* ask for volumes, start a helper.                                        *)
Alike(step, other) ==
  \/ {step.do, other.do} \subseteq {"saved", "saved blank"}
  \/ step.do = "volumes" /\ other.do = "volumes"
  \/ step.do = "go" /\ other.do = "go" /\ step.helper = other.helper

(* Nothing is done twice, and a program ends where it hands over.          *)
Straight(load, kinds, program) ==
  /\ program \in Seq({step \in Steps(program) : step.do \in kinds /\ Loaded(load, step)})
  /\ \A i, j \in DOMAIN program : Alike(program[i], program[j]) => i = j
  /\ \A i \in DOMAIN program :
       program[i].do \in {"start job", "deprovision"} => i = Len(program)

(* Error paths do not branch, and helpers do not undo.                     *)
WellFormed(load, kinds, program) ==
  /\ Straight(load, kinds, program)
  /\ \A step \in Steps(program) :
       /\ step.do \in Branching => Straight(load, UndoSteps, step.else)
       /\ step.do = "go" => /\ step.helper \in {"helper", "helper2"}
                            /\ Straight(load, {"post"}, step.program)
                            /\ \A post \in Steps(step.program) : post.else = <<>>

(* DoProvision asks for the first lot of volumes, a job for the second.    *)
AsksFor(program, lot) == \A step \in Steps(program) : step.do = "volumes" => step.lot = lot

IsHandler(handler) ==
  /\ WellFormed(handler.load, ProvisionSteps, handler.DoProvision)
  /\ AsksFor(handler.DoProvision, 1)
  /\ WellFormed(handler.load, RunSteps, handler.run)
  /\ AsksFor(handler.run, 2)
  /\ WellFormed(handler.load, DeprovisionSteps, handler.DoDeprovision)
=============================================================================
