---------------------------- MODULE ServiceTables ----------------------------
(***************************************************************************)
(* What the tables of the services have in common beyond being handlers    *)
(* (IsHandler): how DoDeprovision answers to DoProvision and run, in which *)
(* order things are posted, what the verdict of DoLastOperation looks at.  *)
(* These are the conditions under which ServiceInstance's properties are   *)
(* proved for every service; they are read off the tables, and TLC         *)
(* evaluates them on all of them.                                          *)
(***************************************************************************)
EXTENDS ServiceInstance

(* The steps of a program that do one thing; what it posts, by itself and  *)
(* in helpers; its lots of volumes.                                        *)
Having(program, what) == {step \in Steps(program) : step.do = what}
PostedBy(program) == UNION {All(step.group, step.chain) : step \in Having(program, "post")}
Brought(program) ==
  PostedBy(program) \cup UNION {PostedBy(step.program) : step \in Having(program, "go")}
LotsOf(program, what) == {step.lot : step \in Having(program, what)}

(* All that can come to be of an instance.                                 *)
Everything(handler) == Brought(handler.DoProvision) \cup Brought(handler.run)
VolumesOf(handler) ==
  LotsOf(handler.DoProvision, "volumes") \cup LotsOf(handler.run, "volumes")

(* What a look-up finds and deletes.                                       *)
Sought(step) == {res \in All(step.group, step.list) : res[2] \in step.fields}
Removed(program) == UNION {Sought(step) : step \in Having(program, "remove")}

(* The names of the instance are in its record.                            *)
IsNamed(handler) == Having(handler.DoProvision, "saved blank") = {}

(* DoDeprovision first stops the jobs, then removes all there can be; the  *)
(* helpers of the job post one group each.                                 *)
StopsFirst(program) ==
  \A i, j \in DOMAIN program :
    i < j /\ program[j].do = "stop job" => program[i].do = "stop volumes"

IsThorough(handler) ==
  LET undo == handler.DoDeprovision
  IN /\ Everything(handler) \subseteq Removed(undo)
     /\ VolumesOf(handler) \subseteq LotsOf(undo, "delete volumes")
     /\ handler.run # <<>> => Having(undo, "stop job") # {}
     /\ StopsFirst(undo)
     /\ \A step \in Having(handler.run, "go") : \A post \in Steps(step.program) :
          post.group = step.program[1].group

-----------------------------------------------------------------------------
(* The steps that lead on to more of the instance.                         *)
Bringing == {"saved", "saved blank", "post", "volumes", "start job", "find", "go"}

(* A step is the last that leads on.                                       *)
EndsIn(program, last) ==
  /\ \A i \in DOMAIN program : program[i].do \in Bringing =>
       \E j \in DOMAIN program : i <= j /\ program[j] = last
  /\ \A i, j \in DOMAIN program :
       program[i] = last /\ i < j => program[j].do \notin Bringing

(* DoProvision ends with a chain of posts or with the start of a job, and  *)
(* a job brings something until it starts its helper.                      *)
LastOf(list) == list[Len(list)]
EndOf(handler) == LastOf(handler.DoProvision)
GoOf(handler) == CHOOSE step \in Having(handler.run, "go") : TRUE
LastPost(handler) ==
  IF handler.run = <<>> THEN EndOf(handler) ELSE GoOf(handler).program[1]

(* What is posted last, and once.                                          *)
Final(handler) == <<LastPost(handler).group, LastOf(LastPost(handler).chain)>>

IsOrderly(handler) ==
  LET posts == Having(handler.DoProvision, "post") \cup Having(handler.run, "post")
      last == LastPost(handler)
  IN /\ handler.DoProvision # <<>> /\ EndsIn(handler.DoProvision, EndOf(handler))
     /\ IF handler.run = <<>>
          THEN EndOf(handler).do = "post"
          ELSE /\ EndOf(handler).do = "start job"
               /\ Having(handler.run, "go") = {GoOf(handler)}
               /\ Len(GoOf(handler).program) = 1
               /\ EndsIn(handler.run, GoOf(handler))
     /\ \A i \in 1..(Len(last.chain) - 1) : last.chain[i] # LastOf(last.chain)
     /\ \A post \in posts \ {EndOf(handler)} :
          Final(handler) \notin All(post.group, post.chain)

(* DoLastOperation gives no verdict while a job is in a table.  Then it    *)
(* needs what is posted last, be it through the user that can log in...    *)
WaitsForJobs(handler) ==
  LET verdict == handler.DoLastOperation
  IN /\ verdict.must = {}
     /\ handler.run # <<>> => verdict.job
     /\ VolumesOf(handler) \subseteq verdict.lots

NeedsFinal(handler) ==
  LET verdict == handler.DoLastOperation
  IN \/ Final(handler) \in verdict.needs \cup verdict.ready
     \/ verdict.user /\ Final(handler) = <<"HA", "service">>

(* ...or pods of the chain that is posted last.                            *)
NeedsPods(handler) ==
  LET verdict == handler.DoLastOperation
  IN /\ handler.run = <<>> /\ verdict.pods /\ verdict.ready # {}
     /\ \A post \in Having(handler.DoProvision, "post") \ {EndOf(handler)} :
          \A i \in 1..Len(post.chain) : handler.load[post.group][post.chain[i]] \notin {Rc, Dc}

(* DoBind reads what there is.                                             *)
BindsWhatThereIs(handler) ==
  /\ handler.DoBind \subseteq Everything(handler)
  /\ DOMAIN handler.volumes \subseteq VolumesOf(handler)

(* DoProvision posts one chain, once its volumes are there.  What it does  *)
(* when the chain fails deletes the chain and the volumes; when the        *)
(* volumes fail, or a post of the job before it starts a helper, the       *)
(* instance is deprovisioned.                                              *)
ChainIsLast(program) ==
  \A i, j \in DOMAIN program : program[j].do = "post" =>
    /\ program[i].do = "post" => i = j
    /\ program[i].do = "volumes" => i < j

GoIsLast(program) ==
  \A i, j \in DOMAIN program : program[i].do = "go" /\ program[j].do = "post" => j < i

StopsBeforeFreeing(program) ==
  \A i, j \in DOMAIN program :
    program[i].do = "stop volumes" /\ program[j].do = "delete volumes" => i < j

Undoes(handler) ==
  LET begin == handler.DoProvision
      abandoned == Having(begin, "volumes") \cup Having(handler.run, "post")
  IN /\ ChainIsLast(begin) /\ GoIsLast(handler.run)
     /\ \A post \in Having(begin, "post") :
          /\ post.else # <<>> /\ post.else[1].do = "undo"
          /\ All(post.group, post.chain) \subseteq Of(post.else[1].group, post.else[1].fields)
          /\ VolumesOf(handler) \subseteq LotsOf(post.else, "delete volumes")
          /\ Having(post.else, "deprovision") = {}
     /\ \A step \in abandoned : step.else = <<Deprovision>>
     /\ abandoned # {} => IsNamed(handler)
     /\ LotsOf(handler.run, "volumes") = {}
     /\ \A step \in Having(handler.run, "find") :
          All(step.group, step.list) \subseteq PostedBy(begin)
     /\ VolumesOf(handler) \subseteq LotsOf(handler.DoDeprovision, "stop volumes")
     /\ StopsBeforeFreeing(handler.DoDeprovision)

-----------------------------------------------------------------------------
ASSUME TablesAssumption ==
  /\ \A service \in DOMAIN Handlers : IsThorough(Handlers[service])
  /\ \A service \in DOMAIN Handlers \ Unnamed : IsNamed(Handlers[service])
  /\ \A service \in DOMAIN Handlers \ (Unnamed \cup EarlyWord) :
       /\ IsOrderly(Handlers[service]) /\ WaitsForJobs(Handlers[service])
       /\ BindsWhatThereIs(Handlers[service])
       /\ IF service \in RcsFirst
            THEN NeedsPods(Handlers[service])
            ELSE NeedsFinal(Handlers[service])
  /\ \A service \in DOMAIN Handlers \ (NotUndone \cup NodePortKept) :
       Undoes(Handlers[service])
=============================================================================
