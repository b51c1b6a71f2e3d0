----------------------------- MODULE PlanSizes -----------------------------
(***************************************************************************)
(* The volume size a request gets: findServicePlanInfo (main.go).  A plan  *)
(* has a size of its own (the bullet "n GB of Disk"); one that may be      *)
(* customized has sizes Default, Default + Step, ... up to Max.  The size  *)
(* that a request asks for is here in tenths of a GB.                      *)
(***************************************************************************)
EXTENDS Integers

(* interSize, ok := parameters[G_VolumeSize]: without a size Provision     *)
(* takes the plan's, and Update is refused.                                *)
NotGiven == [ok |-> FALSE, tenths |-> 0]
AsksFor(tenths) == [ok |-> TRUE, tenths |-> tenths]

(* math.Floor(fSize + 0.5).                                                *)
Rounded(tenths) == (tenths + 5) \div 10

Wanted(plan, asked) == IF asked.ok THEN Rounded(asked.tenths) ELSE plan.bullet

(* math.Ceil(a / b).                                                       *)
Ceil(a, b) == -((-a) \div b)

UpToStep(plan, size) == plan.Default + plan.Step * Ceil(size - plan.Default, plan.Step)

VolumeSize(plan, asked) ==
  LET size == Wanted(plan, asked)
  IN IF ~plan.customized THEN size
     ELSE IF UpToStep(plan, size) > plan.Max THEN plan.Max
     ELSE UpToStep(plan, size)

(* The plans of the catalog, and what a request can ask for.               *)
Plans == [bullet : Int, customized : BOOLEAN, Default : Int, Step : Nat \ {0}, Max : Int]
Requested == [ok : BOOLEAN, tenths : Int]
=============================================================================
