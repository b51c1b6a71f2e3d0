------------------------- MODULE VolumeJobContract -------------------------
(***************************************************************************)
(* What a volume job promises to the handlers that use it, without its     *)
(* goroutines, channels and counters.  A job is held by one starter at a   *)
(* time; it settles each volume as done or failed; it answers nil only if  *)
(* all are done and an error only if one failed or the job was refused;    *)
(* and it is released only when every volume is settled.                   *)
(***************************************************************************)
CONSTANTS Volumes, Starters, Nobody

VARIABLES
  holder,     \* the starter whose job runs, or Nobody
  asked,      \* the starters that have asked for a job
  refused,    \* those that were refused
  done,       \* [Starters -> SUBSET Volumes]
  failed,     \* [Starters -> SUBSET Volumes]
  answer      \* [Starters -> {"none", "nil", "err"}]

vars == <<holder, asked, refused, done, failed, answer>>

Init ==
  /\ holder = Nobody
  /\ asked = {}
  /\ refused = {}
  /\ done = [j \in Starters |-> {}]
  /\ failed = [j \in Starters |-> {}]
  /\ answer = [j \in Starters |-> "none"]

Grant(j) ==
  /\ j \notin asked /\ holder = Nobody
  /\ holder' = j
  /\ asked' = asked \cup {j}
  /\ UNCHANGED <<refused, done, failed, answer>>

Refuse(j) ==
  /\ j \notin asked /\ holder # Nobody
  /\ asked' = asked \cup {j}
  /\ refused' = refused \cup {j}
  /\ UNCHANGED <<holder, done, failed, answer>>

Settle(j, v) ==
  /\ holder = j
  /\ v \notin done[j] \cup failed[j]
  /\ \/ done' = [done EXCEPT ![j] = @ \cup {v}] /\ UNCHANGED failed
     \/ failed' = [failed EXCEPT ![j] = @ \cup {v}] /\ UNCHANGED done
  /\ UNCHANGED <<holder, asked, refused, answer>>

Answer(j) ==
  /\ j \in asked /\ answer[j] = "none"
  /\ \/ /\ done[j] = Volumes
        /\ answer' = [answer EXCEPT ![j] = "nil"]
     \/ /\ j \in refused \/ failed[j] # {}
        /\ answer' = [answer EXCEPT ![j] = "err"]
  /\ UNCHANGED <<holder, asked, refused, done, failed>>

Release(j) ==
  /\ holder = j
  /\ done[j] \cup failed[j] = Volumes
  /\ holder' = Nobody
  /\ UNCHANGED <<asked, refused, done, failed, answer>>

Next == \E j \in Starters :
          \/ Grant(j) \/ Refuse(j) \/ Answer(j) \/ Release(j)
          \/ \E v \in Volumes : Settle(j, v)

Spec == Init /\ [][Next]_vars
=============================================================================
