----------------------------- MODULE MCServices -----------------------------
(* ServiceInstance for TLC, with the handlers of Services.                 *)
EXTENDS ServiceInstance, Services

(* For safety, every service: a client that polls, whatever may fail, and  *)
(* one that deprovisions as soon as DoProvision's goroutine has ended.     *)
Patient ==
  [service : DOMAIN AllHandlers, client : {"polls"},
   faults : {"none", "refused", "any", "crash"}, lag : BOOLEAN]
  \cup [service : DOMAIN AllHandlers, client : {"waits"},
         faults : {"none"}, lag : BOOLEAN]

(* For liveness, a service of each kind, and a client that deprovisions at *)
(* any time or never; one with two lots of volumes.                        *)
Impatient ==
  [service : {"kettle", "neo4j_pvc", "cassandra", "redis_pvc"},
   client : {"hasty"}, faults : {"none", "any"}, lag : BOOLEAN]
  \cup [service : {"kafka_pvc"}, client : {"waits"},
         faults : {"none", "refused"}, lag : {TRUE}]

(* For what the orchestration job leaves behind.                           *)
Undisturbed ==
  [service : {"redis_pvc"}, client : {"waits"}, faults : {"none"}, lag : BOOLEAN]
=============================================================================
