----------------------------- MODULE JobHandlers -----------------------------
(***************************************************************************)
(* The handlers that leave the second half of a provisioning to an         *)
(* orchestration job: kafka, storm, cassandra, spark and redis, and those  *)
(* of them with volumes.  Named as in PlainHandlers; _run is what the job  *)
(* does between startXOrchestrationJob and its removal from the table.     *)
(***************************************************************************)
EXTENDS PlainHandlers

(* What kafka and storm do with the zookeeper instance under them.         *)
PostZookeeper ==
  Post("Zookeeper", zookeeper_create, <<Undo("Zookeeper", zookeeper_destroy)>>)
RemoveZookeeper == Remove("Zookeeper", zookeeper_get, zookeeper_destroy)

(* WatchZookeeperOrchestration.                                            *)
WatchZookeeper ==
  <<Find("Zookeeper", zookeeper_get, <<RemoveZookeeper>>),
    Wait("Zookeeper", {"rc1", "rc2", "rc3"})>>

-----------------------------------------------------------------------------
(* kafka.                                                                  *)
kafka_load == [service |-> Svc, rc |-> Rc]
kafka_create == <<"service", "rc">>
kafka_get == <<"service", "rc">>
kafka_destroy == {"service", "rc"}

kafka_DoProvision == <<Saved, PostZookeeper, StartJob>>
kafka_run == WatchZookeeper \o <<Go("helper", "Kafka", kafka_create)>>
kafka_DoLastOperation == LastOperationAfterJob(All("Kafka", <<"rc">>))
kafka_DoDeprovision ==
  <<StopJob, RemoveZookeeper, Remove("Kafka", kafka_get, kafka_destroy)>>
kafka_DoBind == All("Zookeeper", zookeeper_get) \cup All("Kafka", kafka_get)

-----------------------------------------------------------------------------
(* storm.  The nimbus is posted by the job itself, one call at a time.     *)
storm_load_Nimbus == [service |-> Svc, nodeport |-> Svc, rc |-> Rc]
storm_load_UiSuperviser ==
  [superviserrc |-> Rc, uiservice |-> Svc, uiroute |-> Route, uirc |-> Rc]
storm_create_Nimbus == <<"service", "nodeport", "rc">>
storm_create_UiSuperviser == <<"superviserrc", "uiservice", "uiroute", "uirc">>
storm_get_Nimbus == <<"service", "nodeport", "rc">>
storm_get_UiSuperviser == <<"superviserrc", "uiservice", "uiroute", "uirc">>
storm_destroy_Nimbus == {"service", "nodeport", "rc"}
storm_destroy_UiSuperviser == {"superviserrc", "uiservice", "uiroute", "uirc"}

storm_DoProvision == <<Saved, PostZookeeper, StartJob>>
storm_run ==
  WatchZookeeper \o
  <<Post("Nimbus", storm_create_Nimbus, <<Deprovision>>), Wait("Nimbus", {"rc"}),
    Check, Check, Go("helper", "UiSuperviser", storm_create_UiSuperviser)>>
storm_DoLastOperation ==
  LastOperationAfterJob(All("Nimbus", <<"nodeport", "rc">>)
                        \cup All("UiSuperviser", <<"superviserrc", "uirc">>))
storm_DoDeprovision ==
  <<StopJob, RemoveZookeeper,
    Remove("Nimbus", storm_get_Nimbus, storm_destroy_Nimbus),
    Remove("UiSuperviser", storm_get_UiSuperviser, storm_destroy_UiSuperviser)>>
storm_DoBind ==
  All("Zookeeper", zookeeper_get) \cup All("Nimbus", storm_get_Nimbus)
    \cup All("UiSuperviser", storm_get_UiSuperviser)

-----------------------------------------------------------------------------
(* storm for clients outside the cluster: no zookeeper of its own, and two *)
(* node ports that DoProvision posts before it returns, with nothing that  *)
(* undoes them.                                                            *)
storm_external_load_Nimbus == [serviceNodePort |-> Svc, rc |-> Rc]
storm_external_load_UiSuperviser ==
  [superviserrc |-> Rc, uiservice |-> Svc, uiroute |-> Route, uirc |-> Rc,
   drpcserviceNodePort |-> Svc, drpcrc |-> Rc]
storm_external_create_Nimbus == <<"rc">>
storm_external_create_UiSuperviser ==
  <<"superviserrc", "uiservice", "uiroute", "uirc", "drpcrc">>
storm_external_get_Nimbus == <<"serviceNodePort", "rc">>
storm_external_get_UiSuperviser ==
  <<"superviserrc", "uiservice", "uiroute", "uirc", "drpcserviceNodePort", "drpcrc">>
storm_external_destroy_Nimbus == {"serviceNodePort", "rc"}
storm_external_destroy_UiSuperviser ==
  {"superviserrc", "uiservice", "uiroute", "uirc", "drpcserviceNodePort", "drpcrc"}

storm_external_NodePorts ==
  <<Post("Nimbus", <<"serviceNodePort">>, <<>>),
    Post("UiSuperviser", <<"drpcserviceNodePort">>, <<>>)>>
storm_external_DoProvision == storm_external_NodePorts \o <<Saved, StartJob>>
storm_external_run ==
  <<Post("Nimbus", storm_external_create_Nimbus, <<Deprovision>>), Wait("Nimbus", {"rc"}),
    Check, Check, Go("helper", "UiSuperviser", storm_external_create_UiSuperviser)>>
storm_external_DoLastOperation ==
  LastOperationAfterJob(All("Nimbus", <<"rc">>)
                        \cup All("UiSuperviser", <<"superviserrc", "uirc", "drpcrc">>))
storm_external_DoDeprovision ==
  <<StopJob, Remove("Nimbus", storm_external_get_Nimbus, storm_external_destroy_Nimbus),
    Remove("UiSuperviser", storm_external_get_UiSuperviser, storm_external_destroy_UiSuperviser)>>
storm_external_DoBind ==
  All("Nimbus", storm_external_get_Nimbus)
    \cup All("UiSuperviser", storm_external_get_UiSuperviser)

-----------------------------------------------------------------------------
(* cassandra.  The job also creates the instance's user in the database,   *)
(* and drops the default one.                                              *)
cassandra_load_Boot == [rc |-> Rc, service |-> Svc]
cassandra_load_HA == [rc |-> Rc, service |-> Svc]
cassandra_create_Boot == <<"rc", "service">>
cassandra_create_HA == <<"rc", "service">>
cassandra_get_Boot == <<"rc", "service">>
cassandra_get_HA == <<"rc", "service">>
cassandra_destroy_Boot == {"service", "rc"}
cassandra_destroy_HA == {"service", "rc"}

cassandra_DoProvision ==
  <<Saved, Post("Boot", cassandra_create_Boot, <<Undo("Boot", cassandra_destroy_Boot)>>),
    StartJob>>
cassandra_run ==
  <<Wait("Boot", {"rc"}), Inited, Check, Go("helper", "HA", cassandra_create_HA),
    Wait("HA", {"rc"}), Inited, Check, CreateUser, DropUser>>
cassandra_DoLastOperation ==
  [LastOperationAfterJob(All("HA", <<"rc">>)) EXCEPT !.user = TRUE]
cassandra_DoDeprovision ==
  <<StopJob, Remove("HA", cassandra_get_HA, cassandra_destroy_HA),
    Remove("Boot", cassandra_get_Boot, cassandra_destroy_Boot)>>
cassandra_DoBind == All("HA", cassandra_get_HA)

-----------------------------------------------------------------------------
(* spark.  An error of the watch takes the master down again.  Workers and *)
(* zeppelin are posted by two goroutines.  DoLastOperation does not look   *)
(* at pods; DoBind's credentials name the master's service and zeppelin's  *)
(* route.                                                                  *)
spark_load_Master ==
  [masterrc |-> Rc, mastersvc |-> Svc, webroute |-> Route, websvc |-> Svc]
spark_load_Workers == [workerrc |-> Rc]
spark_load_Zeppelin == [rc |-> Rc, svc |-> Svc, route |-> Route]
spark_create_Master == <<"masterrc", "mastersvc", "webroute", "websvc">>
spark_create_Workers == <<"workerrc">>
spark_create_Zeppelin == <<"rc", "svc", "route">>
spark_get_Master == <<"masterrc", "mastersvc", "webroute", "websvc">>
spark_get_Workers == <<"workerrc">>
spark_get_Zeppelin == <<"rc", "svc", "route">>
spark_destroy_Master == {"masterrc", "mastersvc", "webroute", "websvc"}
spark_destroy_Workers == {"workerrc"}
spark_destroy_Zeppelin == {"rc", "svc", "route"}

spark_DoProvision ==
  <<Saved, Post("Master", spark_create_Master, <<Undo("Master", spark_destroy_Master)>>),
    StartJob>>
spark_run ==
  <<Watch("Master", {"masterrc"}, <<Kdel("Master", spark_destroy_Master)>>),
    Wait("Master", {"masterrc"}), Check, Check,
    Go("helper", "Workers", spark_create_Workers),
    Go("helper2", "Zeppelin", spark_create_Zeppelin)>>
spark_DoLastOperation ==
  [LastOperationAfterJob(All("Workers", <<"workerrc">>)) EXCEPT
     !.must = {<<"Master", "webroute">>}, !.pods = FALSE]
spark_DoDeprovision ==
  <<StopJob, Remove("Zeppelin", spark_get_Zeppelin, spark_destroy_Zeppelin),
    Remove("Workers", spark_get_Workers, spark_destroy_Workers),
    Remove("Master", spark_get_Master, spark_destroy_Master)>>
spark_DoBind == {<<"Master", "mastersvc">>, <<"Zeppelin", "route">>}

-----------------------------------------------------------------------------
(* redis.                                                                  *)
redis_load_Master == [rc |-> Rc]
redis_load_More == [serviceSentinel |-> Svc, rc |-> Rc, rcSentinel |-> Rc]
redis_create_Master == <<"rc">>
redis_create_More == <<"serviceSentinel", "rc", "rcSentinel">>
redis_get_Master == <<"rc">>
redis_get_More == <<"serviceSentinel", "rc", "rcSentinel">>
redis_destroy_Master == {"rc"}
redis_destroy_More == {"serviceSentinel", "rc", "rcSentinel"}

redis_DoProvision ==
  <<Saved, Post("Master", redis_create_Master, <<Undo("Master", redis_destroy_Master)>>),
    StartJob>>
redis_run ==
  <<Wait("Master", {"rc"}), Check, Go("helper", "More", redis_create_More)>>

(* Mistake: the verdict asks for the master only.                          *)
redis_DoLastOperationEarly == LastOperationWhen(All("Master", <<"rc">>))

redis_DoLastOperation == LastOperationAfterJob(All("More", <<"rc", "rcSentinel">>))
redis_DoDeprovision ==
  <<StopJob, Remove("More", redis_get_More, redis_destroy_More),
    Remove("Master", redis_get_Master, redis_destroy_Master)>>
redis_DoBind == All("More", redis_get_More)

-----------------------------------------------------------------------------
(* redis with volumes.                                                     *)
redis_pvc_volumes == <<3>>
redis_pvc_load_Master == [rc |-> Rc]
redis_pvc_load_More ==
  [serviceSentinel |-> Svc, rc1 |-> Rc, rc2 |-> Rc, rcSentinel |-> Rc]
redis_pvc_create_Master == <<"rc">>
redis_pvc_create_More == <<"serviceSentinel", "rc1", "rc2", "rcSentinel">>
redis_pvc_get_Master == <<"rc">>
redis_pvc_get_More == <<"serviceSentinel", "rc1", "rc2", "rcSentinel">>
redis_pvc_destroy_Master == {"rc"}
redis_pvc_destroy_More == {"serviceSentinel", "rc1", "rc2", "rcSentinel"}

redis_pvc_DoProvision ==
  <<Saved, CreateVolumes(1, <<Deprovision>>),
    Post("Master", redis_pvc_create_Master, UndoWithVolumes("Master", redis_pvc_destroy_Master)),
    StartJob>>

(* Mistake: the job waits for the slaves before it has posted them.        *)
redis_pvc_runBackwards ==
  <<Wait("Master", {"rc"}), Wait("More", {"rc1", "rc2"}),
    Go("helper", "More", redis_pvc_create_More)>>

redis_pvc_run ==
  <<Wait("Master", {"rc"}), Check, Go("helper", "More", redis_pvc_create_More)>>
redis_pvc_DoLastOperation ==
  [LastOperationAfterJob(All("More", <<"rc1", "rc2", "rcSentinel">>)) EXCEPT
     !.lots = {1}, !.needs = {<<"Master", "rc">>}]
redis_pvc_DoDeprovision ==
  <<StopVolumes(1), StopJob,
    Remove("More", redis_pvc_get_More, redis_pvc_destroy_More),
    Remove("Master", redis_pvc_get_Master, redis_pvc_destroy_Master), DeleteVolumns(1)>>
redis_pvc_DoBind == All("More", redis_pvc_get_More)

-----------------------------------------------------------------------------
(* kafka with volumes, on a zookeeper of its own: two lots of volumes, the *)
(* second created by the job.  Everything in DoLastOperation after the     *)
(* zookeeper's verdict is unreachable.  DoDeprovision does not look at the *)
(* volume jobs.                                                            *)
kafka_pvc_volumes == <<3, 2>>
kafka_pvc_load_Zookeeper ==
  [dc1 |-> Dc, dc2 |-> Dc, dc3 |-> Dc, svc1 |-> Svc, svc2 |-> Svc, svc3 |-> Svc, svc4 |-> Svc]
kafka_pvc_load_Kafka ==
  [dc1 |-> Dc, dc2 |-> Dc, svc1 |-> Svc, svc2 |-> Svc, svc3 |-> Svc]
kafka_pvc_create_Zookeeper == <<"dc1", "dc2", "dc3", "svc1", "svc2", "svc3", "svc4">>
kafka_pvc_create_Kafka == <<"dc1", "dc2", "svc1", "svc2", "svc3">>
kafka_pvc_get_Zookeeper == <<"dc1", "dc2", "dc3", "svc1", "svc2", "svc3", "svc4">>
kafka_pvc_get_Kafka == <<"dc1", "dc2", "svc1", "svc2", "svc3">>
kafka_pvc_destroy_Zookeeper == {"dc1", "dc2", "dc3", "svc1", "svc2", "svc3", "svc4"}
kafka_pvc_destroy_Kafka == {"dc1", "dc2", "svc1", "svc2", "svc3"}

kafka_pvc_RemoveZookeeper ==
  <<Remove("Zookeeper", kafka_pvc_get_Zookeeper, kafka_pvc_destroy_Zookeeper),
    DeleteVolumns(1)>>
kafka_pvc_DoProvision ==
  <<Saved, CreateVolumes(1, <<Deprovision>>),
    Post("Zookeeper", kafka_pvc_create_Zookeeper, <<DeleteVolumns(1)>>), StartJob>>
kafka_pvc_run ==
  <<Find("Zookeeper", kafka_pvc_get_Zookeeper, kafka_pvc_RemoveZookeeper),
    Wait("Zookeeper", {"dc1", "dc2", "dc3"}), CreateVolumes(2, <<Deprovision>>),
    Go("helper", "Kafka", kafka_pvc_create_Kafka)>>
kafka_pvc_DoLastOperation ==
  [LastOperationAfterVolumes(All("Zookeeper", <<"dc1", "dc2", "dc3">>)) EXCEPT
     !.needs = All("Zookeeper", kafka_pvc_get_Zookeeper)]
kafka_pvc_DoDeprovision ==
  <<StopJob>> \o kafka_pvc_RemoveZookeeper \o
  <<Remove("Kafka", kafka_pvc_get_Kafka, kafka_pvc_destroy_Kafka), DeleteVolumns(2)>>
kafka_pvc_DoBind ==
  All("Zookeeper", kafka_pvc_get_Zookeeper) \cup All("Kafka", kafka_pvc_get_Kafka)
=============================================================================
