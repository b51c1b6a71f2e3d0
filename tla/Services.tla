------------------------------ MODULE Services ------------------------------
(***************************************************************************)
(* The handlers as main registers them, service by service: the tables and *)
(* programs of PlainHandlers, VolumeHandlers and JobHandlers as one        *)
(* function, for ServiceInstance.                                          *)
(***************************************************************************)
EXTENDS JobHandlers, VolumeHandlers, TLC

(* A handler of one group, without a job.                                  *)
Simple(group, load, volumes, provision, last, deprovision, bind) ==
  [load |-> group :> load, volumes |-> volumes, DoProvision |-> provision, run |-> <<>>,
   DoLastOperation |-> last, DoDeprovision |-> deprovision, DoBind |-> bind]

(* A handler with an orchestration job.                                    *)
WithJob(load, volumes, provision, run, last, deprovision, bind) ==
  [load |-> load, volumes |-> volumes, DoProvision |-> provision, run |-> run,
   DoLastOperation |-> last, DoDeprovision |-> deprovision, DoBind |-> bind]

PlainServices ==
  "etcd" :> Simple("HA", etcd_load, <<>>,
       etcd_DoProvision, etcd_DoLastOperation,
       etcd_DoDeprovision, etcd_DoBind)
  @@ "kettle" :> Simple("Master", kettle_load, <<>>,
       kettle_DoProvision, kettle_DoLastOperation,
       kettle_DoDeprovision, kettle_DoBind)
  @@ "nifi" :> Simple("Master", nifi_load, <<>>,
       nifi_DoProvision, nifi_DoLastOperation,
       nifi_DoDeprovision, nifi_DoBind)
  @@ "pyspider" :> Simple("Master", pyspider_load, <<>>,
       pyspider_DoProvision, pyspider_DoLastOperation,
       pyspider_DoDeprovision, pyspider_DoBind)
  @@ "rabbitmq" :> Simple("Master", rabbitmq_load, <<>>,
       rabbitmq_DoProvision, rabbitmq_DoLastOperation,
       rabbitmq_DoDeprovision, rabbitmq_DoBind)
  @@ "tensorflow" :> Simple("Master", tensorflow_load, <<>>,
       tensorflow_DoProvision, tensorflow_DoLastOperation,
       tensorflow_DoDeprovision, tensorflow_DoBind)
  @@ "zookeeper" :> Simple("Master", zookeeper_load, <<>>,
       zookeeper_DoProvision, zookeeper_DoLastOperation,
       zookeeper_DoDeprovision, zookeeper_DoBind)

VolumeServices ==
  "elasticsearch_pvc" :> Simple("HA", elasticsearch_pvc_load, elasticsearch_pvc_volumes,
       elasticsearch_pvc_DoProvision, elasticsearch_pvc_DoLastOperation,
       elasticsearch_pvc_DoDeprovision, elasticsearch_pvc_DoBind)
  @@ "mongo_pvc" :> Simple("Master", mongo_pvc_load, mongo_pvc_volumes,
       mongo_pvc_DoProvision, mongo_pvc_DoLastOperation,
       mongo_pvc_DoDeprovision, mongo_pvc_DoBind)
  @@ "neo4j_pvc" :> Simple("Master", neo4j_pvc_load, neo4j_pvc_volumes,
       neo4j_pvc_DoProvision, neo4j_pvc_DoLastOperation,
       neo4j_pvc_DoDeprovision, neo4j_pvc_DoBind)
  @@ "rabbitmq_pvc" :> Simple("Master", rabbitmq_pvc_load, rabbitmq_pvc_volumes,
       rabbitmq_pvc_DoProvision, rabbitmq_pvc_DoLastOperation,
       rabbitmq_pvc_DoDeprovision, rabbitmq_pvc_DoBind)
  @@ "redissingle_pvc" :> Simple("Master", redissingle_pvc_load, redissingle_pvc_volumes,
       redissingle_pvc_DoProvision, redissingle_pvc_DoLastOperation,
       redissingle_pvc_DoDeprovision, redissingle_pvc_DoBind)
  @@ "zookeeper_pvc" :> Simple("Master", zookeeper_pvc_load, zookeeper_pvc_volumes,
       zookeeper_pvc_DoProvision, zookeeper_pvc_DoLastOperation,
       zookeeper_pvc_DoDeprovision, zookeeper_pvc_DoBind)

JobServices ==
  "kafka" :> WithJob("Zookeeper" :> zookeeper_load @@ "Kafka" :> kafka_load, <<>>,
       kafka_DoProvision, kafka_run, kafka_DoLastOperation,
       kafka_DoDeprovision, kafka_DoBind)
  @@ "storm" :> WithJob("Zookeeper" :> zookeeper_load @@ "Nimbus" :> storm_load_Nimbus
                @@ "UiSuperviser" :> storm_load_UiSuperviser, <<>>,
       storm_DoProvision, storm_run, storm_DoLastOperation,
       storm_DoDeprovision, storm_DoBind)
  @@ "storm_external" :> WithJob("Nimbus" :> storm_external_load_Nimbus
                @@ "UiSuperviser" :> storm_external_load_UiSuperviser, <<>>,
       storm_external_DoProvision, storm_external_run, storm_external_DoLastOperation,
       storm_external_DoDeprovision, storm_external_DoBind)
  @@ "cassandra" :> WithJob("Boot" :> cassandra_load_Boot
                @@ "HA" :> cassandra_load_HA, <<>>,
       cassandra_DoProvision, cassandra_run, cassandra_DoLastOperation,
       cassandra_DoDeprovision, cassandra_DoBind)
  @@ "spark" :> WithJob("Master" :> spark_load_Master @@ "Workers" :> spark_load_Workers
                @@ "Zeppelin" :> spark_load_Zeppelin, <<>>,
       spark_DoProvision, spark_run, spark_DoLastOperation,
       spark_DoDeprovision, spark_DoBind)
  @@ "redis" :> WithJob("Master" :> redis_load_Master @@ "More" :> redis_load_More, <<>>,
       redis_DoProvision, redis_run, redis_DoLastOperation,
       redis_DoDeprovision, redis_DoBind)
  @@ "redis_pvc" :> WithJob("Master" :> redis_pvc_load_Master
                @@ "More" :> redis_pvc_load_More, redis_pvc_volumes,
       redis_pvc_DoProvision, redis_pvc_run, redis_pvc_DoLastOperation,
       redis_pvc_DoDeprovision, redis_pvc_DoBind)
  @@ "kafka_pvc" :> WithJob("Zookeeper" :> kafka_pvc_load_Zookeeper
                @@ "Kafka" :> kafka_pvc_load_Kafka, kafka_pvc_volumes,
       kafka_pvc_DoProvision, kafka_pvc_run, kafka_pvc_DoLastOperation,
       kafka_pvc_DoDeprovision, kafka_pvc_DoBind)

AllHandlers == PlainServices @@ VolumeServices @@ JobServices
=============================================================================
