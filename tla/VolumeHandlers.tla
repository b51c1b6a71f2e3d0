--------------------------- MODULE VolumeHandlers ---------------------------
(***************************************************************************)
(* The handlers with volumes and without an orchestration job, beside      *)
(* etcd-pvc (PvcHandler): elasticsearch, mongo, neo4j, rabbitmq, redis of  *)
(* one node and zookeeper.  Named as in PlainHandlers; _volumes is how     *)
(* many volumes are in each lot, _NodePort is what DoProvision posts       *)
(* before it returns the ServiceInfo, so before there is a record of the   *)
(* instance.                                                               *)
(***************************************************************************)
EXTENDS HandlerPrograms

-----------------------------------------------------------------------------
(* elasticsearch.  Like etcd-pvc, createESResources_HA logs a failed post  *)
(* and returns nil.                                                        *)
elasticsearch_pvc_volumes == <<3>>
elasticsearch_pvc_load ==
  [dc1 |-> Dc, dc2 |-> Dc, dc3 |-> Dc, svc1 |-> Svc,
   svc2 |-> Svc, svc3 |-> Svc, svc |-> Svc]
elasticsearch_pvc_create ==
  <<"dc1", "dc2", "dc3", "svc1", "svc2", "svc3", "svc">>
elasticsearch_pvc_get == <<"dc1", "dc2", "dc3", "svc1", "svc2", "svc3", "svc">>
elasticsearch_pvc_destroy ==
  {"dc1", "dc2", "dc3", "svc1", "svc2", "svc3", "svc"}

elasticsearch_pvc_DoProvision ==
  <<Saved, CreateVolumes(1, <<DeleteVolumns(1)>>), Post("HA", elasticsearch_pvc_create, <<>>)>>
elasticsearch_pvc_DoLastOperation ==
  LastOperationAfterVolumes(All("HA", <<"dc1", "dc2", "dc3">>))
elasticsearch_pvc_DoDeprovision ==
  RemoveWithVolumes("HA", elasticsearch_pvc_get, elasticsearch_pvc_destroy)
elasticsearch_pvc_DoBind == All("HA", elasticsearch_pvc_get)

-----------------------------------------------------------------------------
(* mongo.  DoBind names the three services.                                *)
mongo_pvc_volumes == <<3>>
mongo_pvc_load ==
  [svc1 |-> Svc, svc2 |-> Svc, svc3 |-> Svc,
   rc1 |-> Rc, rc2 |-> Rc, rc3 |-> Rc]

(* Mistake: the RCs are posted before the services.                        *)
mongo_pvc_createRcsFirst == <<"rc1", "rc2", "rc3", "svc1", "svc2", "svc3">>

mongo_pvc_create == <<"svc1", "svc2", "svc3", "rc1", "rc2", "rc3">>
mongo_pvc_get == <<"svc1", "svc2", "svc3", "rc1", "rc2", "rc3">>
mongo_pvc_destroy == {"svc1", "svc2", "svc3", "rc1", "rc2", "rc3"}

(* Mistake: a failed chain is not undone.                                  *)
mongo_pvc_DoProvisionKept ==
  <<Saved, CreateVolumes(1, <<Deprovision>>), Post("Master", mongo_pvc_create, <<>>)>>

mongo_pvc_DoProvision ==
  <<Saved, CreateVolumes(1, <<Deprovision>>),
    Post("Master", mongo_pvc_create, UndoWithVolumes("Master", mongo_pvc_destroy))>>
mongo_pvc_DoLastOperation ==
  LastOperationAfterVolumes(All("Master", <<"rc1", "rc2", "rc3">>))

(* Mistake: the volumes are not deleted.                                   *)
mongo_pvc_DoDeprovisionKeeps ==
  <<StopVolumes(1), Remove("Master", mongo_pvc_get, mongo_pvc_destroy)>>

mongo_pvc_DoDeprovision ==
  RemoveWithVolumes("Master", mongo_pvc_get, mongo_pvc_destroy)
mongo_pvc_DoBind == All("Master", <<"svc1", "svc2", "svc3">>)

-----------------------------------------------------------------------------
(* neo4j.  When the volumes fail the node port is deleted by name.         *)
neo4j_pvc_volumes == <<1>>
neo4j_pvc_load ==
  [rc |-> Rc, routeAdmin |-> Route,
   service |-> Svc, servicebolt |-> Svc]
neo4j_pvc_NodePort == <<"servicebolt">>
neo4j_pvc_create == <<"rc", "routeAdmin", "service">>
neo4j_pvc_get == <<"rc", "routeAdmin", "service", "servicebolt">>
neo4j_pvc_destroy == {"rc", "routeAdmin", "service", "servicebolt"}

neo4j_pvc_DoProvision ==
  <<Post("Master", neo4j_pvc_NodePort, <<>>), Saved,
    CreateVolumes(1, <<Kdel("Master", {"servicebolt"}), DeleteVolumns(1)>>),
    Post("Master", neo4j_pvc_create, UndoWithVolumes("Master", neo4j_pvc_destroy))>>
neo4j_pvc_DoLastOperation == LastOperationAfterVolumes(All("Master", <<"rc">>))
neo4j_pvc_DoDeprovision ==
  RemoveWithVolumes("Master", neo4j_pvc_get, neo4j_pvc_destroy)
neo4j_pvc_DoBind == All("Master", neo4j_pvc_get)

-----------------------------------------------------------------------------
(* rabbitmq.                                                               *)
rabbitmq_pvc_volumes == <<1>>
rabbitmq_pvc_load ==
  [rc |-> Rc, routeAdmin |-> Route,
   service |-> Svc, serviceNodePort |-> Svc]
rabbitmq_pvc_NodePort == <<"serviceNodePort">>
rabbitmq_pvc_create == <<"rc", "routeAdmin", "service">>
rabbitmq_pvc_get == <<"rc", "routeAdmin", "service", "serviceNodePort">>
rabbitmq_pvc_destroy == {"rc", "routeAdmin", "service", "serviceNodePort"}

rabbitmq_pvc_DoProvision ==
  <<Post("Master", rabbitmq_pvc_NodePort, <<>>), Saved, CreateVolumes(1, <<Deprovision>>),
    Post("Master", rabbitmq_pvc_create, UndoWithVolumes("Master", rabbitmq_pvc_destroy))>>
rabbitmq_pvc_DoLastOperation == LastOperationAfterVolumes(All("Master", <<"rc">>))
rabbitmq_pvc_DoDeprovision ==
  RemoveWithVolumes("Master", rabbitmq_pvc_get, rabbitmq_pvc_destroy)
rabbitmq_pvc_DoBind == All("Master", rabbitmq_pvc_get)

-----------------------------------------------------------------------------
(* redis of one node.  DoLastOperation gives an error while a look-up fails. *)
redissingle_pvc_volumes == <<1>>
redissingle_pvc_load == [serviceNodePort |-> Svc, rc |-> Rc]
redissingle_pvc_NodePort == <<"serviceNodePort">>
redissingle_pvc_create == <<"rc">>
redissingle_pvc_get == <<"serviceNodePort", "rc">>
redissingle_pvc_destroy == {"serviceNodePort", "rc"}

redissingle_pvc_DoProvision ==
  <<Post("Master", redissingle_pvc_NodePort, <<>>), Saved, CreateVolumes(1, <<Deprovision>>),
    Post("Master", redissingle_pvc_create, UndoWithVolumes("Master", redissingle_pvc_destroy))>>
redissingle_pvc_DoLastOperation ==
  [LastOperationAfterVolumes({<<"Master", "rc">>}) EXCEPT
     !.needs = All("Master", redissingle_pvc_get)]
redissingle_pvc_DoDeprovision ==
  RemoveWithVolumes("Master", redissingle_pvc_get, redissingle_pvc_destroy)
redissingle_pvc_DoBind == All("Master", redissingle_pvc_get)

-----------------------------------------------------------------------------
(* zookeeper.                                                              *)
zookeeper_pvc_volumes == <<3>>
zookeeper_pvc_load ==
  [service |-> Svc, svc1 |-> Svc, svc2 |-> Svc, svc3 |-> Svc, rc1 |-> Rc,
   rc2 |-> Rc, rc3 |-> Rc, route |-> Route, serviceNodePort |-> Svc]
zookeeper_pvc_NodePort == <<"serviceNodePort">>
zookeeper_pvc_create ==
  <<"service", "svc1", "svc2", "svc3", "rc1", "rc2", "rc3", "route">>
zookeeper_pvc_get ==
  <<"service", "svc1", "svc2", "svc3", "rc1", "rc2", "rc3", "route", "serviceNodePort">>
zookeeper_pvc_destroy ==
  {"service", "svc1", "svc2", "svc3", "rc1", "rc2", "rc3", "route", "serviceNodePort"}

zookeeper_pvc_DoProvision ==
  <<Post("Master", zookeeper_pvc_NodePort, <<>>), Saved, CreateVolumes(1, <<Deprovision>>),
    Post("Master", zookeeper_pvc_create, UndoWithVolumes("Master", zookeeper_pvc_destroy))>>
zookeeper_pvc_DoLastOperation ==
  LastOperationAfterVolumes(All("Master", <<"rc1", "rc2", "rc3">>))
zookeeper_pvc_DoDeprovision ==
  RemoveWithVolumes("Master", zookeeper_pvc_get, zookeeper_pvc_destroy)
zookeeper_pvc_DoBind == {<<"Master", "service">>}

=============================================================================
