---------------------------- MODULE PlainHandlers ----------------------------
(***************************************************************************)
(* The handlers without volumes and without an orchestration job: etcd,    *)
(* kettle, nifi, pyspider, rabbitmq, tensorflow and zookeeper.  For each   *)
(* the definitions carry the names of its functions: _load is the template *)
(* that is decoded into the fields of the struct, _create the order of the *)
(* posts, _get that of the look-ups, _destroy what is deleted.             *)
(***************************************************************************)
EXTENDS HandlerPrograms

-----------------------------------------------------------------------------
(* etcd.  createEtcdResources_HA logs a failed post and returns nil, so    *)
(* that nothing is undone.                                                 *)
etcd_load ==
  [svc |-> Svc, route |-> Route, etcdrc1 |-> Rc, etcdsvc1 |-> Svc, etcdrc2 |-> Rc,
   etcdsvc2 |-> Svc, etcdrc3 |-> Rc, etcdsvc3 |-> Svc, etcdrc0 |-> Rc, etcdsvc0 |-> Svc]

etcd_create == <<"svc", "route", "etcdrc1", "etcdsvc1", "etcdrc2", "etcdsvc2",
                 "etcdrc3", "etcdsvc3", "etcdrc0", "etcdsvc0">>
etcd_get == <<"svc", "route", "etcdsvc1", "etcdrc1", "etcdsvc2", "etcdrc2",
              "etcdsvc3", "etcdrc3", "etcdsvc0", "etcdrc0">>
etcd_destroy == {"svc", "route", "etcdsvc1", "etcdrc1", "etcdsvc2", "etcdrc2",
                 "etcdsvc3", "etcdrc3", "etcdsvc0", "etcdrc0"}

etcd_DoProvision == <<Saved, Post("HA", etcd_create, <<>>)>>
etcd_DoLastOperation ==
  LastOperationWhen(All("HA", <<"etcdrc1", "etcdrc2", "etcdrc3", "etcdrc0">>))
etcd_DoDeprovision == <<Remove("HA", etcd_get, etcd_destroy)>>
etcd_DoBind == {<<"HA", "route">>}

-----------------------------------------------------------------------------
(* kettle.                                                                 *)
kettle_load ==
  [rc |-> Rc, route |-> Route,
   routeSfu |-> Route, service |-> Svc, serviceSfu |-> Svc]
kettle_create == <<"rc", "route", "routeSfu", "service", "serviceSfu">>
kettle_get == <<"rc", "route", "routeSfu", "service", "serviceSfu">>
kettle_destroy == {"rc", "route", "routeSfu", "service", "serviceSfu"}

kettle_DoProvision ==
  <<Saved, Post("Master", kettle_create, <<Undo("Master", kettle_destroy)>>)>>
kettle_DoLastOperation == LastOperationWhen(All("Master", <<"rc">>))
kettle_DoDeprovision == <<Remove("Master", kettle_get, kettle_destroy)>>
kettle_DoBind == All("Master", kettle_get)

-----------------------------------------------------------------------------
(* nifi.                                                                   *)
nifi_load == [rc |-> Rc, route |-> Route, service |-> Svc]
nifi_create == <<"rc", "route", "service">>
nifi_get == <<"rc", "route", "service">>
nifi_destroy == {"rc", "route", "service"}

nifi_DoProvision ==
  <<Saved, Post("Master", nifi_create, <<Undo("Master", nifi_destroy)>>)>>
nifi_DoLastOperation == LastOperationWhen(All("Master", <<"rc">>))
nifi_DoDeprovision == <<Remove("Master", nifi_get, nifi_destroy)>>
nifi_DoBind == All("Master", nifi_get)

-----------------------------------------------------------------------------
(* pyspider.                                                               *)
pyspider_load == [rc |-> Rc, route |-> Route, service |-> Svc]
pyspider_create == <<"rc", "route", "service">>
pyspider_get == <<"rc", "route", "service">>
pyspider_destroy == {"rc", "route", "service"}

pyspider_DoProvision ==
  <<Saved, Post("Master", pyspider_create, <<Undo("Master", pyspider_destroy)>>)>>
pyspider_DoLastOperation == LastOperationWhen(All("Master", <<"rc">>))
pyspider_DoDeprovision == <<Remove("Master", pyspider_get, pyspider_destroy)>>
pyspider_DoBind == All("Master", pyspider_get)

-----------------------------------------------------------------------------
(* rabbitmq.                                                               *)
rabbitmq_load == [rc |-> Rc, routeAdmin |-> Route, service |-> Svc]
rabbitmq_create == <<"rc", "routeAdmin", "service">>
rabbitmq_get == <<"rc", "routeAdmin", "service">>
rabbitmq_destroy == {"rc", "routeAdmin", "service"}

rabbitmq_DoProvision ==
  <<Saved, Post("Master", rabbitmq_create, <<Undo("Master", rabbitmq_destroy)>>)>>
rabbitmq_DoLastOperation == LastOperationWhen(All("Master", <<"rc">>))
rabbitmq_DoDeprovision == <<Remove("Master", rabbitmq_get, rabbitmq_destroy)>>
rabbitmq_DoBind == All("Master", rabbitmq_get)

-----------------------------------------------------------------------------
(* tensorflow.                                                             *)
tensorflow_load == [rc |-> Rc, route |-> Route, service |-> Svc]
tensorflow_create == <<"rc", "route", "service">>
tensorflow_get == <<"rc", "route", "service">>
tensorflow_destroy == {"rc", "route", "service"}

tensorflow_DoProvision ==
  <<Saved, Post("Master", tensorflow_create, <<Undo("Master", tensorflow_destroy)>>)>>
tensorflow_DoLastOperation == LastOperationWhen(All("Master", <<"rc">>))
tensorflow_DoDeprovision == <<Remove("Master", tensorflow_get, tensorflow_destroy)>>
tensorflow_DoBind == All("Master", tensorflow_get)

-----------------------------------------------------------------------------
(* zookeeper, which kafka and storm use too.  DoProvision fills in the     *)
(* names in its goroutine, after the ServiceInfo has been returned and     *)
(* saved.  DoBind reads one service.                                       *)
zookeeper_load ==
  [service |-> Svc, svc1 |-> Svc, svc2 |-> Svc, svc3 |-> Svc,
   rc1 |-> Rc, rc2 |-> Rc, rc3 |-> Rc, route |-> Route]
zookeeper_create == <<"service", "svc1", "svc2", "svc3", "rc1", "rc2", "rc3", "route">>
zookeeper_get == <<"service", "svc1", "svc2", "svc3", "rc1", "rc2", "rc3", "route">>
zookeeper_destroy == {"service", "svc1", "svc2", "svc3", "rc1", "rc2", "rc3", "route"}

zookeeper_DoProvision ==
  <<SavedBlank, Post("Master", zookeeper_create, <<Undo("Master", zookeeper_destroy)>>)>>
zookeeper_DoLastOperation == LastOperationWhen(All("Master", <<"rc1", "rc2", "rc3">>))
zookeeper_DoDeprovision == <<Remove("Master", zookeeper_get, zookeeper_destroy)>>
zookeeper_DoBind == {<<"Master", "service">>}

=============================================================================
