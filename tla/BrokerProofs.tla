---------------------------- MODULE BrokerProofs ----------------------------
(***************************************************************************)
(* Proofs about Broker, for any number of requests of one instance id,     *)
(* whatever etcd does and however the platform behaves.                    *)
(***************************************************************************)
EXTENDS Broker, FiniteSetTheorems, TLAPS

(* An _info is there wherever one is used: in the update or deprovision    *)
(* past its reading, and in the goroutines these have started.             *)
InfoRead ==
  /\ \A r \in Updates \cup Deprovisions : pc[r] \in {"do", "rmdir"} => info[r] # NoInfo
  /\ \A u \in Updates : updater[u] \in {"expand", "save"} => info[u] # NoInfo

(* Both hold in the initial state.                                         *)
LEMMA InitTypes == Init => TypeOK /\ InfoRead
  BY DEF Init, TypeOK, InfoRead, Empty, Stores, Requests

(* What the calls may make of the store is a store.                        *)
LEMMA StoresClosed ==
  ASSUME store \in Stores
  PROVE  /\ Empty \in Stores /\ With(store) \in Stores /\ WithBinding(store) \in Stores
         /\ [With(store) EXCEPT !.ids = TRUE] \in Stores
  BY DEF Stores, Empty, With, WithBinding

LEMMA InfoStored ==
  ASSUME store \in Stores, NEW i \in Infos
  PROVE  [With(store) EXCEPT !.info = i] \in Stores
  BY DEF Stores, With

LEMMA BindingStored ==
  ASSUME store \in Stores, NEW b \in BindingIDs
  PROVE  /\ [WithBinding(store) EXCEPT !.bound = @ \cup {b}] \in Stores
         /\ [[WithBinding(store) EXCEPT !.bound = @ \cup {b}]
               EXCEPT !.cred = @ \cup {b}] \in Stores
         /\ [store EXCEPT !.bound = @ \ {b}, !.cred = @ \ {b}] \in Stores
<1>1. WithBinding(store) \in Stores
  BY DEF Stores, WithBinding
<1>2. [WithBinding(store) EXCEPT !.bound = @ \cup {b}] \in Stores
  BY <1>1 DEF Stores
<1>3. [[WithBinding(store) EXCEPT !.bound = @ \cup {b}]
         EXCEPT !.cred = @ \cup {b}] \in Stores
  BY <1>2 DEF Stores
<1>4. [store EXCEPT !.bound = @ \ {b}, !.cred = @ \ {b}] \in Stores
  BY DEF Stores
<1>5. QED
  BY <1>2, <1>3, <1>4

(* A Provision's steps keep the types.                                     *)
LEMMA ProvisionTypes ==
  ASSUME TypeOK, InfoRead, NEW p \in Provisions, ProvisionStep(p)
  PROVE  TypeOK' /\ InfoRead'
<1> USE BrokerAssumption DEF TypeOK, InfoRead, Requests, At, Goto, Answer, goroutines
<1>1. CASE ProvisionRead(p)
  BY <1>1 DEF ProvisionRead
<1>2. CASE ProvisionBegin(p)
  BY <1>2 DEF ProvisionBegin
<1>3. CASE ProvisionMkdir(p)
  <2>1. store' \in Stores
    BY <1>3, StoresClosed DEF ProvisionMkdir
  <2>2. QED
    BY <1>3, <2>1 DEF ProvisionMkdir
<1>4. CASE ProvisionSet(p)
  <2>1. store' \in Stores
    <3>1. [prov |-> p, size |-> Size0] \in Infos
      BY DEF Infos
    <3>2. [With(store) EXCEPT !.info = [prov |-> p, size |-> Size0]] \in Stores
      BY <3>1, InfoStored
    <3>3. QED
      BY <1>4, <3>2, StoresClosed DEF ProvisionSet, Set
  <2>2. QED
    BY <1>4, <2>1 DEF ProvisionSet
<1>5. CASE ProvisionMkbinding(p)
  <2>1. store' \in Stores
    BY <1>5, StoresClosed DEF ProvisionMkbinding
  <2>2. QED
    BY <1>5, <2>1 DEF ProvisionMkbinding
<1>6. QED
  BY <1>1, <1>2, <1>3, <1>4, <1>5 DEF ProvisionStep

(* So do a Deprovision's and its destroyer's.                              *)
LEMMA DeprovisionTypes ==
  ASSUME TypeOK, InfoRead, NEW d \in Deprovisions, DeprovisionStep(d) \/ Destroy(d)
  PROVE  TypeOK' /\ InfoRead'
<1> USE BrokerAssumption DEF TypeOK, InfoRead, Requests, At, Goto, Answer, goroutines
<1>1. CASE ReadInstance(d, "info")
  BY <1>1 DEF ReadInstance
<1>2. CASE ReadInfo(d, "do")
  BY <1>2 DEF ReadInfo, Stores
<1>3. CASE DeprovisionDo(d)
  BY <1>3 DEF DeprovisionDo
<1>4. CASE DeprovisionRmdir(d)
  BY <1>4, StoresClosed DEF DeprovisionRmdir
<1>5. CASE Destroy(d)
  BY <1>5 DEF Destroy
<1>6. QED
  BY <1>1, <1>2, <1>3, <1>4, <1>5 DEF DeprovisionStep

(* So do an Update's and its goroutine's.                                  *)
LEMMA UpdateTypes ==
  ASSUME TypeOK, InfoRead, NEW u \in Updates, UpdateStep(u) \/ UpdaterStep(u)
  PROVE  TypeOK' /\ InfoRead'
<1> USE BrokerAssumption DEF TypeOK, InfoRead, Requests, At, Goto, Answer, goroutines
<1>1. CASE ReadInstance(u, "info")
  BY <1>1 DEF ReadInstance
<1>2. CASE ReadInfo(u, "do")
  BY <1>2 DEF ReadInfo, Stores
<1>3. CASE UpdateDo(u)
  BY <1>3 DEF UpdateDo
<1>4. CASE UpdaterExpand(u)
  BY <1>4 DEF UpdaterExpand, Infos
<1>5. CASE UpdaterSave(u)
  <2>1. info[u] \in Infos
    BY <1>5 DEF UpdaterSave
  <2>2. [With(store) EXCEPT !.info = info[u]] \in Stores
    BY <2>1, InfoStored
  <2>3. QED
    BY <1>5, <2>2 DEF UpdaterSave
<1>6. QED
  BY <1>1, <1>2, <1>3, <1>4, <1>5 DEF UpdateStep, UpdaterStep

(* So do those of Bind and Unbind.                                         *)
LEMMA BindTypes ==
  ASSUME TypeOK, InfoRead,
         \/ \E b \in Binds : BindStep(b)
         \/ \E b \in Unbinds : UnbindStep(b)
  PROVE  TypeOK' /\ InfoRead'
<1> USE BrokerAssumption DEF TypeOK, InfoRead, Requests, At, Goto, Answer, goroutines
<1>1. ASSUME NEW b \in Binds, BindRead(b) \/ BindReadBinding(b) \/ BindCheck(b)
                                \/ ReadInfo(b, "do") \/ BindDo(b)
      PROVE  TypeOK' /\ InfoRead'
  BY <1>1 DEF BindRead, BindReadBinding, BindCheck, ReadInfo, BindDo
<1>2. ASSUME NEW b \in Binds, BindMkbind(b) \/ BindCred(b)
      PROVE  TypeOK' /\ InfoRead'
  <2>1. BindingOf[b] \in BindingIDs
    BY DEF BindingIDs
  <2>2. store' \in Stores
    <3> DEFINE made == [WithBinding(store) EXCEPT !.bound = @ \cup {BindingOf[b]}]
    <3>1. made \in Stores /\ [made EXCEPT !.cred = @ \cup {BindingOf[b]}] \in Stores
      BY <2>1, BindingStored
    <3>2. store' \in {store, made, [made EXCEPT !.cred = @ \cup {BindingOf[b]}]}
      BY <1>2 DEF BindMkbind, BindCred
    <3>3. QED
      BY <3>1, <3>2
  <2>3. QED
    BY <1>2, <2>2 DEF BindMkbind, BindCred
<1>3. ASSUME NEW b \in Unbinds, ReadInstance(b, "binding") \/ UnbindReadBinding(b)
                                  \/ ReadInfo(b, "do") \/ UnbindDo(b)
      PROVE  TypeOK' /\ InfoRead'
  BY <1>3 DEF ReadInstance, UnbindReadBinding, ReadInfo, UnbindDo
<1>4. ASSUME NEW b \in Unbinds, UnbindRmbind(b)
      PROVE  TypeOK' /\ InfoRead'
  <2>1. BindingOf[b] \in BindingIDs
    BY DEF BindingIDs
  <2>2. store' \in Stores
    <3> DEFINE removed == [store EXCEPT !.bound = @ \ {BindingOf[b]},
                                        !.cred = @ \ {BindingOf[b]}]
    <3>1. removed \in Stores
      BY <2>1, BindingStored
    <3>2. store' \in {store, removed}
      BY <1>4 DEF UnbindRmbind
    <3>3. QED
      BY <3>1, <3>2
  <2>3. QED
    BY <1>4, <2>2 DEF UnbindRmbind
<1>5. QED
  BY <1>1, <1>2, <1>3, <1>4 DEF BindStep, UnbindStep

(* And so every step of the broker.                                        *)
LEMMA TypesHold == Spec => [](TypeOK /\ InfoRead)
<1>1. TypeOK /\ InfoRead /\ [Next]_vars => (TypeOK /\ InfoRead)'
  <2> SUFFICES ASSUME TypeOK, InfoRead, [Next]_vars
               PROVE  TypeOK' /\ InfoRead'
    OBVIOUS
  <2>1. ASSUME NEW r \in Requests, Arrive(r) PROVE TypeOK' /\ InfoRead'
    BY <2>1 DEF TypeOK, InfoRead, Requests, Arrive, Goto, goroutines
  <2>2. ASSUME NEW p \in Provisions, BackendStep(p) PROVE TypeOK' /\ InfoRead'
    BY <2>2 DEF TypeOK, InfoRead, BackendStep, TakeSaved, Build
  <2>3. CASE UNCHANGED vars
    BY <2>3 DEF TypeOK, InfoRead, vars
  <2>4. QED
    BY <2>1, <2>2, <2>3, ProvisionTypes, DeprovisionTypes, UpdateTypes, BindTypes DEF Next
<1>2. QED
  BY InitTypes, <1>1, PTL DEF Spec

(* Type correctness of the broker.                                         *)
THEOREM BrokerTypes == Spec => []TypeOK
  BY TypesHold, PTL

-----------------------------------------------------------------------------
(* A step of request r moves r alone, and answers it when it ends it.      *)
Moves(r) ==
  /\ pc[r] # "done"
  /\ \A q \in Requests \ {r} : pc'[q] = pc[q] /\ reply'[q] = reply[q]
  /\ pc'[r] = "done" => reply'[r] # "none"
  /\ pc'[r] # "done" => reply'[r] = reply[r]

(* A request is answered exactly when it has ended.                        *)
Answered == \A r \in Requests : pc[r] = "done" <=> reply[r] # "none"

LEMMA ProvisionMoves ==
  ASSUME TypeOK, NEW p \in Provisions, ProvisionStep(p)
  PROVE  Moves(p)
  BY DEF TypeOK, Requests, Moves, ProvisionStep, ProvisionRead, ProvisionBegin,
         ProvisionMkdir, ProvisionSet, ProvisionMkbinding, At, Goto, Answer

LEMMA OtherMoves ==
  ASSUME TypeOK, NEW r \in Requests,
         \/ r \in Deprovisions /\ DeprovisionStep(r)
         \/ r \in Updates /\ UpdateStep(r)
         \/ r \in Binds /\ BindStep(r)
         \/ r \in Unbinds /\ UnbindStep(r)
  PROVE  Moves(r) /\ UNCHANGED <<saved, backend>>
<1> USE DEF TypeOK, Moves, At, Goto, Answer, goroutines
<1>1. CASE \E l \in {"info", "do", "binding"} : ReadInstance(r, l) \/ ReadInfo(r, l)
  BY <1>1 DEF ReadInstance, ReadInfo
<1>2. CASE r \in Deprovisions /\ (DeprovisionDo(r) \/ DeprovisionRmdir(r))
  BY <1>2 DEF DeprovisionDo, DeprovisionRmdir
<1>3. CASE r \in Updates /\ UpdateDo(r)
  BY <1>3 DEF UpdateDo
<1>4. CASE r \in Binds /\ (\/ BindRead(r) \/ BindReadBinding(r) \/ BindCheck(r)
                           \/ BindDo(r) \/ BindMkbind(r) \/ BindCred(r))
  BY <1>4 DEF BindRead, BindReadBinding, BindCheck, BindDo, BindMkbind, BindCred
<1>5. CASE r \in Unbinds /\ (UnbindReadBinding(r) \/ UnbindDo(r) \/ UnbindRmbind(r))
  BY <1>5 DEF UnbindReadBinding, UnbindDo, UnbindRmbind
<1>6. QED
  BY <1>1, <1>2, <1>3, <1>4, <1>5 DEF DeprovisionStep, UpdateStep, BindStep, UnbindStep

(* Where a Provision is, what its goroutine has been told and does, and    *)
(* what the platform was told, together.                                   *)
ProvisionShape ==
  \A p \in Provisions :
    /\ pc[p] \in {"new", "read", "begin", "mkdir", "ids", "info", "mkbinding", "done"}
    /\ pc[p] \in {"new", "read", "begin"} => backend[p] = "none" /\ saved[p] = "none"
    /\ pc[p] \in {"mkdir", "ids", "info", "mkbinding"} =>
         backend[p] = "waiting" /\ saved[p] = "none"
    /\ pc[p] = "done" /\ reply[p] = "ok" =>
         \/ backend[p] = "waiting" /\ saved[p] = "nil"
         \/ backend[p] \in {"building", "built", "destroyed"} /\ saved[p] = "taken"
    /\ pc[p] = "done" /\ reply[p] # "ok" =>
         \/ backend[p] = "none" /\ saved[p] = "none"
         \/ backend[p] = "waiting" /\ saved[p] = "err"
         \/ backend[p] = "quit" /\ saved[p] = "taken"

LEMMA ProvisionShapeStep ==
  ASSUME TypeOK, Answered, ProvisionShape, [Next]_vars
  PROVE  ProvisionShape' /\ Answered'
<1> USE DEF TypeOK, Answered, ProvisionShape
<1>1. ASSUME NEW r \in Requests, Arrive(r) PROVE ProvisionShape' /\ Answered'
  BY <1>1 DEF Arrive, At, Goto, goroutines, Requests
<1>2. ASSUME NEW p \in Provisions, ProvisionStep(p) PROVE ProvisionShape' /\ Answered'
  <2>1. Answered'
    BY <1>2, ProvisionMoves DEF Moves
  <2>2. \A q \in Provisions \ {p} : /\ pc'[q] = pc[q] /\ reply'[q] = reply[q]
                                    /\ saved'[q] = saved[q] /\ backend'[q] = backend[q]
    BY <1>2 DEF ProvisionStep, ProvisionRead, ProvisionBegin, ProvisionMkdir, ProvisionSet,
                ProvisionMkbinding, At, Goto, Answer, goroutines, Requests
  <2>3. reply[p] = "none"
    BY <1>2, ProvisionMoves DEF Moves, Requests
  <2>4. /\ pc'[p] \in {"new", "read", "begin", "mkdir", "ids", "info", "mkbinding", "done"}
        /\ pc'[p] \in {"new", "read", "begin"} => backend'[p] = "none" /\ saved'[p] = "none"
        /\ pc'[p] \in {"mkdir", "ids", "info", "mkbinding"} =>
             backend'[p] = "waiting" /\ saved'[p] = "none"
        /\ pc'[p] = "done" /\ reply'[p] = "ok" => backend'[p] = "waiting" /\ saved'[p] = "nil"
        /\ pc'[p] = "done" /\ reply'[p] # "ok" =>
             \/ backend'[p] = "none" /\ saved'[p] = "none"
             \/ backend'[p] = "waiting" /\ saved'[p] = "err"
    BY <1>2, <2>3 DEF ProvisionStep, ProvisionRead, ProvisionBegin, ProvisionMkdir,
                ProvisionSet, ProvisionMkbinding, At, Goto, Answer, goroutines, Requests
  <2>5. QED
    BY <2>1, <2>2, <2>4
<1>3. ASSUME NEW r \in Requests, Moves(r), r \notin Provisions, UNCHANGED <<saved, backend>>
      PROVE  ProvisionShape' /\ Answered'
  BY <1>3 DEF Moves, Requests
<1>4. ASSUME NEW p \in Provisions, BackendStep(p) PROVE ProvisionShape' /\ Answered'
  BY <1>4 DEF BackendStep, TakeSaved, Build
<1>5. ASSUME NEW d \in Deprovisions, Destroy(d) PROVE ProvisionShape' /\ Answered'
  BY <1>5 DEF Destroy
<1>6. ASSUME NEW u \in Updates, UpdaterStep(u) PROVE ProvisionShape' /\ Answered'
  BY <1>6 DEF UpdaterStep, UpdaterExpand, UpdaterSave
<1>7. CASE UNCHANGED vars
  BY <1>7 DEF vars
<1>8. QED
  BY <1>1, <1>2, <1>3, <1>4, <1>5, <1>6, <1>7, OtherMoves, BrokerAssumption DEF Next, Requests

LEMMA ProvisionShapeHolds == Spec => [](ProvisionShape /\ Answered)
<1>1. Init => ProvisionShape /\ Answered
  BY DEF Init, ProvisionShape, Answered, Requests
<1>2. TypeOK /\ ProvisionShape /\ Answered /\ [Next]_vars => (ProvisionShape /\ Answered)'
  BY ProvisionShapeStep
<1>3. QED
  BY <1>1, <1>2, BrokerTypes, PTL DEF Spec

(* Every path out of Provision tells the goroutine whether to go ahead.    *)
THEOREM GoroutinesAreTold == Spec => []GoroutineIsTold
<1>1. ProvisionShape => GoroutineIsTold
  BY DEF ProvisionShape, GoroutineIsTold
<1>2. QED
  BY <1>1, ProvisionShapeHolds, PTL

(* The goroutine builds if and only if the platform was answered ok.       *)
THEOREM AnswersAgree == Spec => []BuiltAsAnswered
<1>1. ProvisionShape /\ Answered => BuiltAsAnswered
  BY DEF ProvisionShape, Answered, Requests, BuiltAsAnswered, Winners
<1>2. QED
  BY <1>1, ProvisionShapeHolds, PTL

-----------------------------------------------------------------------------
(* Provisions that hold the directory: past the Set that makes it, and not *)
(* turned down since.                                                      *)
Claimants == Winners \cup {p \in Provisions : pc[p] \in {"ids", "info", "mkbinding"}}

(* Each of them found the directory missing and made it; only a            *)
(* Deprovision that ends takes it away.                                    *)
OneClaim ==
  Cardinality(Claimants) <= Cardinality(Emptied) + (IF store.dir THEN 1 ELSE 0)

(* All steps but two leave the claimants, the Deprovisions that have ended *)
(* and the directory as they are, or make the claim weaker.                *)
Weakens ==
  /\ Claimants' \subseteq Claimants
  /\ Emptied \subseteq Emptied'
  /\ store.dir => store.dir'

LEMMA FiniteClaims ==
  /\ IsFiniteSet(Claimants) /\ IsFiniteSet(Emptied)
  /\ IsFiniteSet(Claimants') /\ IsFiniteSet(Emptied')
  BY BrokerAssumption, FS_Subset DEF Claimants, Winners, Emptied

LEMMA WeakerClaim ==
  ASSUME OneClaim, Weakens
  PROVE  OneClaim'
<1>1. Cardinality(Claimants') <= Cardinality(Claimants)
  BY FiniteClaims, FS_Subset DEF Weakens
<1>2. Cardinality(Emptied) <= Cardinality(Emptied')
  BY FiniteClaims, FS_Subset DEF Weakens
<1>3. /\ Cardinality(Claimants) \in Nat /\ Cardinality(Claimants') \in Nat
      /\ Cardinality(Emptied) \in Nat /\ Cardinality(Emptied') \in Nat
  BY FiniteClaims, FS_CardinalityType
<1>4. QED
  BY <1>1, <1>2, <1>3 DEF OneClaim, Weakens

(* The Set of the directory: the claimant comes with it.                   *)
LEMMA MkdirClaims ==
  ASSUME TypeOK, OneClaim, NEW p \in Provisions, ProvisionMkdir(p), ~store.dir, pc'[p] = "ids"
  PROVE  OneClaim'
<1>1. Claimants' \subseteq Claimants \cup {p} /\ store'.dir /\ Emptied' = Emptied
  BY BrokerAssumption
     DEF TypeOK, Requests, ProvisionMkdir, With, Goto, Answer, Stores, Claimants, Winners,
         Emptied
<1>2. Cardinality(Claimants') <= Cardinality(Claimants) + 1
  <2>1. IsFiniteSet(Claimants \cup {p})
    BY FiniteClaims, FS_AddElement
  <2>2. Cardinality(Claimants \cup {p}) <= Cardinality(Claimants) + 1
    <3>1. Cardinality(Claimants \cup {p})
            = IF p \in Claimants THEN Cardinality(Claimants) ELSE Cardinality(Claimants) + 1
      BY FiniteClaims, FS_AddElement
    <3>2. Cardinality(Claimants) \in Nat
      BY FiniteClaims, FS_CardinalityType
    <3>3. QED
      BY <3>1, <3>2
  <2>3. Cardinality(Claimants') <= Cardinality(Claimants \cup {p})
    BY <1>1, <2>1, FS_Subset
  <2>4. QED
    BY <2>1, <2>2, <2>3, FiniteClaims, FS_CardinalityType
<1>3. /\ Cardinality(Claimants) \in Nat /\ Cardinality(Claimants') \in Nat
      /\ Cardinality(Emptied) \in Nat
  BY FiniteClaims, FS_CardinalityType
<1>4. QED
  BY <1>1, <1>2, <1>3 DEF OneClaim

(* The Delete of the directory: one more Deprovision has ended.            *)
LEMMA RmdirClaims ==
  ASSUME TypeOK, Answered, OneClaim, NEW d \in Deprovisions, DeprovisionRmdir(d)
  PROVE  OneClaim'
<1>1. Claimants' = Claimants /\ Emptied' = Emptied \cup {d} /\ d \notin Emptied
  BY BrokerAssumption
     DEF TypeOK, Answered, Requests, DeprovisionRmdir, At, Answer, goroutines, Claimants,
         Winners, Emptied
<1>2. Cardinality(Emptied') = Cardinality(Emptied) + 1
  BY <1>1, FiniteClaims, FS_AddElement
<1>3. Cardinality(Claimants) \in Nat /\ Cardinality(Emptied) \in Nat
  BY FiniteClaims, FS_CardinalityType
<1>4. QED
  BY <1>1, <1>2, <1>3 DEF OneClaim

LEMMA OneClaimStep ==
  ASSUME TypeOK, ProvisionShape, Answered, OneClaim, [Next]_vars
  PROVE  OneClaim'
<1> USE DEF Claimants, Winners, Emptied
<1>1. ASSUME NEW r \in Requests, Moves(r), r \notin Provisions,
             UNCHANGED <<saved, backend>>, store.dir => store'.dir
      PROVE  Weakens
  BY <1>1 DEF Moves, Weakens, Requests, Answered
<1>2. ASSUME NEW r \in Requests, Arrive(r) PROVE Weakens
  BY <1>2 DEF TypeOK, Requests, Arrive, At, Goto, goroutines, Weakens
<1>3. ASSUME NEW p \in Provisions, ProvisionStep(p) PROVE OneClaim'
  <2>1. CASE ProvisionMkdir(p) /\ ~store.dir /\ pc'[p] = "ids"
    BY <2>1, MkdirClaims
  <2>2. ASSUME ~(ProvisionMkdir(p) /\ ~store.dir /\ pc'[p] = "ids") PROVE Weakens
    <3>1. Emptied \subseteq Emptied'
      BY <1>3, ProvisionMoves, BrokerAssumption DEF Moves, Requests
    <3>2. store.dir => store'.dir
      <4>1. CASE ProvisionRead(p) \/ ProvisionBegin(p)
        BY <4>1 DEF ProvisionRead, ProvisionBegin
      <4>2. CASE ProvisionMkdir(p)
        BY <4>2 DEF TypeOK, Stores, ProvisionMkdir, With
      <4>3. CASE ProvisionSet(p)
        <5>1. store' \in {store, With(store), [With(store) EXCEPT !.ids = TRUE],
                          [With(store) EXCEPT !.info = [prov |-> p, size |-> Size0]]}
          BY <4>3 DEF ProvisionSet, Set
        <5>2. With(store).dir
          BY DEF TypeOK, Stores, With
        <5>3. With(store) \in Stores
          BY StoresClosed DEF TypeOK
        <5>4. /\ [With(store) EXCEPT !.ids = TRUE].dir
              /\ [With(store) EXCEPT !.info = [prov |-> p, size |-> Size0]].dir
          BY <5>2, <5>3 DEF Stores
        <5>5. QED
          BY <5>1, <5>2, <5>4
      <4>4. CASE ProvisionMkbinding(p)
        BY <4>4 DEF TypeOK, Stores, ProvisionMkbinding, WithBinding
      <4>5. QED
        BY <1>3, <4>1, <4>2, <4>3, <4>4 DEF ProvisionStep
    <3>3. Claimants' \subseteq Claimants
      BY <1>3, <2>2
         DEF TypeOK, Requests, ProvisionShape, ProvisionStep, ProvisionRead, ProvisionBegin,
             ProvisionMkdir, ProvisionSet, ProvisionMkbinding, At, Goto, Answer, goroutines
    <3>4. QED
      BY <3>1, <3>2, <3>3 DEF Weakens
  <2>3. QED
    BY <2>1, <2>2, WeakerClaim
<1>4. ASSUME NEW d \in Deprovisions, DeprovisionStep(d) PROVE OneClaim'
  <2>1. CASE DeprovisionRmdir(d)
    BY <2>1, RmdirClaims
  <2>2. CASE ~DeprovisionRmdir(d)
    <3>1. UNCHANGED store
      BY <1>4, <2>2 DEF DeprovisionStep, ReadInstance, ReadInfo, DeprovisionDo
    <3>2. QED
      BY <1>1, <1>4, <3>1, OtherMoves, WeakerClaim, BrokerAssumption DEF Requests
  <2>3. QED
    BY <2>1, <2>2
<1>5. ASSUME NEW u \in Updates, UpdateStep(u) PROVE Weakens
  <2>1. UNCHANGED store
    BY <1>5 DEF UpdateStep, ReadInstance, ReadInfo, UpdateDo
  <2>2. QED
    BY <1>1, <1>5, <2>1, OtherMoves, BrokerAssumption DEF Requests
<1>6. ASSUME NEW b \in Binds, BindStep(b) PROVE Weakens
  <2>1. store.dir => store'.dir
    <3>1. CASE BindRead(b) \/ BindReadBinding(b) \/ BindCheck(b) \/ ReadInfo(b, "do") \/ BindDo(b)
      BY <3>1 DEF BindRead, BindReadBinding, BindCheck, ReadInfo, BindDo
    <3>2. CASE BindMkbind(b)
      BY <3>2 DEF TypeOK, Stores, BindMkbind, WithBinding
    <3>3. CASE BindCred(b)
      <4> DEFINE begun == [WithBinding(store) EXCEPT !.bound = @ \cup {BindingOf[b]}]
      <4>1. store' \in {store, begun, [begun EXCEPT !.cred = @ \cup {BindingOf[b]}]}
        BY <3>3 DEF BindCred
      <4>2. begun \in Stores
        BY BindingStored DEF TypeOK, BindingIDs
      <4>3. begun.dir
        BY DEF TypeOK, Stores, WithBinding
      <4>4. [begun EXCEPT !.cred = @ \cup {BindingOf[b]}].dir
        BY <4>2, <4>3 DEF Stores
      <4>5. QED
        BY <4>1, <4>3, <4>4
    <3>4. QED
      BY <1>6, <3>1, <3>2, <3>3 DEF BindStep
  <2>2. QED
    BY <1>1, <1>6, <2>1, OtherMoves, BrokerAssumption DEF Requests
<1>7. ASSUME NEW b \in Unbinds, UnbindStep(b) PROVE Weakens
  <2>1. store.dir => store'.dir
    BY <1>7 DEF TypeOK, Stores, UnbindStep, ReadInstance, UnbindReadBinding, ReadInfo,
                UnbindDo, UnbindRmbind
  <2>2. QED
    BY <1>1, <1>7, <2>1, OtherMoves, BrokerAssumption DEF Requests
<1>8. ASSUME NEW p \in Provisions, BackendStep(p) PROVE Weakens
  BY <1>8 DEF TypeOK, BackendStep, TakeSaved, Build, Weakens
<1>9. ASSUME NEW d \in Deprovisions, Destroy(d) PROVE Weakens
  BY <1>9 DEF TypeOK, Destroy, Weakens
<1>10. ASSUME NEW u \in Updates, UpdaterStep(u) PROVE Weakens
  BY <1>10 DEF TypeOK, Stores, UpdaterStep, UpdaterExpand, UpdaterSave, With, Weakens
<1>11. CASE UNCHANGED vars
  BY <1>11, WeakerClaim DEF vars, Weakens
<1>12. QED
  BY <1>2, <1>3, <1>4, <1>5, <1>6, <1>7, <1>8, <1>9, <1>10, <1>11, WeakerClaim DEF Next

(* However many Provisions of one id race, and whatever etcd loses, no     *)
(* more than one builds until a Deprovision has ended.                     *)
THEOREM OneWins == Spec => []OneWinnerPerLife
<1>1. Init => OneClaim
  <2> SUFFICES ASSUME Init PROVE OneClaim
    OBVIOUS
  <2>1. Claimants = {} /\ Emptied = {}
    BY DEF Init, Claimants, Winners, Emptied, Requests
  <2>2. QED
    BY <2>1, FS_EmptySet DEF OneClaim
<1>2. TypeOK /\ ProvisionShape /\ Answered /\ OneClaim /\ [Next]_vars => OneClaim'
  BY OneClaimStep
<1>3. OneClaim => OneWinnerPerLife
  <2>1. Cardinality(Winners) <= Cardinality(Claimants) /\ IsFiniteSet(Winners)
    BY FiniteClaims, FS_Subset DEF Claimants
  <2>2. /\ Cardinality(Winners) \in Nat /\ Cardinality(Claimants) \in Nat
        /\ Cardinality(Emptied) \in Nat
    BY <2>1, FiniteClaims, FS_CardinalityType
  <2>3. QED
    BY <2>1, <2>2 DEF OneClaim, OneWinnerPerLife
<1>4. QED
  BY <1>1, <1>2, <1>3, BrokerTypes, ProvisionShapeHolds, PTL DEF Spec

-----------------------------------------------------------------------------
(***************************************************************************)
(* The record that Broker keeps in etcd: a Provision which was answered ok *)
(* is recorded, and the record and what stands in the cluster agree.  Both *)
(* are about etcd calls that do not fail, with requests that race up to    *)
(* the first Deprovision, or with a platform that waits for each operation *)
(* to end.                                                                 *)
(***************************************************************************)
(* The behaviours that are spoken of.                                      *)
Steady == ~env.storeFails /\ (env.patient \/ \A d \in Deprovisions : pc[d] # "done")

(* Requests under way, and those whose goroutine is.                       *)
Busy == InFlight \cup {p \in Provisions : backend[p] \in {"waiting", "building"}}
                 \cup {d \in Deprovisions : undo[d] = "running"}
                 \cup {u \in Updates : updater[u] \in {"expand", "save"}}

OneAtATime == env.patient => \A q, r \in Busy : q = r

(* Between making the directory of the instance and that of the bindings.  *)
Writing(p) == pc[p] \in {"ids", "info", "mkbinding"}

OneWriter == Steady => \A p, q \in Provisions : Writing(p) /\ Writing(q) => p = q

(* What there is of a record that is being written.                        *)
Partly ==
  \A p \in Provisions :
    /\ Writing(p) => store.dir /\ ~store.binding
    /\ pc[p] \in {"ids", "info"} => store.info = NoInfo
    /\ pc[p] \in {"info", "mkbinding"} => store.ids
    /\ pc[p] = "mkbinding" => store.info # NoInfo /\ store.info.prov = p

Complete(p) ==
  /\ store.dir /\ store.ids /\ store.binding
  /\ store.info # NoInfo /\ store.info.prov = p

(* The updates and deprovisions that have an _info in their hands.         *)
Holds(r) ==
  pc[r] \in {"do", "rmdir"} \/ (r \in Updates /\ updater[r] \in {"expand", "save"})

(* A record is being written by somebody or complete, and whoever has read *)
(* some of it has read what is there now.                                  *)
Followed ==
  /\ ~store.dir => ~store.ids /\ store.info = NoInfo /\ ~store.binding
  /\ store.dir => \E p \in Provisions : Writing(p) \/ Complete(p)
  /\ \A r \in Updates \cup Deprovisions :
       Holds(r) => store.info # NoInfo /\ info[r].prov = store.info.prov
  /\ \A b \in Binds :
       pc[b] \in {"check", "info", "do", "mkbind", "cred"} => store.binding

(* Where a deprovision is and its destroyer.                               *)
Undoing ==
  \A d \in Deprovisions :
    /\ pc[d] = "rmdir" => undo[d] # "none"
    /\ undo[d] # "none" => pc[d] \in {"rmdir", "done"} /\ info[d] # NoInfo

(* An answer, the record and what has been built, together: they part only *)
(* when a deprovision comes.                                               *)
Undone(p) == \E d \in Deprovisions : pc[d] = "done" /\ undo[d] # "none" /\ info[d].prov = p

Matched ==
  \A p \in Provisions :
    /\ reply[p] = "ok" => Complete(p) \/ Undone(p)
    /\ Complete(p) =>
         /\ reply[p] = "ok"
         /\ backend[p] = "destroyed" =>
              \E d \in Deprovisions : pc[d] = "rmdir" /\ undo[d] = "done"

(* With a patient platform a destroyer finds what it is to destroy.        *)
Removing ==
  \A d \in Deprovisions :
    /\ undo[d] = "running" => backend[info[d].prov] = "built"
    /\ undo[d] = "done" => backend[info[d].prov] = "destroyed"
    /\ undo[d] = "running" /\ pc[d] = "done" => ~store.dir

(* What the first part of the proof provides for the second.               *)
Base == /\ TypeOK /\ InfoRead /\ ProvisionShape /\ Answered
        /\ OneAtATime /\ OneWriter /\ Undoing

Recorded == Partly /\ Followed /\ Matched

-----------------------------------------------------------------------------
(* A step of a request keeps to that request.                              *)
LEMMA ProvisionKeepsBusy ==
  ASSUME TypeOK, NEW p \in Provisions, ProvisionStep(p) \/ BackendStep(p)
  PROVE  Busy' \subseteq Busy
<1> USE DEF TypeOK, Requests, Busy, InFlight, At, Goto, Answer, goroutines
<1>1. CASE ProvisionRead(p)
  BY <1>1 DEF ProvisionRead
<1>2. CASE ProvisionBegin(p)
  BY <1>2 DEF ProvisionBegin
<1>3. CASE ProvisionMkdir(p)
  BY <1>3 DEF ProvisionMkdir
<1>4. CASE ProvisionSet(p)
  BY <1>4 DEF ProvisionSet
<1>5. CASE ProvisionMkbinding(p)
  BY <1>5 DEF ProvisionMkbinding
<1>6. CASE BackendStep(p)
  BY <1>6 DEF BackendStep, TakeSaved, Build
<1>7. QED
  BY <1>1, <1>2, <1>3, <1>4, <1>5, <1>6 DEF ProvisionStep

LEMMA OthersKeepBusy ==
  ASSUME TypeOK,
         \/ \E d \in Deprovisions : DeprovisionStep(d) \/ Destroy(d)
         \/ \E u \in Updates : UpdateStep(u) \/ UpdaterStep(u)
         \/ \E b \in Binds : BindStep(b)
         \/ \E b \in Unbinds : UnbindStep(b)
  PROVE  Busy' \subseteq Busy
<1> USE DEF TypeOK, Requests, Busy, InFlight, At, Goto, Answer, goroutines
<1>1. ASSUME NEW r \in Requests, NEW l \in {"info", "do", "binding"},
             ReadInstance(r, l) \/ ReadInfo(r, l)
      PROVE  Busy' \subseteq Busy
  BY <1>1 DEF ReadInstance, ReadInfo
<1>2. ASSUME NEW d \in Deprovisions, DeprovisionDo(d) \/ DeprovisionRmdir(d) \/ Destroy(d)
      PROVE  Busy' \subseteq Busy
  BY <1>2 DEF DeprovisionDo, DeprovisionRmdir, Destroy
<1>3. ASSUME NEW u \in Updates, UpdateDo(u) \/ UpdaterStep(u)
      PROVE  Busy' \subseteq Busy
  BY <1>3 DEF UpdateDo, UpdaterStep, UpdaterExpand, UpdaterSave
<1>4. ASSUME NEW b \in Binds,
             \/ BindRead(b) \/ BindReadBinding(b) \/ BindCheck(b)
             \/ BindDo(b) \/ BindMkbind(b) \/ BindCred(b)
      PROVE  Busy' \subseteq Busy
  BY <1>4 DEF BindRead, BindReadBinding, BindCheck, BindDo, BindMkbind, BindCred
<1>5. ASSUME NEW b \in Unbinds, UnbindReadBinding(b) \/ UnbindDo(b) \/ UnbindRmbind(b)
      PROVE  Busy' \subseteq Busy
  BY <1>5 DEF UnbindReadBinding, UnbindDo, UnbindRmbind
<1>6. QED
  BY <1>1, <1>2, <1>3, <1>4, <1>5 DEF DeprovisionStep, UpdateStep, BindStep, UnbindStep

(* A patient platform has one thing at a time under way.                   *)
LEMMA OneAtATimeStep ==
  ASSUME TypeOK, OneAtATime, [Next]_vars
  PROVE  OneAtATime'
<1>1. UNCHANGED env
  BY DEF Next, vars, Arrive, ProvisionStep, ProvisionRead, ProvisionBegin, ProvisionMkdir,
         ProvisionSet, ProvisionMkbinding, BackendStep, TakeSaved, Build, DeprovisionStep,
         ReadInstance, ReadInfo, DeprovisionDo, DeprovisionRmdir, Destroy, UpdateStep,
         UpdateDo, UpdaterStep, UpdaterExpand, UpdaterSave, BindStep, BindRead,
         BindReadBinding, BindCheck, BindDo, BindMkbind, BindCred, UnbindStep,
         UnbindReadBinding, UnbindDo, UnbindRmbind
<1>2. ASSUME NEW r \in Requests, Arrive(r), env.patient
      PROVE  Busy' \subseteq {r}
  BY <1>2 DEF TypeOK, Requests, Arrive, Settled, Busy, InFlight, At, Goto, goroutines
<1>3. CASE UNCHANGED vars
  BY <1>3 DEF OneAtATime, Busy, InFlight, vars
<1>4. QED
  BY <1>1, <1>2, <1>3, ProvisionKeepsBusy, OthersKeepBusy DEF OneAtATime, Next

(* A deprovision and its destroyer.                                        *)
LEMMA UndoingStep ==
  ASSUME TypeOK, InfoRead, Undoing, [Next]_vars
  PROVE  Undoing'
<1> USE BrokerAssumption DEF TypeOK, Undoing, Requests, At, Goto, Answer, goroutines
<1>1. ASSUME NEW r \in Requests, Arrive(r) PROVE Undoing'
  BY <1>1 DEF Arrive
<1>2. ASSUME NEW d \in Deprovisions, ReadInstance(d, "info") \/ ReadInfo(d, "do")
      PROVE  Undoing'
  BY <1>2 DEF ReadInstance, ReadInfo
<1>3. ASSUME NEW d \in Deprovisions, DeprovisionDo(d) \/ DeprovisionRmdir(d) \/ Destroy(d)
      PROVE  Undoing'
  BY <1>3 DEF InfoRead, DeprovisionDo, DeprovisionRmdir, Destroy
<1>4. ASSUME NEW p \in Provisions, ProvisionStep(p) PROVE Undoing'
  BY <1>4 DEF ProvisionStep, ProvisionRead, ProvisionBegin, ProvisionMkdir, ProvisionSet,
              ProvisionMkbinding
<1>5. ASSUME NEW p \in Provisions, BackendStep(p) PROVE Undoing'
  BY <1>5 DEF BackendStep, TakeSaved, Build
<1>6. ASSUME NEW u \in Updates, UpdateStep(u) PROVE Undoing'
  BY <1>6 DEF UpdateStep, ReadInstance, ReadInfo, UpdateDo
<1>7. ASSUME NEW u \in Updates, UpdaterStep(u) PROVE Undoing'
  BY <1>7 DEF UpdaterStep, UpdaterExpand, UpdaterSave
<1>8. ASSUME NEW b \in Binds, BindStep(b) PROVE Undoing'
  BY <1>8 DEF BindStep, BindRead, BindReadBinding, BindCheck, ReadInfo, BindDo, BindMkbind,
              BindCred
<1>9. ASSUME NEW b \in Unbinds, UnbindStep(b) PROVE Undoing'
  BY <1>9 DEF UnbindStep, ReadInstance, UnbindReadBinding, ReadInfo, UnbindDo, UnbindRmbind
<1>10. CASE UNCHANGED vars
  BY <1>10 DEF vars
<1>11. QED
  BY <1>1, <1>2, <1>3, <1>4, <1>5, <1>6, <1>7, <1>8, <1>9, <1>10 DEF Next, DeprovisionStep

(* Of Provisions that race one at most writes a record, as long as no      *)
(* Deprovision has ended; a patient platform has one only.                 *)
LEMMA WritersExclude ==
  ASSUME TypeOK, Answered, OneClaim, OneAtATime
  PROVE  OneWriter
<1> SUFFICES ASSUME Steady, NEW p \in Provisions, NEW q \in Provisions,
                    Writing(p), Writing(q), p # q
             PROVE  FALSE
  BY DEF OneWriter
<1>1. CASE env.patient
  BY <1>1 DEF OneAtATime, Busy, InFlight, Requests, Writing
<1>2. CASE \A d \in Deprovisions : pc[d] # "done"
  <2>1. Emptied = {}
    BY <1>2 DEF Emptied, Answered, Requests
  <2>2. Cardinality(Claimants) <= 1
    <3>1. Cardinality(Emptied) = 0
      BY <2>1, FS_EmptySet
    <3>2. Cardinality(Claimants) \in Nat
      BY FiniteClaims, FS_CardinalityType
    <3>3. QED
      BY <3>1, <3>2 DEF OneClaim
  <2>3. {p, q} \subseteq Claimants
    BY DEF Claimants, Writing
  <2>4. Cardinality({p, q}) = 2
    <3>1. Cardinality({p}) = 1 /\ IsFiniteSet({p})
      BY FS_Singleton
    <3>2. {p} \cup {q} = {p, q} /\ q \notin {p}
      OBVIOUS
    <3>3. QED
      BY <3>1, <3>2, FS_AddElement
  <2>5. Cardinality({p, q}) <= Cardinality(Claimants) /\ Cardinality(Claimants) \in Nat
    BY <2>3, FiniteClaims, FS_Subset, FS_CardinalityType
  <2>6. QED
    BY <2>2, <2>4, <2>5
<1>3. QED
  BY <1>1, <1>2 DEF Steady

LEMMA BaseHolds == Spec => []Base
<1>1. Init => OneAtATime /\ Undoing /\ OneClaim
  <2> SUFFICES ASSUME Init PROVE OneAtATime /\ Undoing /\ OneClaim
    OBVIOUS
  <2>1. OneAtATime /\ Undoing
    BY DEF Init, OneAtATime, Undoing, Busy, InFlight, Requests
  <2>2. Claimants = {} /\ Emptied = {}
    BY DEF Init, Claimants, Winners, Emptied, Requests
  <2>3. QED
    BY <2>1, <2>2, FS_EmptySet DEF OneClaim
<1>2. TypeOK /\ OneAtATime /\ [Next]_vars => OneAtATime'
  BY OneAtATimeStep
<1>3. TypeOK /\ InfoRead /\ Undoing /\ [Next]_vars => Undoing'
  BY UndoingStep
<1>4. TypeOK /\ ProvisionShape /\ Answered /\ OneClaim /\ [Next]_vars => OneClaim'
  BY OneClaimStep
<1>5. TypeOK /\ Answered /\ OneClaim /\ OneAtATime => OneWriter
  BY WritersExclude
<1>6. QED
  BY <1>1, <1>2, <1>3, <1>4, <1>5, TypesHold, ProvisionShapeHolds, PTL DEF Spec, Base

-----------------------------------------------------------------------------
(* A behaviour that is steady after a step was so before.                  *)
LEMMA SteadyBefore ==
  ASSUME TypeOK, [Next]_vars, Steady'
  PROVE  Steady /\ UNCHANGED env
<1>1. UNCHANGED env
  BY DEF Next, vars, Arrive, ProvisionStep, ProvisionRead, ProvisionBegin, ProvisionMkdir,
         ProvisionSet, ProvisionMkbinding, BackendStep, TakeSaved, Build, DeprovisionStep,
         ReadInstance, ReadInfo, DeprovisionDo, DeprovisionRmdir, Destroy, UpdateStep,
         UpdateDo, UpdaterStep, UpdaterExpand, UpdaterSave, BindStep, BindRead,
         BindReadBinding, BindCheck, BindDo, BindMkbind, BindCred, UnbindStep,
         UnbindReadBinding, UnbindDo, UnbindRmbind
<1>2. \A d \in Deprovisions : pc[d] = "done" => pc'[d] = "done"
  <2> SUFFICES ASSUME NEW d \in Deprovisions, pc[d] = "done" PROVE pc'[d] = "done"
    OBVIOUS
  <2>1. ASSUME NEW r \in Requests, Arrive(r) PROVE pc'[d] = "done"
    BY <2>1 DEF Arrive, At, Goto, Requests, TypeOK
  <2>2. ASSUME NEW r \in Requests, Moves(r) PROVE pc'[d] = "done"
    BY <2>2 DEF Moves, Requests
  <2>3. CASE UNCHANGED pc
    BY <2>3
  <2>4. QED
    BY <2>1, <2>2, <2>3, ProvisionMoves, OtherMoves
       DEF Next, vars, Requests, BackendStep, TakeSaved, Build, Destroy, UpdaterStep,
           UpdaterExpand, UpdaterSave
<1>3. QED
  BY <1>1, <1>2 DEF Steady

(* Of the record only the bindings change.                                 *)
SameRecord ==
  /\ store'.dir = store.dir /\ store'.ids = store.ids
  /\ store'.info = store.info /\ store'.binding = store.binding

(* Binds and unbinds work below a binding directory that is there.         *)
LEMMA BindKeepsRecord ==
  ASSUME TypeOK, Followed, NEW b \in Binds, BindStep(b)
  PROVE  SameRecord
<1> USE DEF TypeOK, SameRecord, At
<1>1. CASE BindRead(b) \/ BindReadBinding(b) \/ BindCheck(b) \/ ReadInfo(b, "do") \/ BindDo(b)
  BY <1>1 DEF BindRead, BindReadBinding, BindCheck, ReadInfo, BindDo
<1> DEFINE made == [WithBinding(store) EXCEPT !.bound = @ \cup {BindingOf[b]}]
<1>2. ASSUME store.binding
      PROVE  /\ made.dir = store.dir /\ made.ids = store.ids
             /\ made.info = store.info /\ made.binding = store.binding
             /\ made \in Stores
  <2>1. made \in Stores
    BY BindingStored DEF BindingIDs
  <2>2. QED
    BY <1>2, <2>1 DEF Followed, Stores, WithBinding
<1>3. CASE BindMkbind(b)
  BY <1>2, <1>3 DEF Followed, BindMkbind
<1>4. CASE BindCred(b)
  <2>1. store.binding
    BY <1>4 DEF Followed, BindCred
  <2>2. store' \in {store, made, [made EXCEPT !.cred = @ \cup {BindingOf[b]}]}
    BY <1>4 DEF BindCred
  <2>3. QED
    BY <1>2, <2>1, <2>2 DEF Stores
<1>5. QED
  BY <1>1, <1>3, <1>4 DEF BindStep

LEMMA UnbindKeepsRecord ==
  ASSUME TypeOK, NEW b \in Unbinds, UnbindStep(b)
  PROVE  SameRecord
  BY DEF TypeOK, Stores, SameRecord, UnbindStep, ReadInstance, UnbindReadBinding, ReadInfo,
         UnbindDo, UnbindRmbind

(* What a Set makes of the record.                                         *)
LEMMA FieldsSet ==
  ASSUME store \in Stores, NEW i
  PROVE  /\ LET s == [With(store) EXCEPT !.info = i]
            IN /\ s.dir = TRUE /\ s.ids = store.ids /\ s.info = i /\ s.binding = store.binding
         /\ LET s == [With(store) EXCEPT !.ids = TRUE]
            IN /\ s.dir = TRUE /\ s.ids = TRUE /\ s.info = store.info /\ s.binding = store.binding
<1>1. /\ With(store).dir = TRUE /\ With(store).ids = store.ids
      /\ With(store).info = store.info /\ With(store).binding = store.binding
  BY DEF Stores, With
<1>2. QED
  BY <1>1, StoresClosed DEF Stores

(* The saving of a size leaves the record whose it is.                     *)
LEMMA SaveKeepsOwner ==
  ASSUME TypeOK, InfoRead, Followed, NEW u \in Updates, UpdaterSave(u)
  PROVE  /\ store'.dir = store.dir /\ store'.ids = store.ids
         /\ store'.binding = store.binding
         /\ store.info # NoInfo /\ store'.info # NoInfo
         /\ store'.info.prov = store.info.prov
<1>1. store.info # NoInfo /\ info[u].prov = store.info.prov /\ info[u] # NoInfo
  BY DEF UpdaterSave, Followed, Holds, InfoRead
<1>2. store.dir
  BY <1>1 DEF Followed
<1>3. QED
  <2>1. store' \in {store, [With(store) EXCEPT !.info = info[u]]}
    BY DEF UpdaterSave
  <2>2. LET s == [With(store) EXCEPT !.info = info[u]]
        IN /\ s.dir = TRUE /\ s.ids = store.ids /\ s.info = info[u] /\ s.binding = store.binding
    BY FieldsSet DEF TypeOK
  <2>3. QED
    BY <1>1, <1>2, <2>1, <2>2

(* Without failures each write of a Provision takes effect.                *)
LEMMA MkdirWrites ==
  ASSUME TypeOK, ~env.storeFails, Followed, NEW p \in Provisions, ProvisionMkdir(p)
  PROVE  /\ pc[p] = "mkdir" /\ UNCHANGED backend
         /\ \/ /\ store.dir /\ UNCHANGED store
               /\ pc'[p] = "done" /\ reply'[p] = "error"
            \/ /\ ~store.dir /\ store'.dir /\ ~store'.ids /\ store'.info = NoInfo
               /\ ~store'.binding
               /\ pc'[p] = "ids" /\ UNCHANGED reply
  BY DEF TypeOK, Requests, At, Goto, Answer, Stores, Followed, ProvisionMkdir, With

LEMMA SetWrites ==
  ASSUME TypeOK, ~env.storeFails, Partly, NEW p \in Provisions, ProvisionSet(p)
  PROVE  /\ store'.dir /\ store'.ids /\ ~store'.binding
         /\ UNCHANGED <<reply, backend>>
         /\ store.info = NoInfo /\ ~store.binding
         /\ \/ /\ pc[p] = "ids" /\ pc'[p] = "info" /\ store'.info = NoInfo
            \/ /\ pc[p] = "info" /\ pc'[p] = "mkbinding"
               /\ store'.info # NoInfo /\ store'.info.prov = p
<1> DEFINE i == [prov |-> p, size |-> Size0]
<1>1. /\ UNCHANGED <<reply, backend>>
      /\ \/ /\ pc[p] = "ids" /\ pc'[p] = "info"
            /\ store' = [With(store) EXCEPT !.ids = TRUE]
         \/ /\ pc[p] = "info" /\ pc'[p] = "mkbinding"
            /\ store' = [With(store) EXCEPT !.info = i]
  BY DEF TypeOK, Requests, At, Goto, ProvisionSet, Set, goroutines
<1>2. store.info = NoInfo /\ ~store.binding /\ (pc[p] = "info" => store.ids)
  BY <1>1 DEF Partly, Writing
<1>3. /\ LET s == [With(store) EXCEPT !.info = i]
         IN /\ s.dir = TRUE /\ s.ids = store.ids /\ s.info = i /\ s.binding = store.binding
      /\ LET s == [With(store) EXCEPT !.ids = TRUE]
         IN /\ s.dir = TRUE /\ s.ids = TRUE /\ s.info = store.info
            /\ s.binding = store.binding
  BY FieldsSet DEF TypeOK
<1>4. i # NoInfo /\ i.prov = p
  BY BrokerAssumption DEF Infos
<1> HIDE DEF i
<1>5. CASE pc[p] = "ids"
  BY <1>1, <1>2, <1>3, <1>5
<1>6. CASE pc[p] = "info"
  BY <1>1, <1>2, <1>3, <1>4, <1>6
<1>7. QED
  BY <1>1, <1>5, <1>6

LEMMA MkbindingWrites ==
  ASSUME TypeOK, ~env.storeFails, Partly, NEW p \in Provisions, ProvisionMkbinding(p)
  PROVE  /\ pc[p] = "mkbinding" /\ pc'[p] = "done" /\ reply'[p] = "ok"
         /\ store'.dir /\ store'.ids /\ store'.binding
         /\ store'.info # NoInfo /\ store'.info.prov = p
         /\ UNCHANGED backend
<1>1. pc[p] = "mkbinding" /\ UNCHANGED backend
  BY DEF ProvisionMkbinding, At
<1>2. /\ store.dir /\ store.ids /\ ~store.binding
      /\ store.info # NoInfo /\ store.info.prov = p
  BY <1>1 DEF Partly, Writing
<1>3. store' = WithBinding(store) /\ pc'[p] = "done" /\ reply'[p] = "ok"
  BY <1>2 DEF TypeOK, Requests, ProvisionMkbinding, Answer
<1>4. QED
  BY <1>1, <1>2, <1>3 DEF TypeOK, Stores, WithBinding

(* A patient platform's one busy request, or goroutine, leaves the others  *)
(* at rest.                                                                *)
LEMMA Alone ==
  ASSUME TypeOK, OneAtATime, env.patient, NEW r \in Busy
  PROVE  /\ \A q \in Requests \ {r} : pc[q] \in {"new", "done"}
         /\ \A p \in Provisions \ {r} : backend[p] \notin {"waiting", "building"}
         /\ \A d \in Deprovisions \ {r} : undo[d] # "running"
         /\ \A u \in Updates \ {r} : updater[u] \notin {"expand", "save"}
  BY DEF OneAtATime, Busy, InFlight

(* The record while it is written.                                         *)
LEMMA PartlyStep ==
  ASSUME Base, OneWriter', Steady, Steady', UNCHANGED env, Recorded, [Next]_vars
  PROVE  Partly'
<1> USE BrokerAssumption DEF Base, Recorded
<1>1. ASSUME UNCHANGED store, \A p \in Provisions : Writing(p)' => pc'[p] = pc[p]
      PROVE  Partly'
  BY <1>1 DEF Partly, Writing
<1>2. ASSUME SameRecord, \A p \in Provisions : pc'[p] = pc[p]
      PROVE  Partly'
  BY <1>2 DEF Partly, Writing, SameRecord
<1>3. ASSUME NEW r \in Requests, Arrive(r) PROVE Partly'
  BY <1>1, <1>3 DEF TypeOK, Requests, Arrive, Goto, Writing
<1>4. ASSUME NEW p \in Provisions, ProvisionRead(p) \/ ProvisionBegin(p) PROVE Partly'
  BY <1>1, <1>4 DEF TypeOK, Requests, ProvisionRead, ProvisionBegin, Goto, Answer, Writing
<1>5. ASSUME NEW p \in Provisions, ProvisionMkdir(p) \/ ProvisionSet(p) \/ ProvisionMkbinding(p)
      PROVE  Partly'
  <2>1. \A q \in Provisions \ {p} : pc'[q] = pc[q]
    BY <1>5, ProvisionMoves DEF ProvisionStep, Moves, Requests
  <2>2. CASE ProvisionMkdir(p)
    <3>1. CASE UNCHANGED store /\ pc'[p] = "done"
      BY <1>1, <2>1, <3>1 DEF Writing
    <3>2. CASE store'.dir /\ ~store'.binding /\ store'.info = NoInfo /\ pc'[p] = "ids"
      <4>1. \A q \in Provisions \ {p} : ~Writing(q)'
        BY <3>2 DEF OneWriter, Writing
      <4>2. QED
        BY <3>2, <4>1 DEF Partly, Writing
    <3>3. QED
      BY <2>2, <3>1, <3>2, MkdirWrites DEF Steady
  <2>3. CASE ProvisionSet(p)
    <3>1. \A q \in Provisions \ {p} : ~Writing(q)'
      BY <2>1, <2>3, SetWrites DEF OneWriter, Steady, Writing
    <3>2. QED
      BY <2>3, <3>1, SetWrites DEF Partly, Writing, Steady
  <2>4. CASE ProvisionMkbinding(p)
    <3>1. pc[p] = "mkbinding" /\ pc'[p] = "done"
      BY <2>4, MkbindingWrites DEF Steady
    <3>2. \A q \in Provisions : ~Writing(q)'
      BY <2>1, <3>1 DEF OneWriter, Writing
    <3>3. QED
      BY <3>2 DEF Partly, Writing
  <2>5. QED
    BY <1>5, <2>2, <2>3, <2>4
<1>6. ASSUME NEW p \in Provisions, BackendStep(p) PROVE Partly'
  BY <1>1, <1>6 DEF BackendStep, TakeSaved, Build
<1>7. ASSUME NEW r \in Requests, Moves(r), r \notin Provisions, SameRecord PROVE Partly'
  BY <1>2, <1>7 DEF Moves, Requests
<1>8. ASSUME NEW d \in Deprovisions, DeprovisionStep(d) \/ Destroy(d) PROVE Partly'
  <2>1. CASE DeprovisionRmdir(d)
    <3>1. pc'[d] = "done" /\ d \in Busy
      BY <2>1 DEF TypeOK, Requests, DeprovisionRmdir, At, Answer, Busy, InFlight
    <3>2. env.patient
      BY <3>1 DEF Steady
    <3>3. \A p \in Provisions : pc[p] \in {"new", "done"}
      BY <3>1, <3>2, Alone DEF Requests
    <3>4. \A p \in Provisions : pc'[p] = pc[p]
      BY <1>8, <2>1, OtherMoves DEF DeprovisionStep, Moves, Requests
    <3>5. QED
      BY <3>3, <3>4 DEF Partly, Writing
  <2>2. CASE DeprovisionStep(d) /\ ~DeprovisionRmdir(d)
    BY <1>7, <2>2, OtherMoves
       DEF Requests, SameRecord, DeprovisionStep, ReadInstance, ReadInfo, DeprovisionDo
  <2>3. CASE Destroy(d)
    BY <1>1, <2>3 DEF Destroy
  <2>4. QED
    BY <1>8, <2>1, <2>2, <2>3
<1>9. ASSUME NEW u \in Updates, UpdateStep(u) PROVE Partly'
  BY <1>7, <1>9, OtherMoves DEF Requests, SameRecord, UpdateStep, ReadInstance, ReadInfo, UpdateDo
<1>10. ASSUME NEW u \in Updates, UpdaterStep(u) PROVE Partly'
  <2>1. CASE UpdaterExpand(u)
    BY <1>1, <2>1 DEF UpdaterExpand
  <2>2. CASE UpdaterSave(u)
    <3>1. pc' = pc
      BY <2>2 DEF UpdaterSave
    <3>2. QED
      BY <2>2, <3>1, SaveKeepsOwner DEF Partly, Writing
  <2>3. QED
    BY <1>10, <2>1, <2>2 DEF UpdaterStep
<1>11. ASSUME NEW b \in Binds, BindStep(b) PROVE Partly'
  BY <1>7, <1>11, OtherMoves, BindKeepsRecord DEF Requests
<1>12. ASSUME NEW b \in Unbinds, UnbindStep(b) PROVE Partly'
  BY <1>7, <1>12, OtherMoves, UnbindKeepsRecord DEF Requests
<1>13. CASE UNCHANGED vars
  BY <1>1, <1>13 DEF vars
<1>14. QED
  BY <1>3, <1>4, <1>5, <1>6, <1>8, <1>9, <1>10, <1>11, <1>12, <1>13 DEF Next, ProvisionStep

-----------------------------------------------------------------------------
(* Who follows the record while it changes, in parts.                      *)
NoRest == ~store.dir => ~store.ids /\ store.info = NoInfo /\ ~store.binding
SomebodysRecord == store.dir => \E p \in Provisions : Writing(p) \/ Complete(p)
InfosFollow ==
  \A r \in Updates \cup Deprovisions :
    Holds(r) => store.info # NoInfo /\ info[r].prov = store.info.prov
BindsFollow ==
  \A b \in Binds : pc[b] \in {"check", "info", "do", "mkbind", "cred"} => store.binding

LEMMA FollowedParts == Followed <=> NoRest /\ SomebodysRecord /\ InfosFollow /\ BindsFollow
  BY DEF Followed, NoRest, SomebodysRecord, InfosFollow, BindsFollow

(* What a Provision does.                                                  *)
LEMMA ProvisionFollowed ==
  ASSUME Base, Steady, Partly, Followed, NEW p \in Provisions, ProvisionStep(p)
  PROVE  Followed'
<1> USE BrokerAssumption DEF Base, Followed, Holds, Complete
<1>1. /\ \A q \in Requests \ {p} : pc'[q] = pc[q]
      /\ UNCHANGED <<info, updater>>
  BY ProvisionMoves
     DEF Moves, ProvisionStep, ProvisionRead, ProvisionBegin, ProvisionMkdir, ProvisionSet,
         ProvisionMkbinding, goroutines
<1>2. CASE UNCHANGED store /\ ~Writing(p)
  BY <1>1, <1>2 DEF Requests, Writing
<1>3. CASE ProvisionRead(p) \/ ProvisionBegin(p)
  BY <1>2, <1>3 DEF ProvisionRead, ProvisionBegin, At, Writing
<1>4. CASE ProvisionMkdir(p)
  <2>1. CASE store.dir
    BY <1>2, <1>4, <2>1, MkdirWrites DEF Steady, Writing
  <2>2. CASE ~store.dir
    <3>1. /\ store'.dir /\ ~store'.ids /\ store'.info = NoInfo /\ ~store'.binding
          /\ pc'[p] = "ids"
      BY <1>4, <2>2, MkdirWrites DEF Steady
    <3>2. /\ \A r \in Updates \cup Deprovisions : ~Holds(r)
          /\ \A b \in Binds : pc[b] \notin {"check", "info", "do", "mkbind", "cred"}
      BY <2>2
    <3>3. QED
      BY <1>1, <3>1, <3>2 DEF Requests, Writing
  <2>3. QED
    BY <2>1, <2>2
<1>5. CASE ProvisionSet(p)
  <2>1. /\ store'.dir /\ store'.ids /\ pc'[p] \in {"info", "mkbinding"}
        /\ store.info = NoInfo /\ ~store.binding
    BY <1>5, SetWrites DEF Steady
  <2>2. /\ \A r \in Updates \cup Deprovisions : ~Holds(r)
        /\ \A b \in Binds : pc[b] \notin {"check", "info", "do", "mkbind", "cred"}
    BY <2>1
  <2>3. QED
    BY <1>1, <2>1, <2>2 DEF Requests, Writing
<1>6. CASE ProvisionMkbinding(p)
  <2>1. Complete(p)' /\ pc[p] = "mkbinding"
    BY <1>6, MkbindingWrites DEF Steady
  <2>2. store.info.prov = p
    BY <2>1 DEF Partly
  <2>3. QED
    BY <1>1, <2>1, <2>2 DEF Requests
<1>7. QED
  BY <1>3, <1>4, <1>5, <1>6 DEF ProvisionStep

(* The other requests and the goroutines.                                  *)
LEMMA SameFollowed ==
  ASSUME Followed, SameRecord, InfosFollow', BindsFollow',
         \A p \in Provisions : pc'[p] = pc[p]
  PROVE  Followed'
<1>1. NoRest' /\ SomebodysRecord'
  BY DEF Followed, SameRecord, NoRest, SomebodysRecord, Writing, Complete
<1>2. QED
  BY <1>1 DEF Followed, NoRest, SomebodysRecord, InfosFollow, BindsFollow

LEMMA DeprovisionFollowed ==
  ASSUME Base, Steady, Steady', UNCHANGED env, Followed, NEW d \in Deprovisions,
         DeprovisionStep(d) \/ Destroy(d)
  PROVE  Followed'
<1> USE BrokerAssumption DEF Base, Holds
<1>1. \A q \in Requests \ {d} : pc'[q] = pc[q]
  BY OtherMoves DEF Moves, Requests, Destroy
<1>2. UNCHANGED updater
  BY DEF DeprovisionStep, ReadInstance, ReadInfo, DeprovisionDo, DeprovisionRmdir, Destroy,
         goroutines
<1>3. CASE DeprovisionRmdir(d)
  <2>1. pc'[d] = "done" /\ d \in Busy
    BY <1>3 DEF TypeOK, Requests, DeprovisionRmdir, At, Answer, Busy, InFlight
  <2>2. env.patient
    BY <2>1 DEF Steady
  <2>3. /\ \A q \in Requests \ {d} : pc[q] \in {"new", "done"}
        /\ \A u \in Updates : updater[u] \notin {"expand", "save"}
    BY <2>1, <2>2, Alone
  <2>4. store.dir /\ store' = Empty
    <3>1. pc[d] = "rmdir"
      BY <1>3 DEF DeprovisionRmdir, At
    <3>2. store.info # NoInfo
      BY <3>1 DEF Followed
    <3>3. QED
      BY <1>3, <3>2 DEF Followed, Steady, DeprovisionRmdir
  <2>5. QED
    BY <1>1, <1>2, <2>1, <2>3, <2>4 DEF Followed, Empty, Requests
<1>4. ASSUME UNCHANGED store, InfosFollow' PROVE Followed'
  <2>1. BindsFollow'
    BY <1>1, <1>4 DEF Followed, BindsFollow, Requests
  <2>2. QED
    BY <1>1, <1>4, <2>1, SameFollowed DEF SameRecord, Requests
<1>5. CASE ReadInstance(d, "info")
  <2>1. InfosFollow'
    BY <1>1, <1>2, <1>5 DEF TypeOK, Requests, ReadInstance, Goto, Answer, Followed, InfosFollow
  <2>2. QED
    BY <1>4, <1>5, <2>1 DEF ReadInstance
<1>6. CASE ReadInfo(d, "do")
  <2>1. InfosFollow'
    BY <1>1, <1>2, <1>6 DEF TypeOK, Requests, ReadInfo, Goto, Answer, Followed, InfosFollow
  <2>2. QED
    BY <1>4, <1>6, <2>1 DEF ReadInfo
<1>7. CASE DeprovisionDo(d) \/ Destroy(d)
  <2>1. InfosFollow'
    BY <1>1, <1>2, <1>7
       DEF TypeOK, Requests, DeprovisionDo, Destroy, At, Goto, Answer, Followed, InfosFollow
  <2>2. QED
    BY <1>4, <1>7, <2>1 DEF DeprovisionDo, Destroy
<1>8. QED
  BY <1>3, <1>5, <1>6, <1>7 DEF DeprovisionStep

LEMMA UpdateFollowed ==
  ASSUME Base, Followed, NEW u \in Updates, UpdateStep(u) \/ UpdaterStep(u)
  PROVE  Followed'
<1> USE BrokerAssumption DEF Base, Holds
<1>1. \A q \in Requests \ {u} : pc'[q] = pc[q]
  BY OtherMoves DEF Moves, Requests, UpdaterStep, UpdaterExpand, UpdaterSave
<1>2. BindsFollow /\ InfosFollow /\ NoRest /\ SomebodysRecord
  BY DEF Followed, BindsFollow, InfosFollow, NoRest, SomebodysRecord
<1>3. ASSUME UNCHANGED store, InfosFollow' PROVE Followed'
  BY <1>1, <1>2, <1>3, SameFollowed DEF BindsFollow, SameRecord, Requests
<1>4. CASE ReadInstance(u, "info")
  <2>1. InfosFollow'
    BY <1>1, <1>2, <1>4 DEF TypeOK, Requests, ReadInstance, Goto, Answer, goroutines, InfosFollow
  <2>2. QED
    BY <1>3, <1>4, <2>1 DEF ReadInstance
<1>5. CASE ReadInfo(u, "do")
  <2>1. InfosFollow'
    BY <1>1, <1>2, <1>5 DEF TypeOK, Requests, ReadInfo, Goto, Answer, goroutines, InfosFollow
  <2>2. QED
    BY <1>3, <1>5, <2>1 DEF ReadInfo
<1>6. CASE UpdateDo(u)
  <2>1. InfosFollow'
    BY <1>1, <1>2, <1>6 DEF TypeOK, Requests, UpdateDo, At, Answer, InfosFollow
  <2>2. QED
    BY <1>3, <1>6, <2>1 DEF UpdateDo
<1>7. CASE UpdaterExpand(u)
  <2>1. info[u] # NoInfo
    BY <1>7 DEF InfoRead, UpdaterExpand
  <2>2. \A r \in Updates \cup Deprovisions : info'[r].prov = info[r].prov
    BY <1>7, <2>1 DEF TypeOK, UpdaterExpand, Infos
  <2>3. InfosFollow'
    BY <1>2, <1>7, <2>2 DEF TypeOK, UpdaterExpand, InfosFollow
  <2>4. QED
    BY <1>3, <1>7, <2>3 DEF UpdaterExpand
<1>8. CASE UpdaterSave(u)
  <2>1. UNCHANGED <<pc, info>> /\ updater' = [updater EXCEPT ![u] = "done"]
    BY <1>8 DEF UpdaterSave
  <2>2. /\ store'.dir = store.dir /\ store'.ids = store.ids
        /\ store'.binding = store.binding
        /\ store.info # NoInfo /\ store'.info # NoInfo
        /\ store'.info.prov = store.info.prov
    BY <1>8, SaveKeepsOwner
  <2>3. BindsFollow' /\ InfosFollow' /\ NoRest' /\ SomebodysRecord'
    BY <1>2, <2>1, <2>2
       DEF TypeOK, BindsFollow, InfosFollow, NoRest, SomebodysRecord, Complete, Writing
  <2>4. QED
    BY <2>3 DEF Followed, BindsFollow, InfosFollow, NoRest, SomebodysRecord
<1>9. QED
  BY <1>4, <1>5, <1>6, <1>7, <1>8 DEF UpdateStep, UpdaterStep

LEMMA BindFollowed ==
  ASSUME Base, Followed,
         \/ \E b \in Binds : BindStep(b)
         \/ \E b \in Unbinds : UnbindStep(b)
  PROVE  Followed'
<1> USE BrokerAssumption DEF Base
<1>1. ASSUME NEW b \in Binds \cup Unbinds, SameRecord, UNCHANGED updater,
             Moves(b), BindsFollow', \A r \in Requests \ {b} : r \in DOMAIN info => info'[r] = info[r]
      PROVE  Followed'
  <2>1. InfosFollow'
    BY <1>1 DEF Followed, InfosFollow, Holds, SameRecord, Moves, Requests, TypeOK
  <2>2. QED
    BY <1>1, <2>1, SameFollowed DEF Moves, Requests
<1>2. ASSUME NEW b \in Binds, BindStep(b) PROVE Followed'
  <2>1. SameRecord
    BY <1>2, BindKeepsRecord
  <2>2. pc'[b] \in {"check", "info", "do", "mkbind", "cred"} => store.binding
    <3>1. pc[b] \in {"check", "info", "do", "mkbind", "cred"} => store.binding
      BY DEF Followed
    <3>2. pc'[b] \in {"check", "info", "do", "mkbind", "cred"} =>
            \/ pc[b] \in {"check", "info", "do", "mkbind", "cred"}
            \/ store.binding
      <4> USE DEF TypeOK, Requests, At, Goto, Answer
      <4>1. CASE BindRead(b) \/ BindReadBinding(b)
        BY <4>1 DEF BindRead, BindReadBinding
      <4>2. CASE BindCheck(b) \/ ReadInfo(b, "do") \/ BindDo(b)
        BY <4>2 DEF BindCheck, ReadInfo, BindDo
      <4>3. CASE BindMkbind(b) \/ BindCred(b)
        BY <4>3 DEF BindMkbind, BindCred
      <4>4. QED
        BY <1>2, <4>1, <4>2, <4>3 DEF BindStep
    <3>3. QED
      BY <3>1, <3>2
  <2>3. Moves(b)
    BY <1>2, OtherMoves DEF Requests
  <2>4. BindsFollow'
    BY <2>1, <2>2, <2>3 DEF BindsFollow, Followed, Moves, SameRecord, Requests
  <2>5. UNCHANGED <<updater, info>>
    BY <1>2 DEF TypeOK, BindStep, BindRead, BindReadBinding, BindCheck, ReadInfo, BindDo,
                BindMkbind, BindCred, goroutines
  <2>6. QED
    BY <1>1, <2>1, <2>3, <2>4, <2>5
<1>3. ASSUME NEW b \in Unbinds, UnbindStep(b) PROVE Followed'
  <2>1. SameRecord
    BY <1>3, UnbindKeepsRecord
  <2>2. Moves(b)
    BY <1>3, OtherMoves DEF Requests
  <2>3. BindsFollow'
    BY <2>1, <2>2 DEF BindsFollow, Followed, Moves, SameRecord, Requests
  <2>4. UNCHANGED <<updater, info>>
    BY <1>3 DEF TypeOK, UnbindStep, ReadInstance, UnbindReadBinding, ReadInfo, UnbindDo,
                UnbindRmbind, goroutines
  <2>5. QED
    BY <1>1, <2>1, <2>2, <2>3, <2>4
<1>4. QED
  BY <1>2, <1>3

LEMMA FollowedStep ==
  ASSUME Base, Steady, Steady', UNCHANGED env, Recorded, [Next]_vars
  PROVE  Followed'
<1> USE DEF Recorded
<1>1. ASSUME NEW r \in Requests, Arrive(r) PROVE Followed'
  BY <1>1 DEF Base, TypeOK, Requests, Arrive, At, Goto, goroutines, Followed, Holds, Complete,
              Writing
<1>2. ASSUME NEW p \in Provisions, BackendStep(p) PROVE Followed'
  BY <1>2 DEF BackendStep, TakeSaved, Build, Followed, Holds, Complete, Writing
<1>3. CASE UNCHANGED vars
  BY <1>3 DEF vars, Followed, Holds, Complete, Writing
<1>4. QED
  BY <1>1, <1>2, <1>3, ProvisionFollowed, DeprovisionFollowed, UpdateFollowed, BindFollowed
     DEF Next

-----------------------------------------------------------------------------
(* The answers and the cluster.                                            *)

(* Steps that leave both, and the owner of the record, as they are.        *)
LEMMA SameMatched ==
  ASSUME Matched,
         \A p \in Provisions :
           /\ Complete(p)' <=> Complete(p)
           /\ reply'[p] = "ok" => reply[p] = "ok"
           /\ Complete(p) => reply'[p] = reply[p]
           /\ backend'[p] = "destroyed" => backend[p] = "destroyed",
         \A d \in Deprovisions :
           /\ undo[d] # "none" /\ pc[d] = "done" =>
                pc'[d] = "done" /\ undo'[d] # "none" /\ info'[d] = info[d]
           /\ pc[d] = "rmdir" /\ undo[d] = "done" => pc'[d] = "rmdir" /\ undo'[d] = "done"
  PROVE  Matched'
<1> SUFFICES ASSUME NEW p \in Provisions
             PROVE  /\ reply'[p] = "ok" => Complete(p)' \/ Undone(p)'
                    /\ Complete(p)' =>
                         /\ reply'[p] = "ok"
                         /\ backend'[p] = "destroyed" =>
                              \E d \in Deprovisions : pc'[d] = "rmdir" /\ undo'[d] = "done"
  BY DEF Matched
<1>1. Undone(p) => Undone(p)'
  BY DEF Undone
<1>2. /\ reply[p] = "ok" => Complete(p) \/ Undone(p)
      /\ Complete(p) =>
           /\ reply[p] = "ok"
           /\ backend[p] = "destroyed" =>
                \E d \in Deprovisions : pc[d] = "rmdir" /\ undo[d] = "done"
  BY DEF Matched
<1>3. /\ Complete(p)' <=> Complete(p)
      /\ reply'[p] = "ok" => reply[p] = "ok"
      /\ Complete(p) => reply'[p] = reply[p]
      /\ backend'[p] = "destroyed" => backend[p] = "destroyed"
  BY DEF Complete
<1>4. (\E d \in Deprovisions : pc[d] = "rmdir" /\ undo[d] = "done")
      => \E d \in Deprovisions : pc'[d] = "rmdir" /\ undo'[d] = "done"
  OBVIOUS
<1>5. QED
  BY <1>1, <1>2, <1>3, <1>4

LEMMA ProvisionMatched ==
  ASSUME Base, Steady, Partly, Followed, Matched, NEW p \in Provisions, ProvisionStep(p)
  PROVE  Matched'
<1> USE BrokerAssumption DEF Base
<1>1. /\ \A q \in Requests \ {p} : pc'[q] = pc[q] /\ reply'[q] = reply[q]
      /\ UNCHANGED <<info, undo>>
      /\ reply[p] = "none"
      /\ \A q \in Provisions : backend'[q] = "destroyed" => backend[q] = "destroyed"
  <2>1. Moves(p)
    BY ProvisionMoves
  <2>2. /\ UNCHANGED <<info, undo>>
        /\ \A q \in Provisions : backend'[q] = "destroyed" => backend[q] = "destroyed"
    BY DEF TypeOK, ProvisionStep, ProvisionRead, ProvisionBegin, ProvisionMkdir, ProvisionSet,
           ProvisionMkbinding, goroutines
  <2>3. reply[p] = "none"
    BY <2>1 DEF Moves, Answered, Requests
  <2>4. QED
    BY <2>1, <2>2, <2>3 DEF Moves
<1>2. ~Complete(p)
  BY <1>1 DEF Matched
<1>3. ASSUME \A q \in Provisions : Complete(q)' <=> Complete(q), reply'[p] # "ok"
      PROVE  Matched'
  BY <1>1, <1>2, <1>3, SameMatched DEF Requests
<1>4. CASE ProvisionRead(p) \/ ProvisionBegin(p)
  <2>1. UNCHANGED store /\ reply'[p] # "ok"
    BY <1>1, <1>4 DEF TypeOK, Requests, ProvisionRead, ProvisionBegin, Goto, Answer
  <2>2. QED
    BY <1>3, <2>1 DEF Complete
<1>5. CASE ProvisionMkdir(p)
  <2>1. reply'[p] # "ok"
    BY <1>1, <1>5, MkdirWrites DEF Steady
  <2>2. \/ UNCHANGED store
        \/ store.info = NoInfo /\ store'.info = NoInfo
    BY <1>5, MkdirWrites DEF Steady, Followed
  <2>3. QED
    BY <1>3, <2>1, <2>2 DEF Complete
<1>6. CASE ProvisionSet(p)
  <2>1. reply'[p] # "ok" /\ ~store.binding /\ ~store'.binding
    BY <1>1, <1>6, SetWrites DEF Steady
  <2>2. QED
    BY <1>3, <2>1 DEF Complete
<1>7. CASE ProvisionMkbinding(p)
  <2>1. Complete(p)' /\ reply'[p] = "ok" /\ UNCHANGED backend
        /\ pc[p] = "mkbinding" /\ store'.info.prov = p
    BY <1>7, MkbindingWrites DEF Steady, Complete
  <2>2. backend'[p] # "destroyed"
    BY <2>1 DEF ProvisionShape
  <2>3. \A q \in Provisions \ {p} : ~Complete(q) /\ ~Complete(q)'
    <3>1. store.info.prov = p
      BY <2>1 DEF Partly
    <3>2. QED
      BY <2>1, <3>1 DEF Complete
  <2>4. \A q \in Provisions : Undone(q) => Undone(q)'
    BY <1>1 DEF Undone, Requests
  <2>5. QED
    BY <1>1, <2>1, <2>2, <2>3, <2>4 DEF Matched, Requests
<1>8. QED
  BY <1>4, <1>5, <1>6, <1>7 DEF ProvisionStep

LEMMA DeprovisionMatched ==
  ASSUME Base, Steady, Steady', UNCHANGED env, Followed, Matched,
         env.patient => Removing,
         NEW d \in Deprovisions, DeprovisionStep(d) \/ Destroy(d)
  PROVE  Matched'
<1> USE BrokerAssumption DEF Base
<1>1. /\ \A q \in Requests \ {d} : pc'[q] = pc[q] /\ reply'[q] = reply[q]
      /\ \A e \in Deprovisions \ {d} : undo'[e] = undo[e] /\ info'[e] = info[e]
  <2>1. \A q \in Requests \ {d} : pc'[q] = pc[q] /\ reply'[q] = reply[q]
    BY OtherMoves DEF Moves, Requests, Destroy
  <2>2. \A e \in Deprovisions \ {d} : undo'[e] = undo[e] /\ info'[e] = info[e]
    BY DEF TypeOK, DeprovisionStep, ReadInstance, ReadInfo, DeprovisionDo, DeprovisionRmdir,
           Destroy, goroutines
  <2>3. QED
    BY <2>1, <2>2
<1>2. CASE ReadInstance(d, "info") \/ ReadInfo(d, "do") \/ DeprovisionDo(d)
  <2>1. UNCHANGED <<store, backend>> /\ pc[d] \in {"read", "info", "do"}
    BY <1>2 DEF ReadInstance, ReadInfo, DeprovisionDo, At, goroutines
  <2>2. QED
    BY <1>1, <2>1, SameMatched DEF Requests, Complete
<1>3. CASE DeprovisionRmdir(d)
  <2>1. /\ pc[d] = "rmdir" /\ pc'[d] = "done" /\ UNCHANGED <<info, undo>>
    BY <1>3 DEF TypeOK, Requests, DeprovisionRmdir, At, Answer, goroutines
  <2>2. /\ store.info # NoInfo /\ info[d].prov = store.info.prov /\ undo[d] # "none"
    BY <2>1 DEF Followed, Holds, Undoing
  <2>3. store' = Empty
    BY <1>3, <2>2 DEF Followed, Steady, DeprovisionRmdir
  <2>4. \A p \in Provisions : ~Complete(p)'
    BY <2>3 DEF Complete, Empty
  <2>5. \A p \in Provisions : Undone(p) => Undone(p)'
    BY <1>1, <2>1 DEF Undone, Requests
  <2>6. \A p \in Provisions : Complete(p) => Undone(p)'
    BY <2>1, <2>2 DEF Complete, Undone
  <2>7. QED
    BY <1>1, <2>4, <2>5, <2>6 DEF Matched, Requests
<1>4. CASE Destroy(d)
  <2> DEFINE p == info[d].prov
  <2>1. /\ undo[d] = "running" /\ undo' = [undo EXCEPT ![d] = "done"]
        /\ UNCHANGED <<store, pc, reply, info>>
        /\ backend' \in {backend, [backend EXCEPT ![p] = "destroyed"]}
    BY <1>4 DEF Destroy
  <2>2. pc[d] = "done" => ~Complete(p)
    BY <2>1 DEF Steady, Removing, Complete
  <2>3. pc[d] \in {"rmdir", "done"}
    BY <2>1 DEF Undoing
  <2>4. \A q \in Provisions : Complete(q)' = Complete(q) /\ (Undone(q) => Undone(q)')
    BY <2>1 DEF Complete, Undone, TypeOK
  <2>5. ASSUME NEW q \in Provisions, Complete(q), backend'[q] = "destroyed"
        PROVE  \E e \in Deprovisions : pc'[e] = "rmdir" /\ undo'[e] = "done"
    <3>1. CASE backend[q] = "destroyed"
      BY <2>1, <2>5, <3>1 DEF Matched, TypeOK
    <3>2. CASE backend[q] # "destroyed"
      <4>1. q = p
        BY <2>1, <2>5, <3>2 DEF TypeOK
      <4>2. QED
        BY <2>1, <2>2, <2>3, <2>5, <4>1 DEF TypeOK
    <3>3. QED
      BY <3>1, <3>2
  <2>6. QED
    BY <2>1, <2>4, <2>5 DEF Matched
<1>5. QED
  BY <1>2, <1>3, <1>4 DEF DeprovisionStep

LEMMA MatchedStep ==
  ASSUME Base, Steady, Steady', UNCHANGED env, Recorded, env.patient => Removing, [Next]_vars
  PROVE  Matched'
<1> USE BrokerAssumption DEF Base, Recorded
<1>1. ASSUME NEW r \in Requests, Moves(r), r \notin Provisions \cup Deprovisions,
             UNCHANGED <<backend, undo>>,
             \A d \in Deprovisions : info'[d] = info[d],
             \A p \in Provisions : Complete(p)' <=> Complete(p)
      PROVE  Matched'
  BY <1>1, SameMatched DEF Moves, Requests
<1>2. ASSUME NEW r \in Requests, Arrive(r) PROVE Matched'
  <2>1. /\ UNCHANGED <<store, reply, backend, undo, info>> /\ pc[r] = "new"
        /\ \A q \in Requests \ {r} : pc'[q] = pc[q]
    BY <1>2 DEF TypeOK, Arrive, At, Goto, goroutines
  <2>2. QED
    BY <2>1, SameMatched DEF Complete, Requests
<1>3. ASSUME NEW p \in Provisions, BackendStep(p) PROVE Matched'
  BY <1>3, SameMatched DEF TypeOK, BackendStep, TakeSaved, Build, Complete
<1>4. ASSUME NEW u \in Updates, UpdateStep(u) PROVE Matched'
  <2>1. /\ UNCHANGED <<store, backend, undo>>
        /\ \A d \in Deprovisions : info'[d] = info[d]
    BY <1>4 DEF TypeOK, UpdateStep, ReadInstance, ReadInfo, UpdateDo, goroutines
  <2>2. QED
    BY <1>1, <1>4, <2>1, OtherMoves DEF Requests, Complete
<1>5. ASSUME NEW u \in Updates, UpdaterStep(u) PROVE Matched'
  <2>1. /\ UNCHANGED <<pc, reply, backend, undo>>
        /\ \A d \in Deprovisions : info'[d] = info[d]
    BY <1>5 DEF TypeOK, UpdaterStep, UpdaterExpand, UpdaterSave
  <2>2. \A p \in Provisions : Complete(p)' <=> Complete(p)
    BY <1>5, SaveKeepsOwner DEF UpdaterStep, UpdaterExpand, Complete
  <2>3. QED
    BY <2>1, <2>2, SameMatched
<1>6. ASSUME NEW b \in Binds, BindStep(b) PROVE Matched'
  <2>1. UNCHANGED <<backend, undo, info>>
    BY <1>6 DEF TypeOK, BindStep, BindRead, BindReadBinding, BindCheck, ReadInfo, BindDo,
                BindMkbind, BindCred, goroutines
  <2>2. QED
    BY <1>1, <1>6, <2>1, OtherMoves, BindKeepsRecord DEF Requests, SameRecord, Complete
<1>7. ASSUME NEW b \in Unbinds, UnbindStep(b) PROVE Matched'
  <2>1. UNCHANGED <<backend, undo, info>>
    BY <1>7 DEF TypeOK, UnbindStep, ReadInstance, UnbindReadBinding, ReadInfo, UnbindDo,
                UnbindRmbind, goroutines
  <2>2. QED
    BY <1>1, <1>7, <2>1, OtherMoves, UnbindKeepsRecord DEF Requests, SameRecord, Complete
<1>8. CASE UNCHANGED vars
  BY <1>8, SameMatched DEF vars, Complete
<1>9. QED
  BY <1>2, <1>3, <1>4, <1>5, <1>6, <1>7, <1>8, ProvisionMatched, DeprovisionMatched DEF Next

-----------------------------------------------------------------------------
(* The destroyers of a patient platform.                                   *)

(* What a deprovision has read of an _info is, when nothing else is under  *)
(* way, an instance that has been built.                                   *)
LEMMA ReadIsBuilt ==
  ASSUME Base, Recorded, env.patient, ~env.storeFails, NEW d \in Deprovisions, pc[d] = "do"
  PROVE  backend[info[d].prov] = "built"
<1> USE BrokerAssumption DEF Base, Recorded
<1>1. /\ \A q \in Requests \ {d} : pc[q] \in {"new", "done"}
      /\ \A p \in Provisions \ {d} : backend[p] \notin {"waiting", "building"}
  <2>1. d \in Busy
    BY DEF Busy, InFlight, Requests
  <2>2. QED
    BY <2>1, Alone
<1>2. store.info # NoInfo /\ info[d].prov = store.info.prov /\ store.dir
  BY DEF Followed, Holds
<1>3. PICK p \in Provisions : Complete(p)
  <2>1. \A p \in Provisions : ~Writing(p)
    BY <1>1 DEF Writing, Requests
  <2>2. QED
    BY <1>2, <2>1 DEF Followed
<1>4. p = info[d].prov /\ reply[p] = "ok" /\ backend[p] # "destroyed"
  <2>1. p = info[d].prov
    BY <1>2, <1>3 DEF Complete
  <2>2. ~ \E e \in Deprovisions : pc[e] = "rmdir"
    BY <1>1 DEF Requests
  <2>3. QED
    BY <1>3, <2>1, <2>2 DEF Matched
<1>5. pc[p] = "done" /\ backend[p] \notin {"waiting", "building"}
  BY <1>1, <1>4 DEF Answered, Requests
<1>6. QED
  BY <1>4, <1>5 DEF ProvisionShape

LEMMA DeprovisionRemoves ==
  ASSUME Base, Recorded, Removing, env.patient, ~env.storeFails,
         NEW d \in Deprovisions, DeprovisionStep(d) \/ Destroy(d)
  PROVE  Removing'
<1> USE BrokerAssumption DEF Base, Recorded
<1>1. /\ \A e \in Deprovisions \ {d} : undo[e] # "running"
  <2>1. d \in Busy
    BY DEF DeprovisionStep, ReadInstance, ReadInfo, DeprovisionDo, DeprovisionRmdir, Destroy,
           At, Busy, InFlight, Requests, TypeOK
  <2>2. QED
    BY <2>1, Alone
<1>2. \A e \in Deprovisions \ {d} : undo'[e] = undo[e] /\ info'[e] = info[e] /\ pc'[e] = pc[e]
  <2>1. \A q \in Requests \ {d} : pc'[q] = pc[q]
    BY OtherMoves DEF Moves, Requests, Destroy
  <2>2. QED
    BY <2>1
       DEF TypeOK, Requests, DeprovisionStep, ReadInstance, ReadInfo, DeprovisionDo,
           DeprovisionRmdir, Destroy, goroutines
<1>3. ASSUME /\ \A p \in Provisions : backend[p] = "destroyed" => backend'[p] = "destroyed"
             /\ undo'[d] = "running" => backend'[info'[d].prov] = "built"
             /\ undo'[d] = "done" => backend'[info'[d].prov] = "destroyed"
             /\ undo'[d] = "running" /\ pc'[d] = "done" => ~store'.dir
      PROVE  Removing'
  <2>1. \A e \in Deprovisions : undo[e] = "done" => info[e].prov \in Provisions
    BY DEF Undoing, TypeOK, Infos
  <2>2. QED
    BY <1>1, <1>2, <1>3, <2>1 DEF Removing
<1>4. CASE ReadInstance(d, "info") \/ ReadInfo(d, "do")
  <2>1. undo' = undo /\ backend' = backend /\ undo[d] = "none"
    BY <1>4 DEF ReadInstance, ReadInfo, At, goroutines, Undoing, TypeOK
  <2>2. QED
    BY <1>3, <2>1
<1>5. CASE DeprovisionDo(d)
  <2>1. /\ pc[d] = "do" /\ pc'[d] = "rmdir" /\ UNCHANGED <<info, backend>>
        /\ undo'[d] = "running"
    BY <1>5 DEF DeprovisionDo, At, Goto, TypeOK, Requests
  <2>2. QED
    BY <1>3, <2>1, ReadIsBuilt
<1>6. CASE DeprovisionRmdir(d)
  <2>1. pc[d] = "rmdir" /\ UNCHANGED <<info, backend, undo>>
    BY <1>6 DEF DeprovisionRmdir, At, goroutines
  <2>2. store.dir
    BY <2>1 DEF Followed, Holds
  <2>3. ~store'.dir
    BY <1>6, <2>2 DEF DeprovisionRmdir, Empty
  <2>4. QED
    BY <1>3, <2>1, <2>3 DEF Removing
<1>7. CASE Destroy(d)
  <2>1. undo'[d] = "done" /\ info' = info /\ backend[info[d].prov] = "built"
    BY <1>7 DEF Destroy, Removing, TypeOK
  <2>2. backend' = [backend EXCEPT ![info[d].prov] = "destroyed"]
    BY <1>7, <2>1 DEF Destroy
  <2>3. info[d].prov \in Provisions
    BY <1>7 DEF Destroy, Undoing, TypeOK, Infos
  <2>4. QED
    BY <1>3, <2>1, <2>2, <2>3 DEF TypeOK
<1>8. QED
  BY <1>4, <1>5, <1>6, <1>7 DEF DeprovisionStep

LEMMA RemovingStep ==
  ASSUME Base, Recorded, Removing, env.patient, ~env.storeFails, [Next]_vars
  PROVE  Removing'
<1> USE BrokerAssumption DEF Base, Recorded
<1>1. ASSUME NEW r \in Busy \ Deprovisions, UNCHANGED undo,
             \A p \in Provisions : backend[p] = "destroyed" => backend'[p] = "destroyed",
             \A d \in Deprovisions : info'[d] = info[d]
      PROVE  Removing'
  <2>1. \A d \in Deprovisions : undo[d] # "running"
    BY <1>1, Alone
  <2>2. \A d \in Deprovisions : undo[d] = "done" => info[d].prov \in Provisions
    BY DEF Undoing, TypeOK, Infos
  <2>3. QED
    BY <1>1, <2>1, <2>2 DEF Removing
<1>2. ASSUME NEW r \in Requests, Arrive(r) PROVE Removing'
  <2>1. /\ UNCHANGED <<store, backend, undo, info>> /\ pc[r] = "new"
        /\ \A q \in Requests \ {r} : pc'[q] = pc[q]
    BY <1>2 DEF TypeOK, Arrive, At, Goto, goroutines
  <2>2. \A d \in Deprovisions : undo[d] # "none" => pc'[d] = pc[d]
    BY <2>1 DEF Undoing, Requests
  <2>3. QED
    BY <2>1, <2>2 DEF Removing
<1>3. ASSUME NEW p \in Provisions, ProvisionStep(p) PROVE Removing'
  <2>1. p \in Busy \ Deprovisions
    BY <1>3 DEF TypeOK, ProvisionStep, ProvisionRead, ProvisionBegin, ProvisionMkdir,
                ProvisionSet, ProvisionMkbinding, At, Busy, InFlight, Requests
  <2>2. UNCHANGED <<undo, info>>
    BY <1>3 DEF ProvisionStep, ProvisionRead, ProvisionBegin, ProvisionMkdir, ProvisionSet,
                ProvisionMkbinding, goroutines
  <2>3. \A q \in Provisions : backend[q] = "destroyed" => backend'[q] = "destroyed"
    BY <1>3 DEF TypeOK, ProvisionShape, ProvisionStep, ProvisionRead, ProvisionBegin,
                ProvisionMkdir, ProvisionSet, ProvisionMkbinding, At, goroutines
  <2>4. QED
    BY <1>1, <2>1, <2>2, <2>3
<1>4. ASSUME NEW p \in Provisions, BackendStep(p) PROVE Removing'
  <2>1. p \in Busy \ Deprovisions
    BY <1>4 DEF BackendStep, TakeSaved, Build, Busy
  <2>2. /\ UNCHANGED <<undo, info>>
        /\ \A q \in Provisions : backend[q] = "destroyed" => backend'[q] = "destroyed"
    BY <1>4 DEF TypeOK, BackendStep, TakeSaved, Build
  <2>3. QED
    BY <1>1, <2>1, <2>2
<1>5. ASSUME NEW u \in Updates, UpdateStep(u) \/ UpdaterStep(u) PROVE Removing'
  <2>1. u \in Busy \ Deprovisions
    BY <1>5 DEF TypeOK, UpdateStep, ReadInstance, ReadInfo, UpdateDo, UpdaterStep,
                UpdaterExpand, UpdaterSave, At, Busy, InFlight, Requests
  <2>2. UNCHANGED <<undo, backend>> /\ \A d \in Deprovisions : info'[d] = info[d]
    BY <1>5 DEF TypeOK, UpdateStep, ReadInstance, ReadInfo, UpdateDo, UpdaterStep,
                UpdaterExpand, UpdaterSave, goroutines
  <2>3. QED
    BY <1>1, <2>1, <2>2
<1>6. ASSUME NEW b \in Binds, BindStep(b) PROVE Removing'
  <2>1. b \in Busy \ Deprovisions
    BY <1>6 DEF TypeOK, BindStep, BindRead, BindReadBinding, BindCheck, ReadInfo, BindDo,
                BindMkbind, BindCred, At, Busy, InFlight, Requests
  <2>2. UNCHANGED <<undo, backend, info>>
    BY <1>6 DEF TypeOK, BindStep, BindRead, BindReadBinding, BindCheck, ReadInfo, BindDo,
                BindMkbind, BindCred, goroutines
  <2>3. QED
    BY <1>1, <2>1, <2>2
<1>7. ASSUME NEW b \in Unbinds, UnbindStep(b) PROVE Removing'
  <2>1. b \in Busy \ Deprovisions
    BY <1>7 DEF TypeOK, UnbindStep, ReadInstance, UnbindReadBinding, ReadInfo, UnbindDo,
                UnbindRmbind, At, Busy, InFlight, Requests
  <2>2. UNCHANGED <<undo, backend, info>>
    BY <1>7 DEF TypeOK, UnbindStep, ReadInstance, UnbindReadBinding, ReadInfo, UnbindDo,
                UnbindRmbind, goroutines
  <2>3. QED
    BY <1>1, <2>1, <2>2
<1>8. CASE UNCHANGED vars
  BY <1>8 DEF vars, Removing
<1>9. QED
  BY <1>2, <1>3, <1>4, <1>5, <1>6, <1>7, <1>8, DeprovisionRemoves DEF Next

-----------------------------------------------------------------------------
(* The inductive invariant.                                                *)
InStep == Steady => Recorded /\ (env.patient => Removing)

LEMMA InStepStep ==
  ASSUME Base, Base', InStep, [Next]_vars
  PROVE  InStep'
<1> SUFFICES ASSUME Steady' PROVE (Recorded /\ (env.patient => Removing))'
  BY DEF InStep
<1>1. Steady /\ UNCHANGED env
  BY SteadyBefore DEF Base
<1>2. Recorded /\ (env.patient => Removing) /\ ~env.storeFails
  BY <1>1 DEF InStep, Steady
<1>3. Partly'
  BY <1>1, <1>2, PartlyStep DEF Base
<1>4. Followed' /\ Matched'
  BY <1>1, <1>2, FollowedStep, MatchedStep
<1>5. env.patient => Removing'
  BY <1>2, RemovingStep
<1>6. QED
  BY <1>1, <1>3, <1>4, <1>5 DEF Recorded

LEMMA InStepHolds == Spec => []InStep
<1>1. Init => InStep
  BY DEF Init, InStep, Recorded, Partly, Followed, Matched, Removing, Writing, Complete, Holds,
         Empty, Requests
<1>2. Base /\ Base' /\ InStep /\ [Next]_vars => InStep'
  BY InStepStep
<1>3. QED
  BY <1>1, <1>2, BaseHolds, PTL DEF Spec

(* Whatever else races with it, a Provision that was answered ok is        *)
(* recorded, completely and as its own instance, until a Deprovision ends. *)
THEOREM SuccessRecorded == Spec => []SuccessIsRecorded
<1>1. Base /\ InStep => SuccessIsRecorded
  BY DEF Base, InStep, Steady, Recorded, Matched, Undone, Complete, SuccessIsRecorded
<1>2. QED
  BY <1>1, BaseHolds, InStepHolds, PTL

(* When nothing is under way, what is built and what is recorded agree.    *)
LEMMA RecordMatches ==
  ASSUME Base, InStep, Quiet, ~env.storeFails,
         env.patient \/ \A d \in Deprovisions : pc[d] = "new"
  PROVE  /\ {p \in Provisions : backend[p] = "built"} =
              IF store.info = NoInfo THEN {} ELSE {store.info.prov}
         /\ store.dir => store.ids /\ store.info # NoInfo /\ store.binding
<1> USE DEF Base
<1>1. Steady /\ Recorded
  BY DEF InStep, Steady
<1>2. /\ \A r \in Requests : pc[r] \in {"new", "done"}
      /\ \A p \in Provisions : ~Writing(p) /\ backend[p] \notin {"waiting", "building"}
      /\ \A d \in Deprovisions : undo[d] # "running"
  BY DEF Quiet, InFlight, Settled, Writing, Requests
<1>3. store.dir => \E p \in Provisions : Complete(p)
  BY <1>1, <1>2 DEF Recorded, Followed
<1>4. store.info # NoInfo => store.dir
  BY <1>1 DEF Recorded, Followed
<1>5. ASSUME NEW p \in Provisions, Complete(p) PROVE backend[p] = "built"
  <2>1. reply[p] = "ok" /\ backend[p] # "destroyed"
    BY <1>1, <1>2, <1>5 DEF Recorded, Matched, Requests
  <2>2. QED
    BY <1>2, <2>1 DEF ProvisionShape, Answered, Requests
<1>6. ASSUME NEW p \in Provisions, backend[p] = "built" PROVE Complete(p)
  <2>1. reply[p] = "ok"
    BY <1>2, <1>6 DEF ProvisionShape, Requests
  <2>2. ~Undone(p)
    <3>1. CASE env.patient
      BY <1>1, <1>2, <1>6, <3>1 DEF InStep, Removing, Undone, TypeOK
    <3>2. CASE \A d \in Deprovisions : pc[d] = "new"
      BY <3>2 DEF Undone
    <3>3. QED
      BY <3>1, <3>2
  <2>3. QED
    BY <1>1, <2>1, <2>2 DEF Recorded, Matched
<1>7. QED
  <2>1. CASE store.info = NoInfo
    BY <1>3, <1>6, <2>1 DEF Complete
  <2>2. CASE store.info # NoInfo
    <3>1. PICK p \in Provisions : Complete(p)
      BY <1>3, <1>4, <2>2
    <3>2. QED
      BY <1>5, <1>6, <2>2, <3>1 DEF Complete
  <2>3. QED
    BY <2>1, <2>2

(* The record in etcd and what stands in the cluster agree at rest: always *)
(* with a patient platform, and with requests that race, for every number  *)
(* of them, until the first Deprovision arrives.                           *)
THEOREM RecordAgrees == Spec => []RecordMatchesCluster
<1>1. Base /\ InStep => RecordMatchesCluster
  BY RecordMatches DEF RecordMatchesCluster
<1>2. QED
  BY <1>1, BaseHolds, InStepHolds, PTL
=============================================================================
