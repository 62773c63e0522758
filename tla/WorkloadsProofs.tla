-------------------------- MODULE WorkloadsProofs --------------------------
(***************************************************************************)
(* Proofs about Workloads: the types, and that a rollout by one manager    *)
(* keeps the replicas of its Deployment.                                   *)
(***************************************************************************)
EXTENDS Workloads, FiniteSetTheorems, TLAPS

-----------------------------------------------------------------------------
(***************************************************************************)
(* Type correctness.  What is counted is finite, and a controller works on *)
(* sets it has listed.                                                     *)
(***************************************************************************)
\* A call in flight is as old as the failure that left it.
Stored == IsFiniteSet(pods) /\ IsFiniteSet(late) /\ \A c \in late : c[1] < errors

Counted == Stored /\ \A k \in Managers : IsFiniteSet(allPods[k])

Listed == \A k \in Managers : /\ \A x \in setsLeft[k] : rss[k][x] # Absent
                              /\ stage[k] # "loop" => setsLeft[k] = {}

Types == TypeOK /\ Counted /\ Listed

LEMMA InitTypes == Init => Types
<1> SUFFICES ASSUME Init PROVE Types OBVIOUS
<1> USE WorkloadAssumption DEF Init
<1>1. NoSets \in [Sets -> Objects] /\ NoDeployments \in [Deployments -> Specs \cup {Absent}]
  BY DEF NoSets, NoDeployments, Objects
<1>2. ObjectsOK BY <1>1 DEF ObjectsOK
<1>3. SetControllerOK BY <1>1 DEF SetControllerOK
<1>4. DepControllerOK BY <1>1 DEF DepControllerOK
<1>5. BoundsOK BY DEF BoundsOK
<1>6. Counted /\ Listed BY FS_EmptySet DEF Stored, Counted, Listed
<1> QED BY <1>2, <1>3, <1>4, <1>5, <1>6 DEF Types, TypeOK

\* What an action leaves alone keeps its type.
LEMMA SameSetController == SetControllerOK /\ UNCHANGED setController => SetControllerOK'
BY DEF SetControllerOK, setController

LEMMA SameDepController == DepControllerOK /\ UNCHANGED depController => DepControllerOK'
BY DEF DepControllerOK, depController

LEMMA SameObjects == ObjectsOK /\ UNCHANGED objects => ObjectsOK'
BY DEF ObjectsOK, objects

\* The effects that several actions share keep the types.
LEMMA FailureCounted == BoundsOK /\ Fails /\ UNCHANGED <<touched, changes>> => BoundsOK' /\ errors' > errors
BY WorkloadAssumption DEF BoundsOK, Fails

LEMMA SameStored == Stored /\ UNCHANGED objects /\ UNCHANGED errors => Stored'
BY DEF Stored, objects

LEMMA LostTypes ==
  ASSUME ObjectsOK, BoundsOK, Stored, Lost, UNCHANGED <<touched, changes>>
  PROVE  ObjectsOK' /\ BoundsOK' /\ Stored' /\ pods' = pods
<1>1. BoundsOK' /\ errors' > errors BY FailureCounted DEF Lost
<1>2. UNCHANGED <<deployments, replicasets, pods, late>> BY DEF Lost, objects
<1>3. Stored'
  <2>1. \A c \in late : c[1] < errors' BY <1>1, <1>2 DEF ObjectsOK, BoundsOK, Stored
  <2> QED BY <1>2, <2>1 DEF Stored
<1> QED BY <1>1, <1>2, <1>3, SameObjects DEF objects

LEMMA CallKinds ==
  ASSUME NEW call \in Calls
  PROVE  /\ "pod" \in DOMAIN call => call.pod \in PodNames
         /\ "pod" \notin DOMAIN call => call.set \in Sets /\ call.replicas \in Replicas \ {Unset}
<1>1. CASE call \in [op : {"POST", "DELETE"}, pod : PodNames] BY <1>1
<1>2. CASE call \in [op : {"POST", "PUT"}, set : Sets, replicas : Replicas \ {Unset}] BY <1>2
<1> QED BY <1>1, <1>2 DEF Calls

LEMMA ServeTypes ==
  ASSUME ObjectsOK, IsFiniteSet(pods), NEW call \in Calls, Serve(call)
  PROVE  /\ deployments' = deployments
         /\ replicasets' \in [Sets -> Objects]
         /\ pods' \subseteq PodNames /\ IsFiniteSet(pods')
<1>1. CASE "pod" \in DOMAIN call
  <2>1. pods' = pods \cup {call.pod} \/ pods' = pods \ {call.pod} BY <1>1 DEF Serve
  <2>2. call.pod \in PodNames BY <1>1, CallKinds
  <2>3. IsFiniteSet(pods \cup {call.pod}) /\ IsFiniteSet(pods \ {call.pod})
    BY FS_AddElement, FS_Subset
  <2> QED BY <1>1, <2>1, <2>2, <2>3 DEF Serve, ObjectsOK
<1>2. CASE "pod" \notin DOMAIN call
  <2>1. call.replicas \in Objects BY <1>2, CallKinds DEF Objects
  <2> QED BY <1>2, <2>1 DEF Serve, ObjectsOK
<1> QED BY <1>1, <1>2

LEMMA LeftTypes ==
  ASSUME ObjectsOK, BoundsOK, Stored, NEW calls \in SUBSET Calls, IsFiniteSet(calls),
         Left(calls), UNCHANGED <<touched, changes>>
  PROVE  ObjectsOK' /\ BoundsOK' /\ Stored' /\ pods' = pods
<1>1. BoundsOK' /\ errors' > errors /\ errors \in Nat BY FailureCounted DEF Left, BoundsOK
<1>2. UNCHANGED <<deployments, replicasets, pods>> BY DEF Left
<1>3. late' = late \/ late' = late \cup ({errors} \X calls) BY DEF Left
<1>4. late' \subseteq Nat \X Calls BY <1>1, <1>3 DEF ObjectsOK
<1>5. IsFiniteSet(late')
  <2>1. IsFiniteSet({errors}) BY FS_Singleton
  <2>2. IsFiniteSet({errors} \X calls) BY <2>1, FS_Product
  <2>3. IsFiniteSet(late) BY DEF Stored
  <2>4. IsFiniteSet(late \cup ({errors} \X calls)) BY <2>2, <2>3, FS_Union
  <2> QED BY <1>3, <2>3, <2>4
<1>6. \A c \in late' : c[1] < errors'
  <2>1. \A c \in late : c[1] \in Nat /\ c[1] < errors BY DEF ObjectsOK, Stored
  <2>2. \A c \in {errors} \X calls : c[1] = errors OBVIOUS
  <2>3. errors' \in Int BY <1>1 DEF BoundsOK
  <2> QED BY <1>1, <1>3, <2>1, <2>2, <2>3
<1> QED BY <1>1, <1>2, <1>4, <1>5, <1>6 DEF ObjectsOK, Stored

LEMMA SendTypes ==
  ASSUME ObjectsOK, BoundsOK, Stored, NEW call \in Calls, Send(call),
         UNCHANGED <<touched, changes>>
  PROVE  ObjectsOK' /\ BoundsOK' /\ Stored'
<1>1. CASE Left({call})
  <2>1. {call} \in SUBSET Calls /\ IsFiniteSet({call}) BY FS_Singleton
  <2> QED BY <1>1, <2>1, LeftTypes
<1>2. CASE Serve(call) /\ UNCHANGED <<late, errors>>
  BY <1>2, ServeTypes DEF ObjectsOK, BoundsOK, Stored
<1> QED BY <1>1, <1>2 DEF Send

LEMMA EndPassTypes ==
  ASSUME SetControllerOK, NEW k \in Managers, NEW next \in {"idle", "ended"}, EndPass(k, next)
  PROVE  SetControllerOK'
<1>1. NoSets \in [Sets -> Objects] BY DEF NoSets, Objects
<1>2. stage' \in [Managers -> {"idle", "sets", "loop", "ended"}] BY DEF SetControllerOK, EndPass
<1>3. rss' \in [Managers -> [Sets -> Objects]] BY <1>1 DEF SetControllerOK, EndPass
<1>4. /\ allPods' \in [Managers -> SUBSET PodNames]
      /\ setsLeft' \in [Managers -> SUBSET Sets]
      /\ doomed' \in [Managers -> SUBSET PodNames]
  BY DEF SetControllerOK, EndPass
<1>5. growing' \in [Managers -> [set : Sets, count : Nat] \cup {NoJob}]
  BY DEF SetControllerOK, EndPass
<1> QED BY <1>2, <1>3, <1>4, <1>5 DEF SetControllerOK

LEMMA EndSyncTypes ==
  ASSUME DepControllerOK, NEW k \in Managers, NEW next \in {"idle", "ended"}, EndSync(k, next)
  PROVE  DepControllerOK'
<1>1. NoDeployments \in [Deployments -> Specs \cup {Absent}] BY DEF NoDeployments
<1>2. dstage' \in [Managers -> {"idle", "loop", "create", "ended"}] BY DEF DepControllerOK, EndSync
<1>3. listed' \in [Managers -> [Deployments -> Specs \cup {Absent}]]
  BY <1>1 DEF DepControllerOK, EndSync
<1>4. depsLeft' \in [Managers -> SUBSET Deployments] /\ lower' \in [Managers -> SUBSET Sets]
  BY DEF DepControllerOK, EndSync
<1>5. /\ syncing' \in [Managers -> Deployments \cup {Nothing}]
      /\ raise' \in [Managers -> (Replicas \ {Unset}) \cup {Nothing}]
  BY DEF DepControllerOK, EndSync
<1> QED BY <1>2, <1>3, <1>4, <1>5 DEF DepControllerOK

\* The replicas of an object are a number or nil.
LEMMA ReplicasOfObject == \A n \in Objects : n # Absent => n \in Nat \cup {Unset}
<1> SUFFICES ASSUME NEW n \in Objects, n # Absent PROVE n \in Nat \cup {Unset} OBVIOUS
<1>1. n \in UserReplicas \/ n = 0 \/ n = 1 BY DEF Objects, Replicas
<1>2. CASE n \in UserReplicas BY <1>2, WorkloadAssumption
<1>3. CASE n = 0 \/ n = 1 BY <1>3
<1> QED BY <1>1, <1>2, <1>3

\* How many pods reconcileRS adds or removes is a number.
LEMMA Counts ==
  ASSUME Types, NEW k \in Managers, NEW x \in Sets, rss[k][x] # Absent
  PROVE  Shortfall(k, x) \in Nat /\ Cardinality(Owned(k, x)) \in Nat
<1>1. Owned(k, x) \subseteq allPods[k] BY DEF Owned, Matching
<1>2. IsFiniteSet(Owned(k, x)) BY <1>1, FS_Subset DEF Types, Counted
<1>3. Cardinality(Owned(k, x)) \in Nat BY <1>2, FS_CardinalityType
<1>4. rss[k][x] \in Nat \cup {Unset}
  BY ReplicasOfObject DEF Types, TypeOK, SetControllerOK
<1> QED BY <1>3, <1>4 DEF Shortfall

\* Steps of users.
LEMMA UserTypes ==
  ASSUME Types, Change, touched' \subseteq Deployments, IsFiniteSet(pods')
  PROVE  SetControllerOK' /\ DepControllerOK' /\ BoundsOK' /\ Listed' /\ Counted'
BY SameSetController, SameDepController, WorkloadAssumption
   DEF Types, TypeOK, BoundsOK, Change, Listed, Counted, Stored, setController

LEMMA UserStepTypes ==
  ASSUME Types,
         \/ \E d \in Deployments : ApplyDeployment(d)
         \/ \E x \in Sets : ApplyReplicaSet(x)
         \/ \E p \in PodNames : RemovePod(p)
  PROVE  Types'
<1>1. ASSUME NEW d \in Deployments, ApplyDeployment(d) PROVE Types'
  <2>1. ObjectsOK' BY <1>1 DEF ApplyDeployment, Change, Types, TypeOK, ObjectsOK
  <2> QED
    BY <1>1, <2>1, UserTypes DEF ApplyDeployment, Types, TypeOK, Counted, Stored, BoundsOK
<1>2. ASSUME NEW x \in Sets, ApplyReplicaSet(x) PROVE Types'
  <2>1. ObjectsOK'
    BY <1>2 DEF ApplyReplicaSet, Change, Types, TypeOK, ObjectsOK, Objects, Replicas
  <2>2. touched' \subseteq Deployments BY <1>2 DEF ApplyReplicaSet, Types, TypeOK, BoundsOK
  <2> QED
    BY <1>2, <2>1, <2>2, UserTypes DEF ApplyReplicaSet, Types, TypeOK, Counted, Stored
<1>3. ASSUME NEW p \in PodNames, RemovePod(p) PROVE Types'
  <2>1. ObjectsOK' BY <1>3 DEF RemovePod, Change, Types, TypeOK, ObjectsOK
  <2>2. IsFiniteSet(pods') BY <1>3, FS_Subset DEF RemovePod, Types, Counted, Stored
  <2> QED BY <1>3, <2>1, <2>2, UserTypes DEF RemovePod, Types, TypeOK, BoundsOK
<1> QED BY <1>1, <1>2, <1>3

\* Steps of the ReplicaSet controller.
LEMMA SetStepTypes ==
  ASSUME Types, NEW k \in Managers, SetStep(k)
  PROVE  Types'
<1> USE DEF Types, TypeOK
<1>i. stage[k] = "idle" => setsLeft[k] = {} BY DEF Listed
<1>1. CASE ListReplicaSets(k)
  <2>1. SetControllerOK' BY <1>1 DEF ListReplicaSets, SetControllerOK, ObjectsOK
  <2>2. ObjectsOK' /\ DepControllerOK' /\ BoundsOK' /\ Counted'
    BY <1>1, SameObjects, SameDepController, SameStored DEF ListReplicaSets, BoundsOK, Counted
  <2>3. Listed' BY <1>1, <1>i DEF ListReplicaSets, Listed, SetControllerOK
  <2> QED BY <2>1, <2>2, <2>3
<1>2. CASE ListPods(k)
  <2>1. SetControllerOK' BY <1>2 DEF ListPods, SetControllerOK, ObjectsOK
  <2>2. ObjectsOK' /\ DepControllerOK' /\ BoundsOK'
    BY <1>2, SameObjects, SameDepController DEF ListPods, BoundsOK
  <2>3. allPods' = [allPods EXCEPT ![k] = pods] /\ Stored'
    BY <1>2, SameStored DEF ListPods, Counted
  <2>4. Counted' BY <2>3 DEF Counted, Stored, SetControllerOK
  <2>5. Listed' BY <1>2 DEF ListPods, Listed, SetControllerOK
  <2> QED BY <2>1, <2>2, <2>4, <2>5
<1>3. CASE CreatePod(k)
  <2>1. growing[k] \in [set : Sets, count : Nat]
    BY <1>3 DEF CreatePod, SetControllerOK, NoJob
  <2>2. SetControllerOK'
    <3>1. growing' \in [Managers -> [set : Sets, count : Nat] \cup {NoJob}]
      BY <1>3, <2>1 DEF CreatePod, SetControllerOK
    <3> QED BY <1>3, <3>1 DEF CreatePod, SetControllerOK
  <2>3. DepControllerOK' /\ Listed' BY <1>3, SameDepController DEF CreatePod, Listed
  <2>4. PICK f \in Suffixes : Send(PostPod(growing[k].set, f)) BY <1>3 DEF CreatePod
  <2>5. PostPod(growing[k].set, f) \in Calls BY <2>1 DEF PostPod, Calls, PodNames
  <2>6. ObjectsOK' /\ BoundsOK' /\ Stored' BY <1>3, <2>4, <2>5, SendTypes DEF CreatePod, Counted
  <2> QED BY <1>3, <2>2, <2>3, <2>6 DEF CreatePod, Counted
<1>4. CASE DeletePod(k)
  <2>1. SetControllerOK' BY <1>4 DEF DeletePod, SetControllerOK
  <2>2. DepControllerOK' /\ Listed' BY <1>4, SameDepController DEF DeletePod, Listed
  <2>3. PICK p \in doomed[k] : Send(DropPod(p)) BY <1>4 DEF DeletePod
  <2>4. DropPod(p) \in Calls BY DEF DropPod, Calls, SetControllerOK
  <2>5. ObjectsOK' /\ BoundsOK' /\ Stored' BY <1>4, <2>3, <2>4, SendTypes DEF DeletePod, Counted
  <2> QED BY <1>4, <2>1, <2>2, <2>5 DEF DeletePod, Counted
<1>5. CASE WaitTick(k)
  <2>1. ObjectsOK' /\ SetControllerOK' /\ DepControllerOK' /\ BoundsOK'
    BY <1>5, EndPassTypes, SameObjects, SameDepController DEF WaitTick, BoundsOK
  <2>2. Counted'
    BY <1>5, FS_EmptySet, SameStored DEF WaitTick, EndPass, Counted, SetControllerOK
  <2>3. Listed' BY <1>5 DEF WaitTick, EndPass, Listed, SetControllerOK
  <2> QED BY <2>1, <2>2, <2>3
<1>6. ASSUME NEW x \in Sets, ReconcileRS(k, x) PROVE Types'
  <2>1. growing' \in [Managers -> [set : Sets, count : Nat] \cup {NoJob}]
    <3>1. rss[k][x] # Absent => Shortfall(k, x) \in Nat BY Counts
    <3>2. rss[k][x] # Absent BY <1>6 DEF ReconcileRS, Listed
    <3> QED BY <1>6, <3>1, <3>2 DEF ReconcileRS, SetControllerOK
  <2>2. doomed' \in [Managers -> SUBSET PodNames]
    BY <1>6 DEF ReconcileRS, SetControllerOK, Owned, Matching
  <2>3. SetControllerOK' BY <1>6, <2>1, <2>2 DEF ReconcileRS, SetControllerOK
  <2>4. ObjectsOK' /\ DepControllerOK' /\ BoundsOK' /\ Counted'
    BY <1>6, SameObjects, SameDepController, SameStored DEF ReconcileRS, BoundsOK, Counted
  <2>5. Listed' BY <1>6 DEF ReconcileRS, Listed, SetControllerOK
  <2> QED BY <2>3, <2>4, <2>5
<1> QED BY <1>1, <1>2, <1>3, <1>4, <1>5, <1>6 DEF SetStep

\* Steps of the Deployment controller.  What it works on is what it has listed.
Planned ==
  \A k \in Managers :
    /\ \A d \in depsLeft[k] : listed[k][d] # Absent
    /\ dstage[k] # "loop" => raise[k] = Nothing
    /\ dstage[k] = "idle" => lower[k] = {}
    /\ dstage[k] = "create" \/ ~SyncDone(k) =>
         /\ syncing[k] # Nothing
         /\ listed[k][syncing[k]] # Absent
         /\ \A x \in lower[k] :
              x.app = syncing[k] /\ x # NewSet(syncing[k], listed[k][syncing[k]])

\* The spec that is synced, and its set.
LEMMA SyncedSpec ==
  ASSUME DepControllerOK, Planned, NEW k \in Managers, dstage[k] = "create" \/ ~SyncDone(k)
  PROVE  /\ syncing[k] \in Deployments
         /\ listed[k][syncing[k]] \in Specs
         /\ NewSet(syncing[k], listed[k][syncing[k]]) \in Sets
<1>1. syncing[k] \in Deployments BY DEF DepControllerOK, Planned
<1>2. listed[k][syncing[k]] \in Specs BY <1>1 DEF DepControllerOK, Planned
<1>3. NewSet(syncing[k], listed[k][syncing[k]]) \in [app : Deployments, template : Templates]
  BY <1>1, <1>2 DEF NewSet, Specs
<1> QED BY <1>1, <1>2, <1>3 DEF Sets

LEMMA SpecReplicas ==
  ASSUME NEW spec \in Specs
  PROVE  /\ Wanted(spec) \in Replicas \ {Unset}
         /\ Initial(spec) \in Replicas \ {Unset}
         /\ \A n : Correction(n, spec) \in (Replicas \ {Unset}) \cup {Nothing}
<1>1. spec.replicas \in UserReplicas BY DEF Specs
<1>2. 0 # Unset /\ 1 # Unset BY WorkloadAssumption
<1>3. Wanted(spec) \in Replicas \ {Unset} BY <1>1, <1>2 DEF Wanted, Replicas
<1>4. Initial(spec) \in Replicas \ {Unset} BY <1>1, <1>2 DEF Initial, Replicas
<1> QED BY <1>3, <1>4 DEF Correction

LEMMA DepStepTypes ==
  ASSUME Types, Planned, NEW k \in Managers, DepStep(k)
  PROVE  Types'
<1> USE DEF Types, TypeOK
<1>1. ASSUME UNCHANGED setController, Stored' PROVE SetControllerOK' /\ Listed' /\ Counted'
  BY <1>1, SameSetController DEF Listed, Counted, setController
<1>2. ASSUME UNCHANGED <<objects, touched, changes, errors>>
      PROVE  ObjectsOK' /\ BoundsOK' /\ Stored'
  BY <1>2, SameObjects, SameStored DEF Counted, BoundsOK
<1>3. CASE ListDeployments(k)
  <2>1. DepControllerOK' BY <1>3 DEF ListDeployments, DepControllerOK, ObjectsOK
  <2> QED BY <1>1, <1>2, <1>3, <2>1 DEF ListDeployments
<1>4. CASE CreateReplicaSet(k)
  <2> DEFINE spec == listed[k][syncing[k]]
             new == NewSet(syncing[k], spec)
  <2>1. spec \in Specs /\ new \in Sets BY <1>4, SyncedSpec DEF CreateReplicaSet
  <2> HIDE DEF spec, new
  <2>2. PostSet(new, Initial(spec)) \in Calls BY <2>1, SpecReplicas DEF PostSet, Calls
  <2>3. ObjectsOK' /\ BoundsOK' /\ Stored'
    <3>1. CASE Serve(PostSet(new, Initial(spec))) /\ UNCHANGED <<late, errors>>
      <4>1. Send(PostSet(new, Initial(spec))) BY <3>1 DEF Send
      <4> QED BY <1>4, <2>2, <4>1, SendTypes DEF CreateReplicaSet, Counted
    <3>2. CASE UNCHANGED <<objects, errors>> BY <1>2, <1>4, <3>2 DEF CreateReplicaSet
    <3>3. CASE Left({PostSet(new, Initial(spec))})
      <4>1. Send(PostSet(new, Initial(spec))) BY <3>3 DEF Send
      <4> QED BY <1>4, <2>2, <4>1, SendTypes DEF CreateReplicaSet, Counted
    <3> QED BY <1>4, <3>1, <3>2, <3>3 DEF CreateReplicaSet, spec, new
  <2>6. raise' \in [Managers -> (Replicas \ {Unset}) \cup {Nothing}]
    <3>1. Correction(Initial(spec), spec) \in (Replicas \ {Unset}) \cup {Nothing}
      BY <2>1, SpecReplicas
    <3>2. raise' = raise \/ raise' = [raise EXCEPT ![k] = Correction(Initial(spec), spec)]
      BY <1>4 DEF CreateReplicaSet, GiveUpSync, spec
    <3> QED BY <3>1, <3>2 DEF DepControllerOK
  <2>7. lower' = lower \/ lower' = [lower EXCEPT ![k] = {}]
    BY <1>4 DEF CreateReplicaSet, GiveUpSync
  <2>8. dstage' = [dstage EXCEPT ![k] = "loop"]
    BY <1>4 DEF CreateReplicaSet, GiveUpSync
  <2>9. UNCHANGED <<listed, depsLeft, syncing, setController>>
    BY <1>4 DEF CreateReplicaSet
  <2>10. DepControllerOK' BY <2>6, <2>7, <2>8, <2>9 DEF DepControllerOK
  <2> QED BY <1>1, <2>3, <2>9, <2>10
<1>5. CASE ScaleNew(k)
  <2> DEFINE new == NewSet(syncing[k], listed[k][syncing[k]])
  <2>1. new \in Sets /\ raise[k] \in Replicas \ {Unset}
    BY <1>5, SyncedSpec DEF ScaleNew, SyncDone, DepControllerOK
  <2>2. PutSet(new, raise[k]) \in Calls BY <2>1 DEF PutSet, Calls
  <2>3. ObjectsOK' /\ BoundsOK' /\ Stored' BY <1>5, <2>2, SendTypes DEF ScaleNew, Counted
  <2>4. DepControllerOK' BY <1>5 DEF ScaleNew, DepControllerOK
  <2> QED BY <1>1, <1>5, <2>3, <2>4 DEF ScaleNew
<1>6. CASE ScaleOld(k)
  <2>1. PICK x \in lower[k] : /\ Send(PutSet(x, 0))
                             /\ lower' = [lower EXCEPT ![k] = @ \ {x}]
    BY <1>6 DEF ScaleOld
  <2>2. x \in Sets BY DEF DepControllerOK
  <2>3. PutSet(x, 0) \in Calls BY <2>2, WorkloadAssumption DEF PutSet, Calls, Replicas
  <2>4. ObjectsOK' /\ BoundsOK' /\ Stored' BY <1>6, <2>1, <2>3, SendTypes DEF ScaleOld, Counted
  <2>5. DepControllerOK' BY <1>6, <2>1 DEF ScaleOld, DepControllerOK
  <2> QED BY <1>1, <1>6, <2>4, <2>5 DEF ScaleOld
<1>7. CASE DepWaitTick(k)
  BY <1>1, <1>2, <1>7, EndSyncTypes DEF DepWaitTick
<1>8. ASSUME NEW d \in Deployments, SyncDeployment(k, d) PROVE Types'
  <2>1. listed[k][d] \in Specs BY <1>8 DEF SyncDeployment, Planned, DepControllerOK
  <2>2. raise' \in [Managers -> (Replicas \ {Unset}) \cup {Nothing}]
    <3> DEFINE c == Correction(replicasets[NewSet(d, listed[k][d])], listed[k][d])
    <3>1. c \in (Replicas \ {Unset}) \cup {Nothing} BY <2>1, SpecReplicas
    <3>2. raise' = raise \/ raise' = [raise EXCEPT ![k] = c] BY <1>8 DEF SyncDeployment
    <3> HIDE DEF c
    <3> QED BY <3>1, <3>2 DEF DepControllerOK
  <2>3. dstage' = dstage \/ dstage' = [dstage EXCEPT ![k] = "create"]
    BY <1>8 DEF SyncDeployment
  <2>4. DepControllerOK' BY <1>8, <2>2, <2>3 DEF SyncDeployment, DepControllerOK
  <2> QED BY <1>1, <1>2, <1>8, <2>4 DEF SyncDeployment
<1> QED BY <1>3, <1>4, <1>5, <1>6, <1>7, <1>8 DEF DepStep

\* The calls that a manager may leave behind.
LEMMA CallsLeft ==
  ASSUME Types, Planned, NEW k \in Managers
  PROVE  SetCalls(k) \subseteq Calls /\ DepCalls(k) \subseteq Calls
<1> USE DEF Types, TypeOK
<1>1. SetCalls(k) \subseteq Calls
  <2>1. ASSUME growing[k].count > 0, NEW f \in Suffixes PROVE PostPod(growing[k].set, f) \in Calls
    <3>1. growing[k] \in [set : Sets, count : Nat] BY <2>1 DEF SetControllerOK, NoJob
    <3> QED BY <3>1 DEF PostPod, Calls, PodNames
  <2>2. \A p \in doomed[k] : DropPod(p) \in Calls BY DEF DropPod, Calls, SetControllerOK
  <2> QED BY <2>1, <2>2 DEF SetCalls
<1>2. CASE dstage[k] = "create" \/ ~SyncDone(k)
  <2> DEFINE spec == listed[k][syncing[k]]
             new == NewSet(syncing[k], spec)
  <2>1. spec \in Specs /\ new \in Sets BY <1>2, SyncedSpec
  <2> HIDE DEF spec, new
  <2>2. PostSet(new, Initial(spec)) \in Calls BY <2>1, SpecReplicas DEF PostSet, Calls
  <2>3. raise[k] # Nothing => PutSet(new, raise[k]) \in Calls
    BY <2>1 DEF PutSet, Calls, DepControllerOK
  <2>4. \A x \in lower[k] : PutSet(x, 0) \in Calls
    BY WorkloadAssumption DEF PutSet, Calls, Replicas, DepControllerOK
  <2> QED BY <1>1, <2>2, <2>3, <2>4 DEF DepCalls, spec, new
<1>3. CASE dstage[k] # "create" /\ SyncDone(k)
  BY <1>1, <1>3 DEF DepCalls, SyncDone
<1> QED BY <1>2, <1>3

LEMMA AtMostOneFinite ==
  ASSUME NEW calls, NEW s \in AtMostOne(calls)
  PROVE  s \subseteq calls /\ IsFiniteSet(s)
BY FS_EmptySet, FS_Singleton DEF AtMostOne

\* Failed lists, and managers that end.
LEMMA FailureTypes ==
  ASSUME Types, Planned, NEW k \in Managers,
         \/ ListFails(k)
         \/ Restart(k)
         \/ StopLeading(k)
         \/ \E d \in Deployments : SyncFails(k, d)
  PROVE  Types'
<1> USE DEF Types, TypeOK
<1>1. ASSUME Lost, UNCHANGED <<touched, changes>> PROVE ObjectsOK' /\ BoundsOK' /\ Stored'
  BY <1>1, LostTypes DEF Counted
<1>2. ASSUME NEW next \in {"idle", "ended"}, EndPass(k, next), Stored' PROVE Counted' /\ Listed'
  BY <1>2, FS_EmptySet DEF EndPass, Counted, Listed, SetControllerOK
<1>3. CASE ListFails(k)
  BY <1>1, <1>2, <1>3, EndPassTypes, SameDepController DEF ListFails
<1>4. CASE Restart(k)
  <2>1. PICK s \in AtMostOne(SetCalls(k)), d \in AtMostOne(DepCalls(k)) : Left(s \cup d)
    BY <1>4 DEF Restart
  <2>2. s \cup d \in SUBSET Calls /\ IsFiniteSet(s \cup d)
    <3>1. s \subseteq SetCalls(k) /\ IsFiniteSet(s) BY AtMostOneFinite
    <3>2. d \subseteq DepCalls(k) /\ IsFiniteSet(d) BY AtMostOneFinite
    <3>3. s \cup d \in SUBSET Calls BY <3>1, <3>2, CallsLeft
    <3>4. IsFiniteSet(s \cup d) BY <3>1, <3>2, FS_Union
    <3> QED BY <3>3, <3>4
  <2>3. ObjectsOK' /\ BoundsOK' /\ Stored' BY <1>4, <2>1, <2>2, LeftTypes DEF Restart, Counted
  <2> QED BY <1>2, <1>4, <2>3, EndPassTypes, EndSyncTypes DEF Restart
<1>5. ASSUME NEW d \in Deployments, SyncFails(k, d) PROVE Types'
  <2>1. ObjectsOK' /\ BoundsOK' /\ Stored' BY <1>1, <1>5 DEF SyncFails
  <2>2. SetControllerOK' /\ Counted' /\ Listed'
    BY <1>5, <2>1, SameSetController DEF SyncFails, Counted, Listed, setController
  <2>3. DepControllerOK' BY <1>5 DEF SyncFails, DepControllerOK
  <2> QED BY <2>1, <2>2, <2>3
<1>6. CASE StopLeading(k)
  <2>1. ObjectsOK' /\ BoundsOK' /\ Stored'
    BY <1>6, SameObjects, SameStored DEF StopLeading, BoundsOK, Counted
  <2> QED BY <1>2, <1>6, <2>1, EndPassTypes, EndSyncTypes DEF StopLeading
<1> QED BY <1>3, <1>4, <1>5, <1>6

\* The server serves a call that was left behind.
LEMMA ServeLateTypes == Types /\ ServeLate => Types'
<1> SUFFICES ASSUME Types, ServeLate PROVE Types' OBVIOUS
<1> USE DEF Types, TypeOK
<1>1. PICK call \in late : Serve(call[2]) /\ late' = late \ {call} BY DEF ServeLate
<1>2. call[2] \in Calls BY DEF ObjectsOK
<1>3. UNCHANGED <<setController, depController, touched, changes, errors>> BY DEF ServeLate
<1>4. IsFiniteSet(late') BY <1>1, FS_Subset DEF Counted, Stored
<1>5. ObjectsOK' /\ Stored' BY <1>1, <1>2, <1>3, <1>4, ServeTypes DEF ObjectsOK, Counted, Stored
<1>6. Counted' /\ Listed' BY <1>3, <1>5 DEF Counted, Listed, setController
<1> QED BY <1>3, <1>5, <1>6, SameSetController, SameDepController DEF BoundsOK

\* A step of k leaves the plans of the other managers alone.
LEMMA PlannedStep == Types /\ Planned /\ [Next]_vars => Planned'
<1> SUFFICES ASSUME Types, Planned, [Next]_vars, NEW j \in Managers
             PROVE  /\ \A d \in depsLeft'[j] : listed'[j][d] # Absent
                    /\ dstage'[j] # "loop" => raise'[j] = Nothing
                    /\ dstage'[j] = "idle" => lower'[j] = {}
                    /\ dstage'[j] = "create" \/ ~SyncDone(j)' =>
                         /\ syncing'[j] # Nothing
                         /\ listed'[j][syncing'[j]] # Absent
                         /\ \A x \in lower'[j] :
                              /\ x.app = syncing'[j]
                              /\ x # NewSet(syncing'[j], listed'[j][syncing'[j]])
  BY DEF Planned, NewSet
<1> DEFINE Goal == /\ \A d \in depsLeft'[j] : listed'[j][d] # Absent
                   /\ dstage'[j] # "loop" => raise'[j] = Nothing
                   /\ dstage'[j] = "idle" => lower'[j] = {}
                   /\ dstage'[j] = "create" \/ ~SyncDone(j)' =>
                        /\ syncing'[j] # Nothing
                        /\ listed'[j][syncing'[j]] # Absent
                        /\ \A x \in lower'[j] :
                             /\ x.app = syncing'[j]
                             /\ x # NewSet(syncing'[j], listed'[j][syncing'[j]])
<1> USE DEF SyncDone
<1>o. DepControllerOK BY DEF Types, TypeOK
<1>1. /\ \A d \in depsLeft[j] : listed[j][d] # Absent
      /\ dstage[j] # "loop" => raise[j] = Nothing
      /\ dstage[j] = "idle" => lower[j] = {}
      /\ dstage[j] = "create" \/ ~SyncDone(j) =>
           /\ syncing[j] # Nothing
           /\ listed[j][syncing[j]] # Absent
           /\ \A x \in lower[j] : /\ x.app = syncing[j]
                                  /\ x # NewSet(syncing[j], listed[j][syncing[j]])
  BY DEF Planned
<1>2. ASSUME UNCHANGED depController PROVE Goal
  BY <1>1, <1>2 DEF depController
<1>3. ASSUME NEW k \in Managers, ListDeployments(k) PROVE Goal
  BY <1>1, <1>3, <1>o DEF ListDeployments, DepControllerOK
<1>4. ASSUME NEW k \in Managers, CreateReplicaSet(k) PROVE Goal
  BY <1>1, <1>4, <1>o DEF CreateReplicaSet, GiveUpSync, DepControllerOK
<1>5. ASSUME NEW k \in Managers, ScaleNew(k) PROVE Goal
  BY <1>1, <1>5, <1>o DEF ScaleNew, DepControllerOK
<1>6. ASSUME NEW k \in Managers, ScaleOld(k) PROVE Goal
  BY <1>1, <1>6, <1>o DEF ScaleOld, DepControllerOK
<1>7. ASSUME NEW k \in Managers, NEW next \in {"idle", "ended"}, EndSync(k, next) PROVE Goal
  BY <1>1, <1>7, <1>o DEF EndSync, DepControllerOK
<1>8. ASSUME NEW k \in Managers, NEW d \in Deployments, SyncDeployment(k, d) PROVE Goal
  <2>1. listed[k][d] # Absent /\ d # Nothing BY <1>8, WorkloadAssumption DEF SyncDeployment, Planned
  <2> QED BY <1>1, <1>8, <1>o, <2>1 DEF SyncDeployment, DepControllerOK
<1>9. ASSUME NEW k \in Managers, NEW d \in Deployments, SyncFails(k, d) PROVE Goal
  BY <1>1, <1>9, <1>o DEF SyncFails, DepControllerOK
<1>10. CASE UNCHANGED vars BY <1>2, <1>10 DEF vars
<1>11. ASSUME NEW k \in Managers, SetStep(k) PROVE UNCHANGED depController
  BY <1>11
  DEF SetStep, ListReplicaSets, ListPods, CreatePod, DeletePod, WaitTick, ReconcileRS
<1>12. ASSUME \/ \E d \in Deployments : ApplyDeployment(d)
              \/ \E x \in Sets : ApplyReplicaSet(x)
              \/ \E p \in PodNames : RemovePod(p)
              \/ ServeLate
       PROVE  UNCHANGED depController
  BY <1>12 DEF ApplyDeployment, ApplyReplicaSet, RemovePod, ServeLate, Change
<1>13. ASSUME NEW k \in Managers, DepStep(k) PROVE Goal
  BY <1>3, <1>4, <1>5, <1>6, <1>7, <1>8, <1>13 DEF DepStep, DepWaitTick
<1>14. ASSUME NEW k \in Managers, ListFails(k) \/ Restart(k) \/ StopLeading(k) PROVE Goal
  BY <1>2, <1>7, <1>14 DEF ListFails, Restart, StopLeading
<1> QED
  BY <1>2, <1>9, <1>10, <1>11, <1>12, <1>13, <1>14 DEF Next

LEMMA NextTypes == Types /\ Planned /\ [Next]_vars => Types'
<1> SUFFICES ASSUME Types, Planned, [Next]_vars PROVE Types' OBVIOUS
<1>1. CASE UNCHANGED vars
  BY <1>1, SameObjects, SameSetController, SameDepController, SameStored
     DEF vars, Types, TypeOK, Counted, Listed, BoundsOK, setController
<1> QED
  BY <1>1, UserStepTypes, SetStepTypes, DepStepTypes, FailureTypes, ServeLateTypes DEF Next

LEMMA InitPlanned == Init => Planned
BY DEF Init, Planned, SyncDone

LEMMA TypesAlways == Spec => [](Types /\ Planned)
BY InitTypes, InitPlanned, NextTypes, PlannedStep, PTL DEF Spec

\* Every variable keeps its type, whatever the objects, managers and bounds.
THEOREM TypeCorrect == Spec => []TypeOK
BY TypesAlways, PTL DEF Types

-----------------------------------------------------------------------------
(***************************************************************************)
(* A rollout keeps the replicas of its Deployment.                         *)
(***************************************************************************)
\* Until a call fails or a user writes the sets: when the old sets are about to be
\* lowered, or the new one raised, the new one exists, and has replicas or will
\* have been given some before the first old one is lowered.
Raised ==
  errors = 0 =>
    \A k \in Managers :
      dstage[k] = "loop" /\ ~SyncDone(k) /\ syncing[k] \notin touched =>
        LET n == replicasets[NewSet(syncing[k], listed[k][syncing[k]])]
        IN n # Absent /\ raise[k] # 0 /\ (raise[k] = Nothing => n \in Nat \ {0})

\* What a Deployment wants is not 0 unless a user wrote 0.
LEMMA WantedSome ==
  ASSUME 0 \notin UserReplicas, NEW spec \in Specs
  PROVE  Wanted(spec) \in Nat \ {0} /\ Initial(spec) # Absent
<1>1. spec.replicas \in UserReplicas BY DEF Specs
<1>2. CASE spec.replicas = Unset BY <1>2, WorkloadAssumption DEF Wanted, Initial
<1>3. CASE spec.replicas # Unset
  <2>1. spec.replicas \in Nat \ {0} BY <1>1, <1>3, WorkloadAssumption
  <2> QED BY <1>3, <2>1, WorkloadAssumption DEF Wanted, Initial
<1> QED BY <1>2, <1>3

LEMMA ReplicasAreNumbers == ASSUME NEW n \in Replicas \ {Unset} PROVE n \in Nat
<1>1. CASE n \in UserReplicas BY <1>1, WorkloadAssumption
<1>2. CASE n \in {0, 1} BY <1>2
<1> QED BY <1>1, <1>2 DEF Replicas

\* Until a call fails, calls are served at once.
LEMMA NoFailure ==
  ASSUME Types, errors' = 0
  PROVE  ~Fails /\ ~Lost /\ (\A calls : ~Left(calls)) /\ (errors = 0 => late = {})
<1>1. errors \in Nat BY DEF Types, TypeOK, BoundsOK
<1>2. ~Fails BY <1>1 DEF Fails
<1>3. errors = 0 => late = {} BY DEF Types, TypeOK, ObjectsOK, Counted, Stored
<1> QED BY <1>2, <1>3 DEF Lost, Left

\* What PUT and POST do to the ReplicaSets.
LEMMA SetCallServed ==
  ASSUME ObjectsOK, NEW x \in Sets, NEW n
  PROVE  /\ Serve(PutSet(x, n)) =>
              replicasets' = [replicasets EXCEPT ![x] = IF @ = Absent THEN @ ELSE n]
         /\ Serve(PostSet(x, n)) =>
              replicasets' = [replicasets EXCEPT ![x] = IF @ = Absent THEN n ELSE @]
<1>1. ASSUME Serve(PutSet(x, n))
      PROVE  replicasets' = [replicasets EXCEPT ![x] = IF @ = Absent THEN @ ELSE n]
  <2>1. "pod" \notin DOMAIN PutSet(x, n) BY DEF PutSet
  <2>2. PutSet(x, n).set = x /\ PutSet(x, n).op = "PUT" /\ PutSet(x, n).replicas = n
    BY DEF PutSet
  <2>3. replicasets' = [replicasets EXCEPT ![x] = IF (@ = Absent) = ("PUT" = "POST") THEN n ELSE @]
    BY <1>1, <2>1, <2>2 DEF Serve
  <2> QED BY <2>3 DEF ObjectsOK
<1>2. ASSUME Serve(PostSet(x, n))
      PROVE  replicasets' = [replicasets EXCEPT ![x] = IF @ = Absent THEN n ELSE @]
  <2>1. "pod" \notin DOMAIN PostSet(x, n) BY DEF PostSet
  <2>2. PostSet(x, n).set = x /\ PostSet(x, n).op = "POST" /\ PostSet(x, n).replicas = n
    BY DEF PostSet
  <2>3. replicasets' = [replicasets EXCEPT ![x] = IF (@ = Absent) = ("POST" = "POST") THEN n ELSE @]
    BY <1>2, <2>1, <2>2 DEF Serve
  <2> QED BY <2>3 DEF ObjectsOK
<1> QED BY <1>1, <1>2

\* The ReplicaSet controller does not write ReplicaSets.
LEMMA SetStepQuiet ==
  ASSUME NEW k \in Managers, SetStep(k)
  PROVE  UNCHANGED <<replicasets, depController, touched>>
<1>1. ASSUME NEW call, "pod" \in DOMAIN call, Send(call) PROVE UNCHANGED replicasets
  BY <1>1 DEF Send, Serve, Left
<1>2. CASE CreatePod(k)
  <2>1. PICK f \in Suffixes : Send(PostPod(growing[k].set, f)) BY <1>2 DEF CreatePod
  <2>2. "pod" \in DOMAIN PostPod(growing[k].set, f) BY DEF PostPod
  <2> QED BY <1>1, <1>2, <2>1, <2>2 DEF CreatePod
<1>3. CASE DeletePod(k)
  <2>1. PICK p \in doomed[k] : Send(DropPod(p)) BY <1>3 DEF DeletePod
  <2>2. "pod" \in DOMAIN DropPod(p) BY DEF DropPod
  <2> QED BY <1>1, <1>3, <2>1, <2>2 DEF DeletePod
<1>4. CASE ListReplicaSets(k) BY <1>4 DEF ListReplicaSets, objects
<1>5. CASE ListPods(k) BY <1>5 DEF ListPods, objects
<1>6. CASE WaitTick(k) BY <1>6 DEF WaitTick, objects
<1>7. CASE \E x \in Sets : ReconcileRS(k, x) BY <1>7 DEF ReconcileRS, objects
<1> QED BY <1>2, <1>3, <1>4, <1>5, <1>6, <1>7 DEF SetStep

LEMMA RaisedStep ==
  ASSUME 0 \notin UserReplicas, \A j, k \in Managers : j = k
  PROVE  Types /\ Planned /\ Raised /\ [Next]_vars => Raised'
<1> SUFFICES ASSUME Types, Planned, Raised, [Next]_vars, errors' = 0, NEW k \in Managers,
                    dstage'[k] = "loop", ~SyncDone(k)', syncing'[k] \notin touched'
             PROVE  LET n == replicasets'[NewSet(syncing'[k], listed'[k][syncing'[k]])]
                    IN n # Absent /\ raise'[k] # 0 /\ (raise'[k] = Nothing => n \in Nat \ {0})
  BY DEF Raised, NewSet
<1> DEFINE Goal == LET n == replicasets'[NewSet(syncing'[k], listed'[k][syncing'[k]])]
                   IN n # Absent /\ raise'[k] # 0 /\ (raise'[k] = Nothing => n \in Nat \ {0})
<1>e. errors \in Nat /\ ObjectsOK /\ DepControllerOK BY DEF Types, TypeOK, BoundsOK
<1>l. ~Lost /\ (\A calls : ~Left(calls)) /\ (errors = 0 => late = {}) BY NoFailure
<1>1. dstage[k] = "loop" /\ ~SyncDone(k) /\ errors = 0 /\ syncing[k] \notin touched =>
        LET n == replicasets[NewSet(syncing[k], listed[k][syncing[k]])]
        IN n # Absent /\ raise[k] # 0 /\ (raise[k] = Nothing => n \in Nat \ {0})
  BY DEF Raised
<1>2. ASSUME UNCHANGED <<depController, replicasets, touched>>, errors = 0 PROVE Goal
  BY <1>1, <1>2 DEF depController, SyncDone
<1>3. ASSUME NEW x \in Sets, ApplyReplicaSet(x) PROVE Goal
  <2>1. UNCHANGED depController /\ errors = 0 BY <1>3 DEF ApplyReplicaSet, Change
  <2>2. dstage[k] = "loop" /\ ~SyncDone(k) BY <2>1 DEF depController, SyncDone
  <2> DEFINE new == NewSet(syncing[k], listed[k][syncing[k]])
  <2>3. new \in Sets /\ new.app = syncing[k] /\ syncing[k] \in Deployments
    BY <1>e, <2>2, SyncedSpec DEF NewSet
  <2>4. touched' = touched \cup ({x.app} \cap Deployments) /\ syncing'[k] = syncing[k]
    BY <1>3, <2>1 DEF ApplyReplicaSet, depController
  <2>5. x # new /\ syncing[k] \notin touched BY <2>3, <2>4
  <2>6. replicasets'[new] = replicasets[new]
    BY <1>3, <1>e, <2>3, <2>5 DEF ApplyReplicaSet, ObjectsOK
  <2> QED BY <1>1, <2>1, <2>2, <2>5, <2>6 DEF depController
<1>4. CASE CreateReplicaSet(k)
  <2> DEFINE spec == listed[k][syncing[k]]
             new == NewSet(syncing[k], spec)
  <2>1. spec \in Specs /\ new \in Sets /\ dstage[k] = "create"
    BY <1>4, <1>e, SyncedSpec DEF CreateReplicaSet
  <2>2. UNCHANGED <<listed, syncing>> BY <1>4 DEF CreateReplicaSet
  <2>3. CASE GiveUpSync(k)
    <3>1. raise'[k] = Nothing /\ lower'[k] = {}
      BY <1>e, <2>1, <2>3 DEF GiveUpSync, Planned, DepControllerOK
    <3> QED BY <3>1 DEF SyncDone
  <2>4. CASE /\ replicasets[new] = Absent /\ Serve(PostSet(new, Initial(spec)))
             /\ raise' = [raise EXCEPT ![k] = Correction(Initial(spec), spec)]
    <3>1. replicasets'[new] = Initial(spec) /\ raise'[k] = Correction(Initial(spec), spec)
      BY <1>e, <2>1, <2>4, SetCallServed DEF ObjectsOK, DepControllerOK
    <3>2. Wanted(spec) \in Nat \ {0} /\ Initial(spec) # Absent BY <2>1, WantedSome
    <3>3. raise'[k] # 0 /\ (raise'[k] = Nothing => Initial(spec) = Wanted(spec))
      BY <3>1, <3>2, WorkloadAssumption DEF Correction
    <3> QED BY <2>2, <3>1, <3>2, <3>3
  <2> QED BY <1>4, <1>l, <2>3, <2>4 DEF CreateReplicaSet
<1>5. CASE ScaleNew(k)
  <2> DEFINE new == NewSet(syncing[k], listed[k][syncing[k]])
  <2>1. /\ errors = 0 /\ ~SyncDone(k) /\ dstage[k] = "loop"
        /\ UNCHANGED <<syncing, listed, touched>> /\ Serve(PutSet(new, raise[k]))
    BY <1>5, <1>l DEF ScaleNew, Send, SyncDone
  <2>2. new \in Sets /\ replicasets[new] # Absent BY <1>1, <1>e, <2>1, SyncedSpec
  <2>3. raise[k] \in Nat \ {0}
    <3>1. raise[k] \in Replicas \ {Unset} BY <1>5, <1>e DEF ScaleNew, DepControllerOK
    <3>2. raise[k] \in Nat BY <3>1, ReplicasAreNumbers
    <3> QED BY <1>1, <2>1, <3>2
  <2>4. replicasets'[new] = raise[k] BY <1>e, <2>1, <2>2, SetCallServed DEF ObjectsOK
  <2>5. raise'[k] = Nothing BY <1>5, <1>e DEF ScaleNew, DepControllerOK
  <2> QED BY <2>1, <2>3, <2>4, <2>5, WorkloadAssumption
<1>6. CASE ScaleOld(k)
  <2> DEFINE new == NewSet(syncing[k], listed[k][syncing[k]])
  <2>1. PICK x \in lower[k] : Serve(PutSet(x, 0)) /\ UNCHANGED errors
    BY <1>6, <1>l DEF ScaleOld, Send
  <2>2. /\ errors = 0 /\ ~SyncDone(k) /\ dstage[k] = "loop" /\ raise[k] = Nothing
        /\ UNCHANGED <<syncing, listed, raise, touched>>
    BY <1>6, <2>1 DEF ScaleOld, SyncDone
  <2>3. x # new /\ x \in Sets BY <1>e, <2>2 DEF Planned, DepControllerOK
  <2>4. new \in Sets /\ replicasets[new] \in Nat \ {0} BY <1>1, <1>e, <2>2, SyncedSpec
  <2>5. replicasets'[new] = replicasets[new]
    BY <1>e, <2>1, <2>3, <2>4, SetCallServed DEF ObjectsOK
  <2> QED BY <2>2, <2>4, <2>5, WorkloadAssumption
<1>7. ASSUME NEW d \in Deployments, SyncDeployment(k, d) PROVE Goal
  <2> DEFINE new == NewSet(d, listed[k][d])
  <2>1. listed[k][d] \in Specs BY <1>7, <1>e DEF SyncDeployment, Planned, DepControllerOK
  <2>2. syncing'[k] = d /\ UNCHANGED <<listed, replicasets>>
    BY <1>7, <1>e DEF SyncDeployment, DepControllerOK, objects
  <2>3. replicasets[new] # Absent /\ raise' = [raise EXCEPT ![k] = Correction(replicasets[new], listed[k][d])]
    BY <1>7, <1>e DEF SyncDeployment, DepControllerOK
  <2>4. Wanted(listed[k][d]) \in Nat \ {0} BY <2>1, WantedSome
  <2>5. raise'[k] # 0 /\ (raise'[k] = Nothing => replicasets[new] = Wanted(listed[k][d]))
    BY <1>e, <2>3, <2>4, WorkloadAssumption DEF Correction, DepControllerOK
  <2> QED BY <2>2, <2>3, <2>4, <2>5
<1>8. CASE ListDeployments(k)
  <2>1. raise'[k] = Nothing /\ lower'[k] = {} BY <1>8 DEF ListDeployments, Planned
  <2> QED BY <2>1 DEF SyncDone
<1>9. ASSUME EndSync(k, "idle") PROVE Goal
  BY <1>9, <1>e DEF EndSync, DepControllerOK
<1>10. CASE UNCHANGED vars BY <1>2, <1>10 DEF vars, objects
<1>11. ASSUME SetStep(k) PROVE Goal
  <2>1. errors = 0
    BY <1>11, <1>l
    DEF SetStep, ListReplicaSets, ListPods, CreatePod, DeletePod, WaitTick, ReconcileRS, Send
  <2> QED BY <1>2, <1>11, <2>1, SetStepQuiet
<1>12. ASSUME \/ \E d \in Deployments : ApplyDeployment(d)
              \/ \E p \in PodNames : RemovePod(p)
              \/ ServeLate
       PROVE  Goal
  BY <1>2, <1>12, <1>l DEF ApplyDeployment, RemovePod, ServeLate, Change
<1>13. ASSUME DepStep(k) PROVE Goal
  BY <1>4, <1>5, <1>6, <1>7, <1>8, <1>9, <1>13 DEF DepStep, DepWaitTick
<1>14. ASSUME \/ ListFails(k)
              \/ Restart(k)
              \/ StopLeading(k)
              \/ \E d \in Deployments : SyncFails(k, d)
       PROVE  FALSE
  BY <1>l, <1>14 DEF ListFails, Restart, StopLeading, SyncFails
<1> QED
  BY <1>3, <1>10, <1>11, <1>12, <1>13, <1>14 DEF Next

LEMMA RaisedAlways ==
  ASSUME 0 \notin UserReplicas, \A j, k \in Managers : j = k
  PROVE  Spec => []Raised
<1>1. Init => Raised BY DEF Init, Raised
<1> QED BY <1>1, TypesAlways, RaisedStep, PTL DEF Spec

\* The set that keeps a Deployment up through a step.
LEMMA StillUp ==
  ASSUME NEW d \in Deployments, NEW x \in Sets, x.app = d, replicasets'[x] \in Nat \ {0}
  PROVE  Up(d)'
BY DEF Up

LEMMA UpStep ==
  ASSUME 0 \notin UserReplicas, \A j, k \in Managers : j = k
  PROVE  Types /\ Planned /\ Raised /\ [Next]_vars =>
           (errors' = 0 => \A d \in Deployments \ touched' : Up(d) => Up(d)')
<1> SUFFICES ASSUME Types, Planned, Raised, [Next]_vars, errors' = 0,
                    NEW d \in Deployments \ touched', Up(d)
             PROVE  Up(d)'
  OBVIOUS
<1>e. errors \in Nat /\ ObjectsOK /\ DepControllerOK BY DEF Types, TypeOK, BoundsOK
<1>l. ~Lost /\ (\A calls : ~Left(calls)) /\ (errors = 0 => late = {}) BY NoFailure
<1>1. PICK x \in Sets : x.app = d /\ replicasets[x] \in Nat \ {0} BY DEF Up
<1>2. ASSUME replicasets'[x] = replicasets[x] PROVE Up(d)' BY <1>1, <1>2, StillUp
<1>3. ASSUME NEW y \in Sets, ApplyReplicaSet(y) PROVE Up(d)'
  <2>1. x # y BY <1>1, <1>3 DEF ApplyReplicaSet
  <2> QED BY <1>2, <1>3, <1>e, <2>1 DEF ApplyReplicaSet, ObjectsOK
<1>4. ASSUME NEW k \in Managers, CreateReplicaSet(k) PROVE Up(d)'
  <2> DEFINE new == NewSet(syncing[k], listed[k][syncing[k]])
  <2>1. CASE UNCHANGED replicasets BY <1>2, <2>1
  <2>2. CASE replicasets[new] = Absent /\ Serve(PostSet(new, Initial(listed[k][syncing[k]])))
    <3>1. new \in Sets BY <1>4, <1>e, SyncedSpec DEF CreateReplicaSet
    <3>2. x # new BY <1>1, <2>2, WorkloadAssumption
    <3> QED BY <1>2, <1>e, <2>2, <3>1, <3>2, SetCallServed DEF ObjectsOK
  <2> QED BY <1>4, <1>l, <2>1, <2>2 DEF CreateReplicaSet, objects
<1>5. ASSUME NEW k \in Managers, ScaleNew(k) PROVE Up(d)'
  <2> DEFINE new == NewSet(syncing[k], listed[k][syncing[k]])
  <2>1. /\ dstage[k] = "loop" /\ ~SyncDone(k) /\ errors = 0
        /\ Serve(PutSet(new, raise[k])) /\ UNCHANGED touched
    BY <1>5, <1>l DEF ScaleNew, Send, SyncDone
  <2>2. new \in Sets /\ new.app = syncing[k] BY <1>e, <2>1, SyncedSpec DEF NewSet
  <2>3. replicasets' = [replicasets EXCEPT ![new] = IF @ = Absent THEN @ ELSE raise[k]]
    BY <1>e, <2>1, <2>2, SetCallServed
  <2>4. CASE x # new BY <1>2, <1>e, <2>3, <2>4 DEF ObjectsOK
  <2>5. CASE x = new
    <3>1. raise[k] # 0 /\ raise[k] # Nothing BY <1>1, <1>5, <2>1, <2>2, <2>5 DEF Raised, ScaleNew
    <3>2. raise[k] \in Replicas \ {Unset} BY <1>e, <3>1 DEF DepControllerOK
    <3>3. raise[k] \in Nat \ {0} BY <3>1, <3>2, ReplicasAreNumbers
    <3>4. replicasets'[x] = raise[k] BY <1>1, <1>e, <2>3, <2>5, WorkloadAssumption DEF ObjectsOK
    <3> QED BY <1>1, <3>3, <3>4, StillUp
  <2> QED BY <2>4, <2>5
<1>6. ASSUME NEW k \in Managers, ScaleOld(k) PROVE Up(d)'
  <2> DEFINE new == NewSet(syncing[k], listed[k][syncing[k]])
  <2>1. PICK y \in lower[k] : Serve(PutSet(y, 0)) /\ UNCHANGED errors
    BY <1>6, <1>l DEF ScaleOld, Send
  <2>2. /\ dstage[k] = "loop" /\ ~SyncDone(k) /\ errors = 0 /\ raise[k] = Nothing
        /\ UNCHANGED touched
    BY <1>6, <2>1 DEF ScaleOld, SyncDone
  <2>3. y \in Sets BY <1>e DEF DepControllerOK
  <2>4. CASE x # y BY <1>2, <1>e, <2>1, <2>3, <2>4, SetCallServed DEF ObjectsOK
  <2>5. CASE x = y
    <3>1. d = syncing[k] /\ y # new BY <1>1, <2>2, <2>5 DEF Planned
    <3>2. new \in Sets /\ new.app = d BY <1>e, <2>2, <3>1, SyncedSpec DEF NewSet
    <3>3. replicasets[new] \in Nat \ {0} BY <2>2, <3>1 DEF Raised
    <3>4. replicasets'[new] = replicasets[new]
      BY <1>e, <2>1, <2>3, <3>1, <3>2, SetCallServed DEF ObjectsOK
    <3> QED BY <3>2, <3>3, <3>4, StillUp
  <2> QED BY <2>4, <2>5
<1>7. ASSUME NEW k \in Managers, SetStep(k) PROVE UNCHANGED replicasets BY <1>7, SetStepQuiet
<1>8. ASSUME NEW k \in Managers, DepStep(k) PROVE Up(d)'
  BY <1>2, <1>4, <1>5, <1>6, <1>8 DEF DepStep, ListDeployments, DepWaitTick, SyncDeployment, objects
<1>9. ASSUME \/ \E c \in Deployments : ApplyDeployment(c)
             \/ \E p \in PodNames : RemovePod(p)
             \/ ServeLate
      PROVE  UNCHANGED replicasets
  BY <1>9, <1>l DEF ApplyDeployment, RemovePod, ServeLate
<1>10. ASSUME NEW k \in Managers,
              \/ ListFails(k)
              \/ Restart(k)
              \/ StopLeading(k)
              \/ \E c \in Deployments : SyncFails(k, c)
       PROVE  FALSE
  BY <1>l, <1>10 DEF ListFails, Restart, StopLeading, SyncFails
<1>11. CASE UNCHANGED vars BY <1>2, <1>11 DEF vars, objects
<1> QED BY <1>2, <1>3, <1>7, <1>8, <1>9, <1>10, <1>11 DEF Next

\* A rollout by one manager, no call of which fails, never leaves a Deployment
\* without replicas that users do not scale to 0 and whose sets they let alone.
THEOREM RolloutKeepsCapacity ==
  ASSUME 0 \notin UserReplicas, \A j, k \in Managers : j = k
  PROVE  Spec => CapacityKept
<1>1. Types /\ Planned /\ Raised /\ [Next]_vars =>
        [errors' = 0 => \A d \in Deployments \ touched' : Up(d) => Up(d)']_vars
  BY UpStep
<1> QED BY <1>1, TypesAlways, RaisedAlways, PTL DEF Spec, CapacityKept
=============================================================================
