------------------------- MODULE PodLifecycleProofs -------------------------
(***************************************************************************)
(* Proofs about PodLifecycle: the types, that with one scheduler a pod has *)
(* one home, and that kubelets clean up only after pods that are gone.     *)
(***************************************************************************)
EXTENDS PodLifecycle, TLAPS

-----------------------------------------------------------------------------
(***************************************************************************)
(* The inductive invariant.                                                *)
(***************************************************************************)
\* A name that was never used has no object and no home, and is in no list and
\* no call.
Unused ==
  \A p \in Pods : made[p] = 0 =>
    /\ pods[p] = Absent /\ homes[p] = {}
    /\ \A s \in Schedulers : p \notin unscheduled[s]
    /\ \A put \in late : put[2] # p

\* The node of a pod is one of its homes; a pod without a node had none, unless
\* its name was used before.
Bound ==
  \A p \in Pods : pods[p] # Absent =>
    IF pods[p].node = None THEN made[p] <= 1 => homes[p] = {}
                           ELSE pods[p].node \in homes[p]

\* A PUT in flight has a node, of the kubelet that left it or of a scheduler's
\* choice.
InFlight ==
  \A put \in late :
    /\ put[3].node \in Nodes
    /\ put[3].node \in homes[put[2]] \/ put[2] \in astray

\* A kubelet lists the pods of its own node,
Listed ==
  \A n \in Nodes, p \in Pods : mine[n][p] # Absent =>
    mine[n][p].node = n /\ n \in homes[p]

\* keeps the pod it works on,
Working ==
  \A n \in Nodes :
    /\ work[n].pod # None =>
         /\ kstage[n] = "loop"
         /\ mine[n][work[n].pod] \in PodObjects
         /\ mine[n][work[n].pod].node = n /\ n \in homes[work[n].pod]
    /\ work[n].restart # None => work[n].pod # None

\* and runs containers nowhere but at home.
Placed == \A n \in Nodes, slot \in Slots : Exists(n, slot) => n \in homes[slot[1]]

\* The only scheduler binds pods that have no home, unless it left a PUT of
\* the pod.
Homeless ==
  \A s \in Schedulers : \A p \in unscheduled[s] :
    made[p] <= 1 /\ p \notin astray => homes[p] = {}

Single == \A p \in Pods : made[p] <= 1 /\ p \notin astray => AtMostOne(homes[p])

HomesKept ==
  /\ Unused /\ Bound /\ InFlight /\ Listed /\ Working /\ Placed
  /\ AtMostOne(Schedulers) => Homeless /\ Single

Homes == TypeOK /\ HomesKept

-----------------------------------------------------------------------------
(***************************************************************************)
(* Type correctness.                                                       *)
(***************************************************************************)
\* What an action leaves alone keeps its type.
LEMMA SameObjects == ObjectsOK /\ UNCHANGED <<objects, history>> => ObjectsOK'
BY DEF ObjectsOK, objects, history

LEMMA SameScheduler == SchedulerOK /\ UNCHANGED scheduler => SchedulerOK'
BY DEF SchedulerOK, scheduler

LEMMA SameKubelet == KubeletOK /\ UNCHANGED kubelet => KubeletOK'
BY DEF KubeletOK, kubelet, pass

LEMMA SameEngine == EngineOK /\ UNCHANGED containers => EngineOK'
BY DEF EngineOK

\* A call is answered, or is the next of a bounded number of failures.
LEMMA BoundsKept ==
  BoundsOK /\ UNCHANGED changes /\ (Failure \/ UNCHANGED errors) => BoundsOK'
BY LifecycleAssumption DEF BoundsOK, Failure

LEMMA FreshType == \A n \in Nodes \cup {None} : Fresh(n) \in PodObjects
BY DEF Fresh, PodObjects

LEMMA NoWorkType ==
  NoWork \in [pod : Pods \cup {None}, left : SUBSET Containers,
              restart : Containers \cup {None}, phase : {"none", "Pending", "Running"}]
BY DEF NoWork

LEMMA StoreTypes ==
  ASSUME ObjectsOK, NEW p \in Pods, NEW pod \in PodObjects, Store(p, pod)
  PROVE  /\ pods' \in [Pods -> PodObjects \cup {Absent}]
         /\ homes' \in [Pods -> SUBSET Nodes]
<1>1. pod.node \in Nodes \cup {None} BY DEF PodObjects
<1> QED BY <1>1 DEF ObjectsOK, Store

LEMMA LeftTypes ==
  ASSUME TypeOK, NEW p \in Pods, NEW pod \in PodObjects, Left(p, pod)
  PROVE  late' \subseteq Nat \X Pods \X PodObjects
<1>1. errors \in Nat BY LifecycleAssumption DEF TypeOK, BoundsOK
<1> QED BY <1>1 DEF Left, TypeOK, ObjectsOK

LEMMA PutTypes ==
  ASSUME TypeOK, NEW p \in Pods, NEW pod \in PodObjects, Put(p, pod),
         UNCHANGED <<registered, made, changes>>, astray' \subseteq Pods
  PROVE  ObjectsOK' /\ BoundsOK'
<1>1. CASE Serve(p, pod) /\ UNCHANGED <<late, errors>>
  <2>1. ObjectsOK' BY <1>1, StoreTypes DEF TypeOK, ObjectsOK, Serve
  <2> QED BY <1>1, <2>1, BoundsKept DEF TypeOK
<1>2. CASE Failure /\ UNCHANGED <<pods, homes, late>>
  <2>1. ObjectsOK' BY <1>2 DEF TypeOK, ObjectsOK
  <2> QED BY <1>2, <2>1, BoundsKept DEF TypeOK
<1>3. CASE Left(p, pod)
  <2>1. ObjectsOK' BY <1>3, LeftTypes DEF TypeOK, ObjectsOK, Left
  <2> QED BY <1>3, <2>1, BoundsKept DEF TypeOK, Left
<1> QED BY <1>1, <1>2, <1>3 DEF Put

LEMMA ServeLateTypes == TypeOK /\ ServeLate => TypeOK'
<1> SUFFICES ASSUME TypeOK, ServeLate PROVE TypeOK' OBVIOUS
<1>1. PICK put \in late : Serve(put[2], put[3]) /\ late' = late \ {put}
  BY DEF ServeLate
<1>2. put[2] \in Pods /\ put[3] \in PodObjects BY DEF TypeOK, ObjectsOK
<1>3. ObjectsOK' BY <1>1, <1>2, StoreTypes DEF TypeOK, ObjectsOK, Serve, ServeLate
<1> QED BY <1>3, SameScheduler, SameKubelet, SameEngine, BoundsKept DEF TypeOK, ServeLate

LEMMA InitTypes == Init => TypeOK
<1> SUFFICES ASSUME Init PROVE TypeOK OBVIOUS
<1> USE LifecycleAssumption DEF Init
<1>1. ObjectsOK BY DEF ObjectsOK, NoPods
<1>2. SchedulerOK BY DEF SchedulerOK
<1>3. KubeletOK BY NoWorkType DEF KubeletOK, NoPods, NoContainers
<1>4. EngineOK BY DEF EngineOK, NoContainers
<1>5. BoundsOK BY DEF BoundsOK
<1> QED BY <1>1, <1>2, <1>3, <1>4, <1>5 DEF TypeOK

LEMMA UserStepTypes ==
  ASSUME TypeOK, NEW p \in Pods, CreatePod(p) \/ DeletePod(p)
  PROVE  TypeOK'
<1>1. SchedulerOK' /\ KubeletOK' /\ EngineOK' /\ BoundsOK'
  <2>1. Change BY DEF CreatePod, DeletePod
  <2>2. BoundsOK' BY <2>1, LifecycleAssumption DEF TypeOK, BoundsOK, Change
  <2> QED BY <2>1, <2>2, SameScheduler, SameKubelet, SameEngine DEF TypeOK, Change
<1>2. ObjectsOK'
  <2>1. CASE CreatePod(p)
    <3>1. PICK n \in Nodes \cup {None} : Store(p, Fresh(n)) BY <2>1 DEF CreatePod
    <3>2. made' \in [Pods -> Nat] BY <2>1 DEF TypeOK, ObjectsOK, CreatePod
    <3> QED BY <2>1, <3>1, <3>2, FreshType, StoreTypes
            DEF TypeOK, ObjectsOK, CreatePod, Change
  <2>2. CASE DeletePod(p)
    BY <2>2 DEF TypeOK, ObjectsOK, DeletePod, Change
  <2> QED BY <2>1, <2>2
<1> QED BY <1>1, <1>2 DEF TypeOK

LEMMA SchedulerStepTypes ==
  ASSUME TypeOK, NEW s \in Schedulers,
         SchedulerStep(s) \/ RoundFails(s) \/ \E p \in Pods : EndScheduler(s, p)
  PROVE  TypeOK'
<1>0. ASSUME EndRound(s) PROVE SchedulerOK' BY <1>0 DEF TypeOK, SchedulerOK, EndRound
<1>1. CASE ListPending(s)
  <2>1. SchedulerOK' BY <1>1 DEF TypeOK, SchedulerOK, ListPending, Pending
  <2> QED BY <1>1, <2>1, SameObjects, SameKubelet, SameEngine, BoundsKept
          DEF TypeOK, ListPending
<1>2. CASE ListNodes(s)
  <2>1. SchedulerOK' BY <1>0, <1>2 DEF TypeOK, SchedulerOK, ObjectsOK, ListNodes
  <2> QED BY <1>2, <2>1, SameObjects, SameKubelet, SameEngine, BoundsKept
          DEF TypeOK, ListNodes
<1>3. ASSUME NEW p \in Pods, Bind(s, p) PROVE TypeOK'
  <2>1. PICK n \in ready[s] : Put(p, Fresh(n)) BY <1>3 DEF Bind
  <2>2. n \in Nodes BY DEF TypeOK, SchedulerOK
  <2>3. astray' \subseteq Pods BY <1>3 DEF Bind, TypeOK, ObjectsOK
  <2>4. ObjectsOK' /\ BoundsOK' BY <1>3, <2>1, <2>2, <2>3, FreshType, PutTypes DEF Bind
  <2>5. SchedulerOK' BY <1>3 DEF TypeOK, SchedulerOK, Bind
  <2> QED BY <1>3, <2>4, <2>5, SameKubelet, SameEngine DEF TypeOK, Bind
<1>4. CASE WaitRound(s)
  BY <1>0, <1>4, SameObjects, SameKubelet, SameEngine, BoundsKept DEF TypeOK, WaitRound
<1>5. CASE RoundFails(s)
  BY <1>0, <1>5, SameObjects, SameKubelet, SameEngine, BoundsKept DEF TypeOK, RoundFails
<1>6. ASSUME NEW p \in Pods, EndScheduler(s, p) PROVE TypeOK'
  <2>1. PICK n \in ready[s] : Left(p, Fresh(n)) BY <1>6 DEF EndScheduler
  <2>2. n \in Nodes BY DEF TypeOK, SchedulerOK
  <2>3. Put(p, Fresh(n)) BY <2>1 DEF Put
  <2>4. astray' \subseteq Pods BY <1>6 DEF EndScheduler, TypeOK, ObjectsOK
  <2>5. ObjectsOK' /\ BoundsOK'
    BY <1>6, <2>2, <2>3, <2>4, FreshType, PutTypes DEF EndScheduler
  <2>6. SchedulerOK' BY <1>0, <1>6 DEF EndScheduler
  <2> QED BY <1>6, <2>5, <2>6, SameKubelet, SameEngine DEF TypeOK, EndScheduler
<1> QED BY <1>1, <1>2, <1>3, <1>4, <1>5, <1>6 DEF SchedulerStep

\* The engine of a node holds containers or nothing.
LEMMA PlaceTypes ==
  ASSUME EngineOK, NEW n \in Nodes, NEW slot \in Slots,
         NEW container \in [state : States, ip : IPs \cup {None}] \cup {Absent},
         Place(n, slot, container)
  PROVE  EngineOK'
BY DEF EngineOK, Place

LEMMA StoppedType == Stopped \in [state : States, ip : IPs \cup {None}]
BY DEF Stopped, States

LEMMA RunContainerTypes ==
  ASSUME TypeOK, NEW n \in Nodes, NEW slot \in Slots, RunContainer(n, slot)
  PROVE  EngineOK' /\ (Failure \/ UNCHANGED errors)
<1>1. UNCHANGED containers => EngineOK' BY SameEngine DEF TypeOK
<1>2. ASSUME NEW ip \in FreeIPs(n), Place(n, slot, [state |-> "running", ip |-> ip])
      PROVE  EngineOK'
  BY <1>2, PlaceTypes DEF TypeOK, FreeIPs, States
<1>3. Place(n, slot, Stopped) => EngineOK' BY PlaceTypes, StoppedType DEF TypeOK
<1> QED BY <1>1, <1>2, <1>3 DEF RunContainer, TypeOK

LEMMA StopContainerTypes ==
  ASSUME TypeOK, NEW n \in Nodes, NEW slot \in Slots, StopContainer(n, slot)
  PROVE  EngineOK' /\ (Failure \/ UNCHANGED errors)
<1>1. UNCHANGED containers => EngineOK' BY SameEngine DEF TypeOK
<1>2. Place(n, slot, Absent) => EngineOK' BY PlaceTypes DEF TypeOK
<1>3. Place(n, slot, Stopped) => EngineOK' BY PlaceTypes, StoppedType DEF TypeOK
<1> QED BY <1>1, <1>2, <1>3 DEF StopContainer, TypeOK

LEMMA ContainerFailsTypes ==
  ASSUME TypeOK, NEW n \in Nodes, NEW slot \in Slots, ContainerFails(n, slot)
  PROVE  TypeOK'
<1>1. Exists(n, slot) BY LifecycleAssumption DEF ContainerFails, AddressOf
<1>2. containers[n][slot] \in [state : States, ip : IPs \cup {None}]
  BY <1>1 DEF TypeOK, EngineOK, Exists
<1>3. [containers[n][slot] EXCEPT !.state = "failing"]
        \in [state : States, ip : IPs \cup {None}]
  BY <1>2 DEF States
<1>4. EngineOK' BY <1>3, PlaceTypes, StoppedType DEF TypeOK, ContainerFails
<1> QED BY <1>4, SameObjects, SameScheduler, SameKubelet, BoundsKept
        DEF TypeOK, ContainerFails

\* The pod a kubelet works on.
LEMMA WorkType ==
  ASSUME TypeOK, NEW n \in Nodes
  PROVE  /\ work[n].pod \in Pods \cup {None} /\ work[n].left \subseteq Containers
         /\ work[n].restart \in Containers \cup {None}
         /\ work[n].phase \in {"none", "Pending", "Running"}
BY DEF TypeOK, KubeletOK

LEMMA ForgetTypes ==
  ASSUME TypeOK, NEW n \in Nodes, NEW stage \in {"down", "idle"}, Forget(n, stage)
  PROVE  KubeletOK'
BY NoWorkType DEF TypeOK, KubeletOK, Forget, NoPods, NoContainers

LEMMA ListsTypes ==
  ASSUME TypeOK, NEW n \in Nodes,
         ListPods(n) \/ ListContainers(n) \/ \E p \in Pods : Reconcile(n, p)
  PROVE  TypeOK'
<1>1. CASE ListPods(n)
  <2>1. KubeletOK' BY <1>1 DEF TypeOK, KubeletOK, ObjectsOK, ListPods
  <2> QED BY <1>1, <2>1, SameObjects, SameScheduler, SameEngine, BoundsKept
          DEF TypeOK, ListPods
<1>2. CASE ListContainers(n)
  <2>1. \A slot \in Slots : Exists(n, slot) => containers[n][slot].state \in States
    BY DEF TypeOK, EngineOK, Exists
  <2>2. [slot \in Slots |-> IF Exists(n, slot) THEN containers[n][slot].state ELSE Absent]
          \in [Slots -> States \cup {Absent}]
    BY <2>1
  <2>3. found' \in [Nodes -> [Slots -> States \cup {Absent}]]
    BY <1>2, <2>2 DEF TypeOK, KubeletOK, ListContainers
  <2>4. extra' \in [Nodes -> SUBSET Slots]
    BY <1>2 DEF TypeOK, KubeletOK, ListContainers, Extra
  <2>5. KubeletOK' BY <1>2, <2>3, <2>4 DEF TypeOK, KubeletOK, ListContainers
  <2> QED BY <1>2, <2>5, SameObjects, SameScheduler, SameEngine, BoundsKept
          DEF TypeOK, ListContainers
<1>3. ASSUME NEW p \in Pods, Reconcile(n, p) PROVE TypeOK'
  <2>1. KubeletOK' BY <1>3 DEF TypeOK, KubeletOK, Reconcile
  <2> QED BY <1>3, <2>1, SameObjects, SameScheduler, SameEngine, BoundsKept
          DEF TypeOK, Reconcile
<1> QED BY <1>1, <1>2, <1>3

\* A container is to be restarted, or an address is probed.
LEMMA CheckCases ==
  ASSUME TypeOK, Working, NEW n \in Nodes, NEW c \in Containers, Check(n, c)
  PROVE  \/ UNCHANGED mine /\ work' = [work EXCEPT ![n].restart = c]
         \/ \E ip \in IPs \cup {None} : Probe(n, c, ip)
<1>1. work[n].pod \in Pods /\ mine[n][work[n].pod] \in PodObjects
  BY WorkType DEF Check, Current, Working
<1>2. mine[n][work[n].pod].ip \in IPs \cup {None} BY <1>1 DEF PodObjects
<1>3. AddressOf(n, <<work[n].pod, c>>) \in IPs \cup {None}
  BY <1>1 DEF AddressOf, Exists, TypeOK, EngineOK, Slots
<1> QED BY <1>2, <1>3 DEF Check

LEMMA ContainerStepTypes ==
  ASSUME TypeOK, Working, NEW n \in Nodes,
         \/ \E c \in Containers : RunMissing(n, c) \/ Check(n, c)
         \/ Restart(n)
         \/ \E slot \in Slots : CleanUp(n, slot)
  PROVE  TypeOK'
<1>1. ASSUME NEW c \in Containers, RunMissing(n, c) PROVE TypeOK'
  <2>1. work[n].pod \in Pods BY <1>1, WorkType DEF RunMissing, Current
  <2>2. <<work[n].pod, c>> \in Slots BY <2>1 DEF Slots
  <2>3. EngineOK' /\ (Failure \/ UNCHANGED errors)
    BY <1>1, <2>2, RunContainerTypes DEF RunMissing
  <2>4. KubeletOK' BY <1>1 DEF TypeOK, KubeletOK, RunMissing
  <2> QED BY <1>1, <2>3, <2>4, SameObjects, SameScheduler, BoundsKept
          DEF TypeOK, RunMissing
<1>2. ASSUME NEW c \in Containers, Check(n, c) PROVE TypeOK'
  <2>1. work[n].pod \in Pods BY <1>2, WorkType DEF Check, Current
  <2>2. Failure \/ UNCHANGED errors BY <1>2 DEF Check
  <2>3. mine[n][work[n].pod] \in PodObjects BY <2>1, LifecycleAssumption DEF Working
  <2>4. CASE work' = [work EXCEPT ![n].restart = c] /\ UNCHANGED mine
    <3>1. KubeletOK' BY <1>2, <2>4 DEF TypeOK, KubeletOK, Check
    <3> QED BY <1>2, <2>2, <3>1, SameObjects, SameScheduler, SameEngine, BoundsKept
            DEF TypeOK, Check
  <2>5. ASSUME NEW ip \in IPs \cup {None}, Probe(n, c, ip) PROVE TypeOK'
    <3>1. [mine[n][work[n].pod] EXCEPT !.ip = ip] \in PodObjects
      BY <2>3, <2>5 DEF PodObjects
    <3>2. mine' \in [Nodes -> [Pods -> PodObjects \cup {Absent}]]
      BY <2>1, <2>5, <3>1 DEF TypeOK, KubeletOK, Probe
    <3>3. work' \in [Nodes -> [pod : Pods \cup {None}, left : SUBSET Containers,
                               restart : Containers \cup {None},
                               phase : {"none", "Pending", "Running"}]]
      BY <2>5 DEF TypeOK, KubeletOK, Probe
    <3>4. KubeletOK' BY <1>2, <3>2, <3>3 DEF TypeOK, KubeletOK, Check
    <3> QED BY <1>2, <2>2, <3>4, SameObjects, SameScheduler, SameEngine, BoundsKept
            DEF TypeOK, Check
  <2> QED BY <1>2, <2>4, <2>5, CheckCases
<1>3. CASE Restart(n)
  <2>1. <<work[n].pod, work[n].restart>> \in Slots
    <3>1. work[n].restart \in Containers BY <1>3, WorkType DEF Restart
    <3>2. work[n].pod # None BY <1>3 DEF Restart, Working
    <3>3. work[n].pod \in Pods BY <3>2, WorkType
    <3> QED BY <3>1, <3>3 DEF Slots
  <2>2. EngineOK' /\ (Failure \/ UNCHANGED errors)
    BY <1>3, <2>1, StopContainerTypes DEF Restart
  <2>3. found' \in [Nodes -> [Slots -> States \cup {Absent}]]
    BY <1>3, <2>1 DEF TypeOK, KubeletOK, Restart
  <2>4. KubeletOK'
    <3>1. work' = [work EXCEPT ![n].restart = None] /\ UNCHANGED <<kstage, mine, extra>>
      BY <1>3 DEF Restart
    <3> QED BY <2>3, <3>1 DEF TypeOK, KubeletOK
  <2> QED BY <1>3, <2>2, <2>4, SameObjects, SameScheduler, BoundsKept
          DEF TypeOK, Restart
<1>4. ASSUME NEW slot \in Slots, CleanUp(n, slot) PROVE TypeOK'
  <2>1. EngineOK' /\ (Failure \/ UNCHANGED errors)
    BY <1>4, StopContainerTypes DEF CleanUp
  <2>2. KubeletOK' BY <1>4 DEF TypeOK, KubeletOK, CleanUp
  <2> QED BY <1>4, <2>1, <2>2, SameObjects, SameScheduler, BoundsKept
          DEF TypeOK, CleanUp
<1> QED BY <1>1, <1>2, <1>3, <1>4

\* What a kubelet writes back is bound to its node.
LEMMA ReportedType ==
  ASSUME TypeOK, Working, NEW n \in Nodes, Checked(n)
  PROVE  /\ work[n].pod \in Pods /\ n \in homes[work[n].pod]
         /\ Reported(n) \in PodObjects /\ Reported(n).node = n
<1>1. /\ work[n].pod \in Pods /\ n \in homes[work[n].pod]
      /\ mine[n][work[n].pod] \in PodObjects /\ mine[n][work[n].pod].node = n
  BY WorkType DEF Checked, Working
<1> QED BY <1>1, WorkType DEF Reported, PodObjects

LEMMA ReportTypes ==
  ASSUME TypeOK, Working, NEW n \in Nodes, Report(n)
  PROVE  TypeOK'
<1>1. work[n].pod \in Pods /\ Reported(n) \in PodObjects BY ReportedType DEF Report
<1>2. KubeletOK' BY <1>1, NoWorkType DEF TypeOK, KubeletOK, Report
<1>3. astray' \subseteq Pods BY DEF Report, TypeOK, ObjectsOK
<1>4. ObjectsOK' /\ BoundsOK'
  <2>1. CASE UNCHANGED <<pods, late, homes, errors>>
    BY <2>1, SameObjects, BoundsKept DEF TypeOK, Report, objects, history
  <2>2. CASE Put(work[n].pod, Reported(n)) BY <1>1, <1>3, <2>2, PutTypes DEF Report
  <2> QED BY <2>1, <2>2 DEF Report
<1> QED BY <1>2, <1>4, SameScheduler, SameEngine DEF TypeOK, Report

LEMMA KubeletStepTypes ==
  ASSUME TypeOK, Working, NEW n \in Nodes,
         KubeletStep(n) \/ StartKubelet(n) \/ ListFails(n) \/ EndKubelet(n)
  PROVE  TypeOK'
<1>1. CASE StartKubelet(n)
  <2>1. ObjectsOK' BY <1>1 DEF TypeOK, ObjectsOK, StartKubelet, history
  <2>2. KubeletOK' BY <1>1 DEF TypeOK, KubeletOK, StartKubelet, pass
  <2> QED BY <1>1, <2>1, <2>2, SameScheduler, SameEngine, BoundsKept
          DEF TypeOK, StartKubelet
<1>2. CASE WaitTick(n)
  BY <1>2, ForgetTypes, SameObjects, SameScheduler, SameEngine, BoundsKept
     DEF TypeOK, WaitTick
<1>3. CASE ListFails(n)
  BY <1>3, ForgetTypes, SameObjects, SameScheduler, SameEngine, BoundsKept
     DEF TypeOK, ListFails
<1>4. CASE EndKubelet(n)
  <2>1. KubeletOK' BY <1>4, ForgetTypes DEF EndKubelet
  <2>2. ObjectsOK' /\ BoundsOK'
    <3>1. CASE Failure /\ UNCHANGED <<pods, late, homes>>
      BY <1>4, <3>1, SameObjects, BoundsKept DEF TypeOK, EndKubelet, objects, history
    <3>2. CASE Checked(n) /\ Left(work[n].pod, Reported(n))
      <4>1. Put(work[n].pod, Reported(n)) BY <3>2 DEF Put
      <4>2. astray' \subseteq Pods BY <1>4 DEF EndKubelet, TypeOK, ObjectsOK
      <4> QED BY <1>4, <3>2, <4>1, <4>2, ReportedType, PutTypes DEF EndKubelet
    <3> QED BY <1>4, <3>1, <3>2 DEF EndKubelet
  <2> QED BY <1>4, <2>1, <2>2, SameScheduler, SameEngine DEF TypeOK, EndKubelet
<1> QED BY <1>1, <1>2, <1>3, <1>4, ListsTypes, ContainerStepTypes, ReportTypes
        DEF KubeletStep

LEMMA NextTypes == TypeOK /\ Working /\ [Next]_vars => TypeOK'
<1> SUFFICES ASSUME TypeOK, Working, [Next]_vars PROVE TypeOK' OBVIOUS
<1>1. CASE UNCHANGED vars
  BY <1>1, SameObjects, SameScheduler, SameKubelet, SameEngine, BoundsKept
     DEF TypeOK, vars
<1>2. CASE Next
  BY <1>2, UserStepTypes, SchedulerStepTypes, KubeletStepTypes, ContainerFailsTypes,
     ServeLateTypes
  DEF Next
<1> QED BY <1>1, <1>2

-----------------------------------------------------------------------------
(***************************************************************************)
(* A pod is written by users, who use its name once, by a scheduler that   *)
(* listed it without a node, and by kubelets of its homes.                 *)
(***************************************************************************)
LEMMA InitHomes == Init => Homes
<1> SUFFICES ASSUME Init PROVE Homes OBVIOUS
<1> USE DEF Init
<1>1. Unused BY DEF Unused, NoPods
<1>2. Bound BY DEF Bound, NoPods
<1>3. Listed BY DEF Listed, NoPods
<1>4. Working BY DEF Working, NoWork
<1>5. Placed BY DEF Placed, Exists, NoContainers
<1>6. InFlight BY DEF InFlight
<1>7. Homeless /\ Single BY DEF Homeless, Single, AtMostOne
<1> QED BY <1>1, <1>2, <1>3, <1>4, <1>5, <1>6, <1>7, InitTypes DEF Homes, HomesKept

\* What the kubelets know and run stays at home.
LEMMA SameKubelets ==
  ASSUME Homes, UNCHANGED <<mine, work, containers>>,
         \A n \in Nodes : kstage[n] = "loop" => kstage'[n] = "loop",
         \A p \in Pods : homes[p] \subseteq homes'[p]
  PROVE  Listed' /\ Working' /\ Placed'
<1> USE DEF Homes, HomesKept
<1>1. Listed' BY DEF Listed
<1>2. Working' BY WorkType, LifecycleAssumption DEF Working
<1>3. Placed'
  <2> SUFFICES ASSUME NEW n \in Nodes, NEW slot \in Slots, Exists(n, slot)
               PROVE  n \in homes'[slot[1]]
    BY DEF Placed, Exists
  <2>1. slot[1] \in Pods BY DEF Slots
  <2> QED BY <2>1 DEF Placed
<1> QED BY <1>1, <1>2, <1>3

\* No object, list of a scheduler or home changes.
LEMMA SameBindings ==
  ASSUME Homes, UNCHANGED <<pods, late, unscheduled, made, homes, astray>>
  PROVE  Unused' /\ Bound' /\ InFlight' /\ (AtMostOne(Schedulers) => Homeless' /\ Single')
BY DEF Homes, HomesKept, Unused, Bound, InFlight, Homeless, Single, AtMostOne

\* The calls in flight, where none is added.
LEMMA SameInFlight ==
  ASSUME Homes, late' \subseteq late, astray \subseteq astray',
         \A p \in Pods : homes[p] \subseteq homes'[p]
  PROVE  InFlight'
<1> SUFFICES ASSUME NEW put \in late
             PROVE  /\ put[3].node \in Nodes
                    /\ put[3].node \in homes'[put[2]] \/ put[2] \in astray'
  BY DEF InFlight
<1>1. put[2] \in Pods BY DEF Homes, TypeOK, ObjectsOK
<1> QED BY <1>1 DEF Homes, HomesKept, InFlight

\* What a PUT does to the homes when it is served, and when it is not.
LEMMA ServeHomes ==
  ASSUME Homes, NEW p \in Pods, NEW pod \in PodObjects, pod.node \in Nodes,
         Serve(p, pod) \/ UNCHANGED <<pods, homes>>, UNCHANGED made
  PROVE  /\ Bound'
         /\ \A q \in Pods : made[q] = 0 => pods'[q] = Absent /\ homes'[q] = {}
         /\ \A q \in Pods : homes[q] \subseteq homes'[q]
         /\ \A q \in Pods \ {p} : homes'[q] = homes[q]
         /\ homes'[p] = homes[p] \/ homes'[p] = homes[p] \cup {pod.node}
<1> USE DEF Homes, HomesKept
<1>1. CASE UNCHANGED <<pods, homes>> BY <1>1 DEF Bound, Unused
<1>2. CASE pods[p] # Absent /\ Store(p, pod)
  <2>1. pod.node # None BY LifecycleAssumption
  <2>2. pods' = [pods EXCEPT ![p] = pod]
        /\ homes' = [homes EXCEPT ![p] = homes[p] \cup {pod.node}]
    BY <1>2, <2>1 DEF Store
  <2>3. pods'[p] = pod /\ homes'[p] = homes[p] \cup {pod.node}
        /\ \A q \in Pods \ {p} : pods'[q] = pods[q] /\ homes'[q] = homes[q]
    BY <2>2 DEF TypeOK, ObjectsOK
  <2>4. Bound' BY <2>1, <2>3 DEF Bound
  <2>5. \A q \in Pods : made[q] = 0 => pods'[q] = Absent /\ homes'[q] = {}
    BY <1>2, <2>3 DEF Unused
  <2> QED BY <2>3, <2>4, <2>5
<1> QED BY <1>1, <1>2 DEF Serve

\* A PUT is served, or not, or is in flight.
LEMMA PutCases ==
  ASSUME NEW p, NEW pod, Put(p, pod)
  PROVE  /\ Serve(p, pod) \/ UNCHANGED <<pods, homes>>
         /\ late' = late \/ late' = late \cup {<<errors, p, pod>>}
BY DEF Put, Left

LEMMA UserStepHomes ==
  ASSUME Homes, NEW p \in Pods, CreatePod(p) \/ DeletePod(p)
  PROVE  HomesKept'
<1> USE DEF Homes, HomesKept
<1>0. UNCHANGED <<late, astray, unscheduled, kstage, mine, work, containers>>
  BY DEF CreatePod, DeletePod, Change, scheduler, kubelet, pass
<1>1. CASE DeletePod(p)
  <2>1. UNCHANGED <<made, homes>> /\ pods' = [pods EXCEPT ![p] = Absent]
    BY <1>1 DEF DeletePod
  <2>2. Listed' /\ Working' /\ Placed' BY <1>0, <2>1, SameKubelets
  <2>3. Unused' /\ Bound' BY <1>0, <2>1 DEF Unused, Bound, TypeOK, ObjectsOK
  <2>4. InFlight' BY <1>0, <2>1, SameInFlight
  <2>5. AtMostOne(Schedulers) => Homeless' /\ Single'
    BY <1>0, <2>1 DEF Homeless, Single, AtMostOne
  <2> QED BY <2>2, <2>3, <2>4, <2>5
<1>2. CASE CreatePod(p)
  <2>1. PICK n \in Nodes \cup {None} : Store(p, Fresh(n)) BY <1>2 DEF CreatePod
  <2>2. /\ pods'[p] = Fresh(n) /\ homes'[p] = homes[p] \cup ({n} \ {None})
        /\ made[p] \in Nat /\ made'[p] = made[p] + 1
        /\ \A q \in Pods \ {p} :
             pods'[q] = pods[q] /\ homes'[q] = homes[q] /\ made'[q] = made[q]
    BY <1>2, <2>1 DEF CreatePod, Store, Fresh, TypeOK, ObjectsOK
  <2>3. Fresh(n).node = n BY DEF Fresh
  <2>4. made'[p] # 0 /\ (made'[p] <= 1 => made[p] = 0) BY <2>2
  <2>5. Unused' BY <1>0, <2>2, <2>4 DEF Unused
  <2>6. Bound'
    <3>1. CASE n = None BY <2>2, <2>3, <2>4, <3>1 DEF Bound, Unused
    <3>2. CASE n # None BY <2>2, <2>3, <3>2 DEF Bound
    <3> QED BY <3>1, <3>2
  <2>7. Listed' /\ Working' /\ Placed' /\ InFlight'
    <3>1. \A q \in Pods : homes[q] \subseteq homes'[q] BY <2>2
    <3> QED BY <1>0, <3>1, SameKubelets, SameInFlight
  <2>8. ASSUME AtMostOne(Schedulers) PROVE Homeless'
    <3> SUFFICES ASSUME NEW s \in Schedulers, NEW q \in unscheduled[s], made'[q] <= 1,
                        q \notin astray
                 PROVE  homes'[q] = {}
      BY <1>0 DEF Homeless
    <3>1. q \in Pods BY DEF TypeOK, SchedulerOK
    <3>2. q # p BY <2>4 DEF Unused
    <3> QED BY <2>2, <2>8, <3>1, <3>2 DEF Homeless
  <2>9. ASSUME AtMostOne(Schedulers) PROVE Single'
    <3> SUFFICES ASSUME NEW q \in Pods, made'[q] <= 1, q \notin astray
                 PROVE  AtMostOne(homes'[q])
      BY <1>0 DEF Single, AtMostOne
    <3>1. CASE q = p
      <4>1. homes[p] = {} BY <2>4, <3>1 DEF Unused
      <4> QED BY <2>2, <3>1, <4>1 DEF AtMostOne
    <3>2. CASE q # p BY <2>2, <2>9, <3>2 DEF Single
    <3> QED BY <3>1, <3>2
  <2> QED BY <2>5, <2>6, <2>7, <2>8, <2>9
<1> QED BY <1>1, <1>2

LEMMA SchedulerStepHomes ==
  ASSUME Homes, NEW s \in Schedulers,
         SchedulerStep(s) \/ RoundFails(s) \/ \E p \in Pods : EndScheduler(s, p)
  PROVE  HomesKept'
<1> USE DEF Homes, HomesKept
<1>0. UNCHANGED <<made, kstage, mine, work, containers>>
  BY DEF SchedulerStep, ListPending, ListNodes, WaitRound, Bind, RoundFails, EndScheduler,
         kubelet, pass, history
<1>1. ASSUME UNCHANGED <<pods, late, homes, astray>>,
             \A t \in Schedulers : \A p \in unscheduled'[t] :
               p \in unscheduled[t] \/ p \in Pending
      PROVE  HomesKept'
  <2>1. Listed' /\ Working' /\ Placed' BY <1>0, <1>1, SameKubelets
  <2>2. Unused' /\ Bound' BY <1>0, <1>1 DEF Unused, Bound, Pending
  <2>3. InFlight' BY <1>1, SameInFlight
  <2>4. Homeless => Homeless' BY <1>0, <1>1 DEF Homeless, Bound, Pending
  <2>5. Single => Single' BY <1>0, <1>1 DEF Single, AtMostOne
  <2> QED BY <2>1, <2>2, <2>3, <2>4, <2>5 DEF AtMostOne
<1>2. CASE ListPending(s)
  BY <1>1, <1>2 DEF ListPending, objects, history, TypeOK, SchedulerOK
<1>3. EndRound(s) => \A t \in Schedulers : unscheduled'[t] \subseteq unscheduled[t]
  BY DEF EndRound, TypeOK, SchedulerOK
<1>4. CASE ListNodes(s)
  BY <1>1, <1>3, <1>4 DEF ListNodes, objects, history
<1>5. CASE WaitRound(s) BY <1>1, <1>3, <1>5 DEF WaitRound, objects, history
<1>6. CASE RoundFails(s) BY <1>1, <1>3, <1>6 DEF RoundFails, objects, history
<1>7. ASSUME NEW p \in unscheduled[s], NEW n \in ready[s], Put(p, Fresh(n)),
             \A t \in Schedulers : unscheduled'[t] \subseteq unscheduled[t],
             p \notin unscheduled'[s],
             astray \subseteq astray', late' = late \/ p \in astray'
      PROVE  HomesKept'
  <2>0. p \in Pods BY DEF TypeOK, SchedulerOK
  <2>1. n \in Nodes /\ Fresh(n) \in PodObjects /\ Fresh(n).node = n
    BY FreshType DEF TypeOK, SchedulerOK, Fresh
  <2>2. /\ Serve(p, Fresh(n)) \/ UNCHANGED <<pods, homes>>
        /\ late' = late \/ late' = late \cup {<<errors, p, Fresh(n)>>}
    BY <1>7, PutCases
  <2>3. /\ Bound'
        /\ \A q \in Pods : made[q] = 0 => pods'[q] = Absent /\ homes'[q] = {}
        /\ \A q \in Pods : homes[q] \subseteq homes'[q]
        /\ \A q \in Pods \ {p} : homes'[q] = homes[q]
        /\ homes'[p] = homes[p] \/ homes'[p] = homes[p] \cup {n}
    BY <1>0, <2>0, <2>1, <2>2, ServeHomes
  <2>4. Unused'
    <3>1. made[p] # 0 BY <2>0 DEF Unused
    <3> QED BY <1>0, <1>7, <2>2, <2>3, <3>1 DEF Unused
  <2>5. InFlight'
    <3>1. CASE late' = late BY <1>7, <2>3, <3>1, SameInFlight
    <3>2. CASE late' = late \cup {<<errors, p, Fresh(n)>>} /\ p \in astray'
      <4> SUFFICES ASSUME NEW put \in late'
                   PROVE  /\ put[3].node \in Nodes
                          /\ put[3].node \in homes'[put[2]] \/ put[2] \in astray'
        BY DEF InFlight
      <4>1. CASE put \in late
        <5>1. put[2] \in Pods BY <4>1 DEF TypeOK, ObjectsOK
        <5> QED BY <1>7, <2>3, <4>1, <5>1 DEF InFlight
      <4>2. CASE put = <<errors, p, Fresh(n)>> BY <2>1, <3>2, <4>2
      <4> QED BY <3>2, <4>1, <4>2
    <3> QED BY <1>7, <2>2, <3>1, <3>2
  <2>6. Listed' /\ Working' /\ Placed' BY <1>0, <2>3, SameKubelets
  <2>7. ASSUME AtMostOne(Schedulers) PROVE Homeless'
    <3> SUFFICES ASSUME NEW t \in Schedulers, NEW q \in unscheduled'[t], made[q] <= 1,
                        q \notin astray'
                 PROVE  homes'[q] = {}
      BY <1>0 DEF Homeless
    <3>1. t = s BY <2>7 DEF AtMostOne
    <3>2. q \in unscheduled[s] /\ q # p BY <1>7, <3>1
    <3>3. q \in Pods BY <3>2 DEF TypeOK, SchedulerOK
    <3> QED BY <1>7, <2>3, <2>7, <3>2, <3>3 DEF Homeless
  <2>8. ASSUME AtMostOne(Schedulers) PROVE Single'
    <3> SUFFICES ASSUME NEW q \in Pods, made[q] <= 1, q \notin astray'
                 PROVE  AtMostOne(homes'[q])
      BY <1>0 DEF Single, AtMostOne
    <3>1. CASE q = p
      <4>1. homes[p] = {} BY <1>7, <2>8, <3>1 DEF Homeless
      <4> QED BY <2>3, <3>1, <4>1 DEF AtMostOne
    <3>2. CASE q # p BY <1>7, <2>3, <2>8, <3>2 DEF Single
    <3> QED BY <3>1, <3>2
  <2> QED BY <2>3, <2>4, <2>5, <2>6, <2>7, <2>8
<1>8. ASSUME NEW p \in Pods, Bind(s, p) PROVE HomesKept'
  <2>1. PICK n \in ready[s] : Put(p, Fresh(n)) BY <1>8 DEF Bind
  <2>2. p \in unscheduled[s] /\ unscheduled' = [unscheduled EXCEPT ![s] = @ \ {p}]
    BY <1>8 DEF Bind
  <2>3. /\ \A t \in Schedulers : unscheduled'[t] \subseteq unscheduled[t]
        /\ p \notin unscheduled'[s]
    BY <2>2 DEF TypeOK, SchedulerOK
  <2>4. astray \subseteq astray' /\ (late' = late \/ p \in astray') BY <1>8 DEF Bind
  <2> QED BY <1>7, <2>1, <2>2, <2>3, <2>4
<1>9. ASSUME NEW p \in Pods, EndScheduler(s, p) PROVE HomesKept'
  <2>1. PICK n \in ready[s] : Left(p, Fresh(n)) BY <1>9 DEF EndScheduler
  <2>2. Put(p, Fresh(n)) BY <2>1 DEF Put
  <2>3. p \in unscheduled[s] /\ p \notin unscheduled'[s]
    BY <1>9 DEF EndScheduler, EndRound, TypeOK, SchedulerOK
  <2>4. astray \subseteq astray' /\ p \in astray' BY <1>9 DEF EndScheduler
  <2>5. \A t \in Schedulers : unscheduled'[t] \subseteq unscheduled[t]
    BY <1>3, <1>9 DEF EndScheduler
  <2> QED BY <1>7, <2>2, <2>3, <2>4, <2>5
<1> QED BY <1>2, <1>4, <1>5, <1>6, <1>8, <1>9 DEF SchedulerStep

LEMMA ForgetHomes ==
  ASSUME Homes, NEW n \in Nodes, NEW stage \in {"down", "idle"}, Forget(n, stage),
         \A p \in Pods : homes[p] \subseteq homes'[p]
  PROVE  Listed' /\ Working'
<1> USE DEF Homes, HomesKept
<1>1. /\ mine'[n] = NoPods /\ work'[n] = NoWork
      /\ \A k \in Nodes \ {n} :
           mine'[k] = mine[k] /\ work'[k] = work[k] /\ kstage'[k] = kstage[k]
  BY DEF Forget, TypeOK, KubeletOK
<1>2. Listed' BY <1>1 DEF Listed, NoPods
<1>3. Working' BY <1>1, WorkType DEF Working, NoWork
<1> QED BY <1>2, <1>3

LEMMA ListsHomes ==
  ASSUME Homes, NEW n \in Nodes,
         \/ ListPods(n) \/ ListContainers(n) \/ StartKubelet(n)
         \/ \E p \in Pods : Reconcile(n, p)
         \/ /\ \E stage \in {"down", "idle"} : Forget(n, stage)
            /\ UNCHANGED <<objects, scheduler, containers, history>>
  PROVE  HomesKept'
<1> USE DEF Homes, HomesKept
<1>1. UNCHANGED <<pods, late, unscheduled, made, homes, astray, containers>>
  BY DEF ListPods, ListContainers, StartKubelet, Reconcile, objects, scheduler, history
<1>2. Unused' /\ Bound' /\ InFlight' /\ (AtMostOne(Schedulers) => Homeless' /\ Single')
  BY <1>1, SameBindings
<1>3. Placed' BY <1>1 DEF Placed, Exists
<1>4. Listed' /\ Working'
  <2>1. CASE ListPods(n)
    <3>1. Listed'
      BY <1>1, <2>1, LifecycleAssumption
         DEF ListPods, Listed, Bound, TypeOK, KubeletOK, ObjectsOK
    <3>2. UNCHANGED work /\ kstage[n] = "idle" /\ kstage' = [kstage EXCEPT ![n] = "pods"]
          /\ \A k \in Nodes \ {n} : mine'[k] = mine[k]
      BY <2>1 DEF ListPods, TypeOK, KubeletOK
    <3>3. Working' BY <1>1, <3>2 DEF Working, TypeOK, KubeletOK
    <3> QED BY <3>1, <3>3
  <2>2. CASE ListContainers(n) \/ StartKubelet(n)
    <3>1. UNCHANGED <<mine, work>>
          /\ \A k \in Nodes : kstage[k] = "loop" => kstage'[k] = "loop"
      BY <2>2 DEF ListContainers, StartKubelet, pass, TypeOK, KubeletOK
    <3> QED BY <1>1, <3>1, SameKubelets
  <2>3. ASSUME NEW p \in Pods, Reconcile(n, p) PROVE Listed' /\ Working'
    <3>1. UNCHANGED <<mine, kstage>> /\ kstage[n] = "loop" /\ mine[n][p] # Absent
      BY <2>3 DEF Reconcile
    <3>2. mine[n][p] \in PodObjects /\ mine[n][p].node = n /\ n \in homes[p]
      BY <3>1 DEF Listed, TypeOK, KubeletOK
    <3>3. work'[n].pod = p /\ work'[n].restart = None
          /\ \A k \in Nodes \ {n} : work'[k] = work[k]
      BY <2>3 DEF Reconcile, TypeOK, KubeletOK
    <3>4. Listed' BY <1>1, <3>1 DEF Listed
    <3>5. Working' BY <1>1, <3>1, <3>2, <3>3, LifecycleAssumption DEF Working
    <3> QED BY <3>4, <3>5
  <2>4. ASSUME NEW stage \in {"down", "idle"}, Forget(n, stage) PROVE Listed' /\ Working'
    BY <1>1, <2>4, ForgetHomes
  <2> QED BY <2>1, <2>2, <2>3, <2>4
<1> QED BY <1>2, <1>3, <1>4

LEMMA PlaceHome ==
  ASSUME Homes, NEW n \in Nodes, NEW slot \in Slots, NEW container, UNCHANGED homes,
         Place(n, slot, container), container = Absent \/ n \in homes[slot[1]]
  PROVE  Placed'
BY DEF Homes, HomesKept, Place, Placed, Exists, TypeOK, EngineOK

LEMMA StopContainerHome ==
  ASSUME Homes, NEW n \in Nodes, NEW slot \in Slots, UNCHANGED homes,
         StopContainer(n, slot) \/ ContainerFails(n, slot)
  PROVE  Placed'
<1>1. UNCHANGED containers => Placed' BY DEF Homes, HomesKept, Placed, Exists
<1>2. Place(n, slot, Absent) => Placed' BY PlaceHome
<1>3. Exists(n, slot) => n \in homes[slot[1]] BY DEF Homes, HomesKept, Placed
<1>4. ASSUME NEW container, Exists(n, slot), Place(n, slot, container) PROVE Placed'
  BY <1>3, <1>4, PlaceHome
<1>5. ContainerFails(n, slot) => Exists(n, slot)
  BY DEF ContainerFails, AddressOf
<1> QED BY <1>1, <1>2, <1>4, <1>5 DEF StopContainer, ContainerFails

\* A step on the containers of the pod a kubelet works on, or on no pod's.
LEMMA ContainerStepHomes ==
  ASSUME Homes, NEW n \in Nodes,
         \/ \E c \in Containers : RunMissing(n, c) \/ Check(n, c)
         \/ Restart(n)
         \/ \E slot \in Slots : CleanUp(n, slot) \/ ContainerFails(n, slot)
  PROVE  HomesKept'
<1> USE DEF Homes, HomesKept
<1>1. UNCHANGED <<pods, late, unscheduled, made, homes, astray, kstage>>
  BY DEF RunMissing, Check, Restart, CleanUp, ContainerFails, objects, scheduler,
         kubelet, history
<1>2. Unused' /\ Bound' /\ InFlight' /\ (AtMostOne(Schedulers) => Homeless' /\ Single')
  BY <1>1, SameBindings
<1>3. ASSUME UNCHANGED mine,
             \A k \in Nodes : /\ work'[k].pod = work[k].pod
                              /\ work'[k].restart # None => work'[k].pod # None
      PROVE  Listed' /\ Working'
  <2>1. Listed' BY <1>1, <1>3 DEF Listed
  <2>2. Working' BY <1>1, <1>3 DEF Working
  <2> QED BY <2>1, <2>2
<1>4. ASSUME NEW c \in Containers, RunMissing(n, c) PROVE HomesKept'
  <2> DEFINE slot == <<work[n].pod, c>>
  <2>1. work[n].pod # None /\ work[n].restart = None BY <1>4 DEF RunMissing, Current
  <2>2. slot \in Slots /\ n \in homes[slot[1]] BY <2>1, WorkType DEF Working, Slots
  <2>3. Placed'
    <3>1. UNCHANGED containers => Placed' BY <1>1 DEF Placed, Exists
    <3>2. ASSUME NEW container, Place(n, slot, container) PROVE Placed'
      BY <1>1, <2>2, <3>2, PlaceHome
    <3> QED BY <1>4, <3>1, <3>2 DEF RunMissing, RunContainer
  <2>4. Listed' /\ Working'
    <3>1. UNCHANGED mine /\ work' = [work EXCEPT ![n].left = @ \ {c}]
      BY <1>4 DEF RunMissing
    <3>2. \A k \in Nodes : /\ work'[k].pod = work[k].pod
                           /\ work'[k].restart = work[k].restart
      BY <3>1 DEF TypeOK, KubeletOK
    <3> QED BY <1>3, <3>1, <3>2 DEF Working
  <2> QED BY <1>2, <2>3, <2>4
<1>5. ASSUME NEW c \in Containers, Check(n, c) PROVE HomesKept'
  <2>1. work[n].pod # None /\ UNCHANGED containers BY <1>5 DEF Check, Current
  <2>2. Placed' BY <1>1, <2>1 DEF Placed, Exists
  <2>3. ASSUME work' = [work EXCEPT ![n].restart = c] \/ work' = [work EXCEPT ![n].left = @ \ {c}]
        PROVE  \A k \in Nodes : /\ work'[k].pod = work[k].pod
                                /\ work'[k].restart # None => work'[k].pod # None
    <3>1. \A k \in Nodes : work'[k].pod = work[k].pod
      <4>1. CASE work' = [work EXCEPT ![n].restart = c]
        BY <4>1 DEF TypeOK, KubeletOK
      <4>2. CASE work' = [work EXCEPT ![n].left = @ \ {c}]
        BY <4>2 DEF TypeOK, KubeletOK
      <4> QED BY <2>3, <4>1, <4>2
    <3>2. \A k \in Nodes : k # n => work'[k] = work[k] BY <2>3 DEF TypeOK, KubeletOK
    <3> QED BY <2>1, <3>1, <3>2 DEF Working
  <2>4. ASSUME UNCHANGED mine, work' = [work EXCEPT ![n].restart = c]
        PROVE  Listed' /\ Working'
    BY <1>3, <2>3, <2>4
  <2>5. ASSUME NEW ip \in IPs \cup {None}, Probe(n, c, ip) PROVE Listed' /\ Working'
    <3> DEFINE p == work[n].pod
    <3>1. p \in Pods /\ mine[n][p] \in PodObjects BY <2>1, WorkType DEF Working
    <3>2. mine' = [mine EXCEPT ![n][p].ip = ip] BY <2>5 DEF Probe
    <3>3. \A k \in Nodes : /\ work'[k].pod = work[k].pod
                           /\ work'[k].restart # None => work'[k].pod # None
      BY <2>3, <2>5 DEF Probe
    <3>4. mine'[n][p].node = n /\ n \in homes[p]
      BY <2>1, <3>1, <3>2 DEF Working, PodObjects, TypeOK, KubeletOK
    <3>5. \A k \in Nodes, q \in Pods : k # n \/ q # p => mine'[k][q] = mine[k][q]
      BY <3>1, <3>2 DEF TypeOK, KubeletOK
    <3>6. Listed' BY <1>1, <3>4, <3>5 DEF Listed
    <3>7. mine'[n][p] \in PodObjects
      <4>1. mine'[n][p] = [mine[n][p] EXCEPT !.ip = ip]
        BY <3>1, <3>2 DEF TypeOK, KubeletOK
      <4> QED BY <3>1, <4>1 DEF PodObjects
    <3>8. Working' BY <1>1, <3>3, <3>4, <3>5, <3>7, WorkType DEF Working
    <3> QED BY <3>6, <3>8
  <2>6. Listed' /\ Working' BY <1>5, <2>4, <2>5, CheckCases
  <2> QED BY <1>2, <2>2, <2>6
<1>6. CASE Restart(n)
  <2>1. work[n].restart # None /\ work[n].pod # None BY <1>6 DEF Restart, Working
  <2>2. <<work[n].pod, work[n].restart>> \in Slots BY <2>1, WorkType DEF Slots
  <2>3. Placed' BY <1>1, <1>6, <2>2, StopContainerHome DEF Restart
  <2>4. UNCHANGED mine /\ work' = [work EXCEPT ![n].restart = None] BY <1>6 DEF Restart
  <2>5. \A k \in Nodes : /\ work'[k].pod = work[k].pod
                         /\ work'[k].restart # None => work'[k].pod # None
    BY <2>4 DEF Working, TypeOK, KubeletOK
  <2> QED BY <1>2, <1>3, <2>3, <2>4, <2>5
<1>7. ASSUME NEW slot \in Slots, CleanUp(n, slot) \/ ContainerFails(n, slot)
      PROVE  HomesKept'
  <2>1. Placed' BY <1>1, <1>7, StopContainerHome DEF CleanUp
  <2>2. UNCHANGED <<mine, work>> BY <1>7 DEF CleanUp, ContainerFails, kubelet, pass
  <2>3. Listed' /\ Working' BY <1>3, <2>2 DEF Working
  <2> QED BY <1>2, <2>1, <2>3
<1> QED BY <1>4, <1>5, <1>6, <1>7

\* A kubelet writes a pod back to the node it listed it for, now or later.
LEMMA WriteBackHomes ==
  ASSUME Homes, NEW n \in Nodes, Checked(n), Put(work[n].pod, Reported(n)),
         UNCHANGED <<unscheduled, made, astray>>
  PROVE  /\ Unused' /\ Bound' /\ InFlight' /\ (AtMostOne(Schedulers) => Homeless' /\ Single')
         /\ \A q \in Pods : homes'[q] = homes[q]
<1> USE DEF Homes, HomesKept
<1>1. PICK p \in Pods : p = work[n].pod BY ReportedType
<1>2. PICK pod \in PodObjects : pod = Reported(n) BY ReportedType
<1>3. pod.node = n /\ n \in homes[p] BY <1>1, <1>2, ReportedType
<1>4. /\ Serve(p, pod) \/ UNCHANGED <<pods, homes>>
      /\ late' = late \/ late' = late \cup {<<errors, p, pod>>}
  BY <1>1, <1>2, PutCases
<1>5. /\ Bound'
      /\ \A q \in Pods : made[q] = 0 => pods'[q] = Absent
      /\ \A q \in Pods \ {p} : homes'[q] = homes[q]
      /\ homes'[p] = homes[p] \/ homes'[p] = homes[p] \cup {pod.node}
  BY <1>3, <1>4, ServeHomes
<1>6. \A q \in Pods : homes'[q] = homes[q] BY <1>3, <1>5
<1>7. Unused'
  <2>1. made[p] # 0 BY <1>3 DEF Unused
  <2> QED BY <1>4, <1>5, <1>6, <2>1 DEF Unused
<1>8. InFlight'
  <2>0. \A put \in late' : put[2] \in Pods BY <1>4 DEF TypeOK, ObjectsOK
  <2> SUFFICES ASSUME NEW put \in late'
               PROVE  /\ put[3].node \in Nodes
                      /\ put[3].node \in homes[put[2]] \/ put[2] \in astray
    BY <1>6, <2>0 DEF InFlight
  <2>1. put \in late \/ put = <<errors, p, pod>> BY <1>4
  <2> QED BY <1>3, <2>1 DEF InFlight
<1>9. AtMostOne(Schedulers) => Homeless' /\ Single'
  <2>1. \A s \in Schedulers : \A q \in unscheduled[s] : q \in Pods
    BY DEF TypeOK, SchedulerOK
  <2> QED BY <1>6, <2>1 DEF Homeless, Single, AtMostOne
<1> QED BY <1>5, <1>6, <1>7, <1>8, <1>9

LEMMA ReportHomes ==
  ASSUME Homes, NEW n \in Nodes, Report(n)
  PROVE  HomesKept'
<1> USE DEF Homes, HomesKept
<1>1. UNCHANGED <<unscheduled, made, astray, kstage, containers>> BY DEF Report, scheduler
<1>2. /\ Unused' /\ Bound' /\ InFlight' /\ (AtMostOne(Schedulers) => Homeless' /\ Single')
      /\ \A q \in Pods : homes'[q] = homes[q]
  <2>1. CASE UNCHANGED <<pods, late, homes>> BY <1>1, <2>1, SameBindings
  <2>2. CASE Put(work[n].pod, Reported(n)) BY <1>1, <2>2, WriteBackHomes DEF Report
  <2> QED BY <2>1, <2>2 DEF Report
<1>3. PICK p \in Pods : p = work[n].pod BY ReportedType DEF Report
<1>4. mine' = [mine EXCEPT ![n][p] = Absent] /\ work' = [work EXCEPT ![n] = NoWork]
  BY <1>3 DEF Report
<1>5. Listed' BY <1>2, <1>4 DEF Listed, TypeOK, KubeletOK
<1>6. Working'
  <2>1. \A k \in Nodes \ {n} : mine'[k] = mine[k] /\ work'[k] = work[k]
    BY <1>4 DEF TypeOK, KubeletOK
  <2>2. work'[n] = NoWork BY <1>4 DEF TypeOK, KubeletOK
  <2> QED BY <1>1, <1>2, <2>1, <2>2, WorkType DEF Working, NoWork
<1>7. Placed' BY <1>1, <1>2 DEF Placed, Exists, Slots
<1> QED BY <1>2, <1>5, <1>6, <1>7

LEMMA EndKubeletHomes ==
  ASSUME Homes, NEW n \in Nodes, EndKubelet(n)
  PROVE  HomesKept'
<1> USE DEF Homes, HomesKept
<1>1. UNCHANGED <<unscheduled, made, astray, containers>> BY DEF EndKubelet, scheduler
<1>2. /\ Unused' /\ Bound' /\ InFlight' /\ (AtMostOne(Schedulers) => Homeless' /\ Single')
      /\ \A q \in Pods : homes'[q] = homes[q]
  <2>1. CASE UNCHANGED <<pods, late, homes>> BY <1>1, <2>1, SameBindings
  <2>2. CASE Checked(n) /\ Left(work[n].pod, Reported(n))
    BY <1>1, <2>2, WriteBackHomes DEF Put
  <2> QED BY <2>1, <2>2 DEF EndKubelet
<1>3. Listed' /\ Working' BY <1>2, ForgetHomes DEF EndKubelet
<1>4. Placed' BY <1>1, <1>2 DEF Placed, Exists, Slots
<1> QED BY <1>2, <1>3, <1>4

\* A PUT that was left takes a pod home, or the scheduler that left it is told
\* of by astray.
LEMMA ServeLateHomes == Homes /\ ServeLate => HomesKept'
<1> SUFFICES ASSUME Homes, ServeLate PROVE HomesKept' OBVIOUS
<1> USE DEF Homes, HomesKept
<1>1. PICK put \in late : Serve(put[2], put[3]) /\ late' = late \ {put} BY DEF ServeLate
<1>2. PICK p \in Pods, pod \in PodObjects : p = put[2] /\ pod = put[3]
  BY DEF TypeOK, ObjectsOK
<1>3. pod.node \in Nodes /\ (pod.node \in homes[p] \/ p \in astray) BY <1>2 DEF InFlight
<1>4. UNCHANGED <<unscheduled, kstage, mine, work, containers, made, astray>>
  BY DEF ServeLate, scheduler, kubelet, pass
<1>5. /\ Bound'
      /\ \A q \in Pods : made[q] = 0 => pods'[q] = Absent /\ homes'[q] = {}
      /\ \A q \in Pods : homes[q] \subseteq homes'[q]
      /\ \A q \in Pods \ {p} : homes'[q] = homes[q]
      /\ homes'[p] = homes[p] \/ homes'[p] = homes[p] \cup {pod.node}
  BY <1>1, <1>2, <1>3, <1>4, ServeHomes
<1>6. Unused' BY <1>1, <1>4, <1>5 DEF Unused
<1>7. InFlight' BY <1>1, <1>4, <1>5, SameInFlight
<1>8. Listed' /\ Working' /\ Placed' BY <1>4, <1>5, SameKubelets
<1>9. AtMostOne(Schedulers) => Homeless' /\ Single'
  <2>1. \A q \in Pods : q \notin astray => homes'[q] = homes[q] BY <1>3, <1>5
  <2>2. \A s \in Schedulers : \A q \in unscheduled[s] : q \in Pods
    BY DEF TypeOK, SchedulerOK
  <2> QED BY <1>4, <2>1, <2>2 DEF Homeless, Single, AtMostOne
<1> QED BY <1>5, <1>6, <1>7, <1>8, <1>9

LEMMA NextHomes == Homes /\ [Next]_vars => Homes'
<1> SUFFICES ASSUME Homes, [Next]_vars PROVE Homes' OBVIOUS
<1>1. TypeOK' BY NextTypes DEF Homes, HomesKept
<1>2. CASE UNCHANGED vars
  BY <1>1, <1>2, SameBindings, SameKubelets
     DEF Homes, HomesKept, vars, objects, scheduler, kubelet, pass, history
<1>3. CASE Next
  <2>1. ASSUME NEW n \in Nodes, WaitTick(n) \/ ListFails(n)
        PROVE  HomesKept'
    BY <2>1, ListsHomes DEF WaitTick, ListFails
  <2> QED BY <1>1, <1>3, <2>1, UserStepHomes, SchedulerStepHomes, ListsHomes,
             ContainerStepHomes, ReportHomes, EndKubeletHomes, ServeLateHomes
          DEF Next, KubeletStep, Homes
<1> QED BY <1>2, <1>3

LEMMA HomesAreSingle == Homes => OneHome
<1> SUFFICES ASSUME Homes, AtMostOne(Schedulers), NEW p \in Pods \ astray, made[p] <= 1
             PROVE  AtMostOne(homes[p] \cup Runs(p))
  BY DEF OneHome
<1>1. Runs(p) \subseteq homes[p]
  <2> SUFFICES ASSUME NEW n \in Nodes, NEW c \in Containers, Exists(n, <<p, c>>)
               PROVE  n \in homes[p]
    BY DEF Runs
  <2>1. <<p, c>> \in Slots /\ <<p, c>>[1] = p BY DEF Slots
  <2> QED BY <2>1 DEF Homes, HomesKept, Placed
<1>2. AtMostOne(homes[p]) BY DEF Homes, HomesKept, Single
<1> QED BY <1>1, <1>2 DEF AtMostOne

-----------------------------------------------------------------------------
(***************************************************************************)
(* What a kubelet cleans up.                                               *)
(***************************************************************************)
\* The pod was made, and is gone for ever unless its name is used again.
Gone(p) ==
  made[p] >= 1 /\ (made[p] <= 1 /\ AtMostOne(homes[p]) => pods[p] = Absent)

\* The kubelet has not listed the pod of the slot, and will find it or did.
Doomed(n, slot) ==
  \/ slot \in extra[n]
  \/ kstage[n] = "pods" /\ Exists(n, slot) /\ mine[n][slot[1]] = Absent

DoomedAreGone == \A n \in Nodes, slot \in Slots : Doomed(n, slot) => Gone(slot[1])

\* A pod that is gone comes back under a name used again only.
LEMMA GoneForEver ==
  ASSUME Homes, [Next]_vars, NEW p \in Pods, Gone(p) PROVE Gone(p)'
<1>1. made[p] \in Nat /\ homes[p] \in SUBSET Nodes BY DEF Homes, TypeOK, ObjectsOK
<1>2. ASSUME made'[p] = made[p], homes[p] \subseteq homes'[p],
             pods[p] = Absent => pods'[p] = Absent
      PROVE  Gone(p)'
  BY <1>2 DEF Gone, AtMostOne
<1>3. ASSUME UNCHANGED <<pods, made, homes>> PROVE Gone(p)' BY <1>2, <1>3
<1>4. ASSUME NEW q \in Pods, NEW pod, Serve(q, pod) \/ UNCHANGED <<pods, homes>>,
             UNCHANGED made
      PROVE  Gone(p)'
  <2>1. homes[p] \subseteq homes'[p] BY <1>4 DEF Serve, Store, Homes, TypeOK, ObjectsOK
  <2>2. pods[p] = Absent => pods'[p] = Absent
    BY <1>4 DEF Serve, Store, Homes, TypeOK, ObjectsOK
  <2> QED BY <1>2, <1>4, <2>1, <2>2
<1>5. ASSUME NEW q \in Pods, CreatePod(q) PROVE Gone(p)'
  <2>1. CASE q = p
    <3>1. made'[p] = made[p] + 1 BY <1>5, <2>1 DEF CreatePod, Homes, TypeOK, ObjectsOK
    <3> QED BY <1>1, <3>1 DEF Gone
  <2>2. CASE q # p
    <3>1. made'[p] = made[p] /\ homes'[p] = homes[p] /\ pods'[p] = pods[p]
      BY <1>5, <2>2 DEF CreatePod, Store, Homes, TypeOK, ObjectsOK
    <3> QED BY <1>2, <3>1
  <2> QED BY <2>1, <2>2
<1>6. ASSUME NEW q \in Pods, DeletePod(q) PROVE Gone(p)'
  <2>1. UNCHANGED <<made, homes>> /\ (pods[p] = Absent => pods'[p] = Absent)
    BY <1>6 DEF DeletePod, Homes, TypeOK, ObjectsOK
  <2> QED BY <1>2, <2>1
<1>7. ASSUME NEW s \in Schedulers,
             SchedulerStep(s) \/ RoundFails(s) \/ \E q \in Pods : EndScheduler(s, q)
      PROVE  Gone(p)'
  <2>1. ASSUME NEW q \in Pods, Bind(s, q) PROVE Gone(p)' BY <1>4, <2>1, PutCases DEF Bind
  <2>2. ASSUME NEW q \in Pods, EndScheduler(s, q) PROVE Gone(p)'
    BY <1>3, <2>2 DEF EndScheduler, Left
  <2> QED BY <1>3, <1>7, <2>1, <2>2
          DEF SchedulerStep, ListPending, ListNodes, WaitRound, RoundFails, objects, history
<1>8. ASSUME NEW n \in Nodes, Report(n) PROVE Gone(p)'
  <2>1. work[n].pod \in Pods BY <1>8, ReportedType DEF Report, Homes, HomesKept
  <2>2. UNCHANGED made BY <1>8 DEF Report
  <2>3. Serve(work[n].pod, Reported(n)) \/ UNCHANGED <<pods, homes>>
    BY <1>8, PutCases DEF Report
  <2> QED BY <1>4, <2>1, <2>2, <2>3
<1>9. ASSUME NEW n \in Nodes, KubeletStep(n) \/ StartKubelet(n) \/ ListFails(n) \/ EndKubelet(n)
      PROVE  Gone(p)'
  BY <1>3, <1>8, <1>9
  DEF KubeletStep, ListPods, ListContainers, Restart, WaitTick, Reconcile, RunMissing, Check,
      CleanUp, StartKubelet, ListFails, EndKubelet, Left, objects, history
<1>10. ASSUME NEW n \in Nodes, NEW slot \in Slots, ContainerFails(n, slot) PROVE Gone(p)'
  BY <1>3, <1>10 DEF ContainerFails, objects, history
<1>11. CASE UNCHANGED vars BY <1>3, <1>11 DEF vars, objects, history
<1>12. CASE ServeLate
  <2>1. PICK put \in late : Serve(put[2], put[3]) /\ UNCHANGED made BY <1>12 DEF ServeLate
  <2>2. put[2] \in Pods BY DEF Homes, TypeOK, ObjectsOK
  <2> QED BY <1>4, <2>1, <2>2
<1> QED BY <1>5, <1>6, <1>7, <1>9, <1>10, <1>11, <1>12 DEF Next

\* What runs on a node when its kubelet lists its pods, and is not among them,
\* is of a pod that is gone.
LEMMA UnlistedAreGone ==
  ASSUME Homes, NEW n \in Nodes, NEW slot \in Slots, Exists(n, slot),
         pods[slot[1]] = Absent \/ pods[slot[1]].node # n
  PROVE  Gone(slot[1])
<1> USE DEF Homes, HomesKept
<1>1. PICK p \in Pods : p = slot[1] BY DEF Slots
<1>2. n \in homes[p] BY <1>1 DEF Placed
<1>3. made[p] \in Nat /\ made[p] # 0 BY <1>2 DEF Unused, TypeOK, ObjectsOK
<1>4. ASSUME made[p] <= 1, AtMostOne(homes[p]), pods[p] # Absent PROVE FALSE
  <2>1. pods[p].node # None BY <1>2, <1>4 DEF Bound
  <2>2. pods[p].node \in homes[p] BY <1>4, <2>1 DEF Bound
  <2>3. pods[p].node = n BY <1>2, <1>4, <2>2 DEF AtMostOne
  <2> QED BY <1>1, <1>4, <2>3
<1> QED BY <1>1, <1>3, <1>4 DEF Gone

\* Nothing is doomed but by what a kubelet lists, pods first.
LEMMA DoomedByLists ==
  ASSUME Homes, [Next]_vars, NEW n \in Nodes, NEW slot \in Slots, Doomed(n, slot)'
  PROVE  \/ Doomed(n, slot)
         \/ Exists(n, slot) /\ (pods[slot[1]] = Absent \/ pods[slot[1]].node # n)
<1> USE DEF Homes, HomesKept
<1>0. slot[1] \in Pods BY DEF Slots
<1>1. ASSUME extra'[n] \subseteq extra[n],
             kstage'[n] = "pods" => /\ kstage[n] = "pods" /\ mine'[n] = mine[n]
                                    /\ Exists(n, slot)' => Exists(n, slot)
      PROVE  Doomed(n, slot)
  BY <1>1 DEF Doomed
<1>2. ASSUME UNCHANGED <<kubelet, containers>> PROVE Doomed(n, slot)
  BY <1>1, <1>2 DEF kubelet, pass, Exists
<1>3. ASSUME NEW m \in Nodes, ListPods(m)
      PROVE  \/ Doomed(n, slot)
             \/ Exists(n, slot) /\ (pods[slot[1]] = Absent \/ pods[slot[1]].node # n)
  <2>1. UNCHANGED <<extra, containers>> BY <1>3 DEF ListPods
  <2>2. CASE m = n
    <3>1. mine'[n][slot[1]] = IF pods[slot[1]] # Absent /\ pods[slot[1]].node = n
                              THEN pods[slot[1]] ELSE Absent
      BY <1>0, <1>3, <2>2 DEF ListPods, TypeOK, KubeletOK
    <3>2. CASE slot \in extra[n] BY <3>2 DEF Doomed
    <3>3. CASE slot \notin extra[n]
      <4>1. Exists(n, slot) /\ mine'[n][slot[1]] = Absent BY <2>1, <3>3 DEF Doomed, Exists
      <4> QED BY <3>1, <4>1
    <3> QED BY <3>2, <3>3
  <2>3. CASE m # n
    <3>1. kstage'[n] = kstage[n] /\ mine'[n] = mine[n]
      BY <1>3, <2>3 DEF ListPods, TypeOK, KubeletOK
    <3> QED BY <1>1, <2>1, <3>1 DEF Exists
  <2> QED BY <2>2, <2>3
<1>4. ASSUME NEW m \in Nodes, ListContainers(m) PROVE Doomed(n, slot)
  <2>1. CASE m = n
    <3>1. kstage[n] = "pods" /\ kstage'[n] = "loop" /\ extra'[n] = Extra(n)
      BY <1>4, <2>1 DEF ListContainers, TypeOK, KubeletOK
    <3> QED BY <3>1 DEF Doomed, Extra
  <2>2. CASE m # n
    <3>1. kstage'[n] = kstage[n] /\ mine'[n] = mine[n] /\ extra'[n] = extra[n]
          /\ UNCHANGED containers
      BY <1>4, <2>2 DEF ListContainers, TypeOK, KubeletOK
    <3> QED BY <1>1, <3>1 DEF Exists
  <2> QED BY <2>1, <2>2
<1>5. ASSUME NEW m \in Nodes, kstage[m] = "loop", UNCHANGED kstage,
             \A k \in Nodes : extra'[k] \subseteq extra[k],
             \A k \in Nodes : k # m => mine'[k] = mine[k] /\ containers'[k] = containers[k]
      PROVE  Doomed(n, slot)
  BY <1>1, <1>5 DEF Exists
<1>6. ASSUME NEW m \in Nodes,
             \/ Restart(m) \/ Report(m)
             \/ \E p \in Pods : Reconcile(m, p)
             \/ \E c \in Containers : RunMissing(m, c) \/ Check(m, c)
             \/ \E other \in Slots : CleanUp(m, other)
      PROVE  Doomed(n, slot)
  <2>1. kstage[m] = "loop"
    BY <1>6
    DEF Restart, Report, Checked, Reconcile, RunMissing, Check, Current, CleanUp, PodsDone, Working
  <2>2. UNCHANGED kstage
    BY <1>6 DEF Restart, Report, Reconcile, RunMissing, Check, CleanUp
  <2>3. \A k \in Nodes : extra'[k] \subseteq extra[k]
    BY <1>6 DEF Restart, Report, Reconcile, RunMissing, Check, CleanUp, TypeOK, KubeletOK
  <2>4. \A k \in Nodes : k # m => mine'[k] = mine[k]
    <3>1. ASSUME NEW c \in Containers, Check(m, c) PROVE \A k \in Nodes : k # m => mine'[k] = mine[k]
      <4>1. UNCHANGED mine \/ \E ip \in IPs \cup {None} : Probe(m, c, ip) BY <3>1, CheckCases
      <4>2. ASSUME NEW ip, Probe(m, c, ip) PROVE \A k \in Nodes : k # m => mine'[k] = mine[k]
        BY <4>2 DEF Probe, TypeOK, KubeletOK
      <4> QED BY <4>1, <4>2
    <3> QED BY <1>6, <3>1
            DEF Restart, Report, Reconcile, RunMissing, CleanUp, TypeOK, KubeletOK
  <2>5. \A k \in Nodes : k # m => containers'[k] = containers[k]
    BY <1>6
    DEF Restart, Report, Reconcile, RunMissing, RunContainer, Check, CleanUp, StopContainer,
        Place, TypeOK, EngineOK
  <2> QED BY <1>5, <2>1, <2>2, <2>3, <2>4, <2>5
<1>7. ASSUME NEW m \in Nodes, NEW stage \in {"down", "idle"}, Forget(m, stage), UNCHANGED containers
      PROVE  Doomed(n, slot)
  <2>1. CASE m = n
    <3>1. kstage'[n] = stage /\ extra'[n] = {} BY <1>7, <2>1 DEF Forget, TypeOK, KubeletOK
    <3> QED BY <1>1, <3>1
  <2>2. CASE m # n
    <3>1. kstage'[n] = kstage[n] /\ mine'[n] = mine[n] /\ extra'[n] = extra[n]
      BY <1>7, <2>2 DEF Forget, TypeOK, KubeletOK
    <3> QED BY <1>1, <1>7, <3>1 DEF Exists
  <2> QED BY <2>1, <2>2
<1>8. ASSUME NEW m \in Nodes, StartKubelet(m) PROVE Doomed(n, slot)
  <2>1. /\ UNCHANGED <<mine, extra, containers>>
        /\ kstage'[n] = "pods" => kstage[n] = "pods"
    BY <1>8 DEF StartKubelet, pass, TypeOK, KubeletOK
  <2> QED BY <1>1, <2>1 DEF Exists
<1>9. ASSUME NEW m \in Nodes, NEW other \in Slots, ContainerFails(m, other) PROVE Doomed(n, slot)
  <2>1. UNCHANGED <<kstage, mine, extra>> BY <1>9 DEF ContainerFails, kubelet, pass
  <2>2. Exists(m, other) BY <1>9 DEF ContainerFails, AddressOf
  <2>3. Exists(n, slot)' => Exists(n, slot)
    BY <1>9, <2>2 DEF ContainerFails, Place, Exists, TypeOK, EngineOK
  <2> QED BY <1>1, <2>1, <2>3
<1>10. ASSUME NEW p \in Pods, CreatePod(p) \/ DeletePod(p) PROVE Doomed(n, slot)
  BY <1>2, <1>10 DEF CreatePod, DeletePod, Change
<1>11. ASSUME NEW s \in Schedulers,
              SchedulerStep(s) \/ RoundFails(s) \/ \E p \in Pods : EndScheduler(s, p)
       PROVE  Doomed(n, slot)
  BY <1>2, <1>11
  DEF SchedulerStep, ListPending, ListNodes, WaitRound, Bind, RoundFails, EndScheduler
<1>12. CASE UNCHANGED vars BY <1>2, <1>12 DEF vars
<1>13. ASSUME NEW m \in Nodes, WaitTick(m) \/ ListFails(m) \/ EndKubelet(m) PROVE Doomed(n, slot)
  BY <1>7, <1>13 DEF WaitTick, ListFails, EndKubelet
<1>14. CASE ServeLate BY <1>2, <1>14 DEF ServeLate
<1> QED BY <1>3, <1>4, <1>6, <1>8, <1>9, <1>10, <1>11, <1>12, <1>13, <1>14
        DEF Next, KubeletStep

LEMMA NextGone == Homes /\ DoomedAreGone /\ [Next]_vars => DoomedAreGone'
<1> SUFFICES ASSUME Homes, DoomedAreGone, [Next]_vars, NEW n \in Nodes, NEW slot \in Slots,
                    Doomed(n, slot)'
             PROVE  Gone(slot[1])'
  BY DEF DoomedAreGone
<1>1. slot[1] \in Pods BY DEF Slots
<1>2. Gone(slot[1]) BY DoomedByLists, UnlistedAreGone DEF DoomedAreGone
<1>3. PICK p \in Pods : p = slot[1] BY <1>1
<1>4. Gone(p)' BY <1>2, <1>3, GoneForEver
<1> QED BY <1>3, <1>4

-----------------------------------------------------------------------------
\* Whatever users, schedulers, kubelets and engines do, every variable keeps
\* its type.
THEOREM TypeCorrect == Spec => []TypeOK
<1>1. Init => Homes BY InitHomes
<1>2. Homes /\ [Next]_vars => Homes' BY NextHomes
<1>3. Homes => TypeOK BY DEF Homes
<1> QED BY <1>1, <1>2, <1>3, PTL DEF Spec

\* With one scheduler a pod whose name is not used again, and no PUT of which
\* that scheduler left in flight, has one node, and containers on no other, for
\* any number of nodes, pods and failures.
THEOREM PodHasOneHome == Spec => []OneHome
<1>1. Init => Homes BY InitHomes
<1>2. Homes /\ [Next]_vars => Homes' BY NextHomes
<1>3. Homes => OneHome BY HomesAreSingle
<1> QED BY <1>1, <1>2, <1>3, PTL DEF Spec

\* The containers a kubelet removes at the end of a pass are of pods that are
\* gone, however long ago it listed pods and containers, for pods of one node
\* whose name is not used again.
THEOREM OnlyTheGoneAreCleanedUp == Spec => []CleansUpGone
<1>1. Init => Homes /\ DoomedAreGone
  BY InitHomes DEF Init, DoomedAreGone, Doomed
<1>2. Homes /\ DoomedAreGone /\ [Next]_vars => Homes' /\ DoomedAreGone'
  BY NextHomes, NextGone
<1>3. Homes /\ DoomedAreGone => CleansUpGone
  BY DEF Homes, TypeOK, KubeletOK, DoomedAreGone, Doomed, Gone, CleansUpGone
<1> QED BY <1>1, <1>2, <1>3, PTL DEF Spec
=============================================================================
