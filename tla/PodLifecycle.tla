---------------------------- MODULE PodLifecycle ----------------------------
(***************************************************************************)
(* From a Pod object to its containers: the schedulers                     *)
(* (internal/scheduler), the kubelets with their container runtime and     *)
(* prober (internal/kubelet), users, and the Docker engine of each node.   *)
(*                                                                         *)
(* Three writers share a Pod object: users create and delete it, a         *)
(* scheduler writes its node, its kubelet its status.  Each of them PUTs   *)
(* the whole object as it listed it some steps ago; the PUT of a pod that  *)
(* is gone is refused, and that is all the server compares.  A PUT that    *)
(* failed for its sender, or whose sender has ended, may be served later.  *)
(* A name may be used again for another pod, which nothing tells from the  *)
(* old one.                                                                *)
(*                                                                         *)
(* Docker is modelled as the kubelet uses it: containers are found by      *)
(* name, `run' fails when the name is taken, a container that has stopped  *)
(* is listed until it is removed and has no address.                       *)
(***************************************************************************)
EXTENDS Naturals, FiniteSets

CONSTANTS
  Nodes,        \* node names, each with one kubelet and one Docker engine
  Schedulers,   \* scheduler processes
  Pods,         \* names of pods
  Containers,   \* the containers of every pod
  Probed,       \* pods whose containers have a liveness probe
  IPs,          \* addresses a Docker engine gives to its containers
  LocalPorts,   \* <<node, container>>: what a probe of it finds at the node's localhost answers
  MaxChanges,   \* bound: pods created and deleted by users
  MaxErrors,    \* bound: failed calls, processes and containers that end
  Absent,       \* there is no such object or container
  None          \* no node, no address, no pod, no container

ASSUME LifecycleAssumption ==
  /\ Probed \subseteq Pods
  /\ LocalPorts \subseteq Nodes \X Containers
  /\ MaxChanges \in Nat /\ MaxErrors \in Nat
  /\ None \notin Nodes \cup IPs \cup Pods \cup Containers

VARIABLES
  pods,         \* the Pod objects
  registered,   \* nodes with a Node object, which is Ready for ever
  late,         \* PUTs that failed for their sender and may be served yet
  sstage,       \* where each scheduler is in its round
  unscheduled,  \* the pods it has still to bind
  ready,        \* the nodes it has listed
  kstage,       \* where each kubelet is in its pass
  mine,         \* the pods it has listed and not yet reconciled
  found,        \* the containers it has listed
  work,         \* what it does for one pod
  extra,        \* containers it has still to clean up
  containers,   \* the containers of each Docker engine
  made,         \* history: how often a pod of each name was created
  homes,        \* history: the nodes it was ever bound to
  astray,       \* history: pods of which a scheduler has left a PUT in flight
  changes,      \* changes made by users so far
  errors        \* failures so far

objects == <<pods, registered, late>>
scheduler == <<sstage, unscheduled, ready>>
pass == <<mine, found, work, extra>>
kubelet == <<kstage, pass>>
history == <<made, homes, astray>>
vars == <<objects, scheduler, kubelet, containers, history, changes, errors>>

-----------------------------------------------------------------------------
Slots == Pods \X Containers

PodObjects == [node : Nodes \cup {None}, phase : {"none", "Pending", "Running"},
               ip : IPs \cup {None}]

\* A pod that is not bound has no status: only its kubelet writes one.
Fresh(n) == [node |-> n, phase |-> "none", ip |-> None]

\* What docker ps calls them, except that a container whose probe fails is
\* running for Docker.
States == {"running", "failing", "exited"}

NoPods == [p \in Pods |-> Absent]
NoContainers == [slot \in Slots |-> Absent]
NoWork == [pod |-> None, left |-> {}, restart |-> None, phase |-> "none"]

Init ==
  /\ pods = NoPods
  /\ registered = {}
  /\ late = {}
  /\ sstage = [s \in Schedulers |-> "idle"]
  /\ unscheduled = [s \in Schedulers |-> {}]
  /\ ready = [s \in Schedulers |-> {}]
  /\ kstage = [n \in Nodes |-> "down"]
  /\ mine = [n \in Nodes |-> NoPods]
  /\ found = [n \in Nodes |-> NoContainers]
  /\ work = [n \in Nodes |-> NoWork]
  /\ extra = [n \in Nodes |-> {}]
  /\ containers = [n \in Nodes |-> NoContainers]
  /\ made = [p \in Pods |-> 0]
  /\ homes = [p \in Pods |-> {}]
  /\ astray = {}
  /\ changes = 0
  /\ errors = 0

-----------------------------------------------------------------------------
(***************************************************************************)
(* Users, and what may fail.                                               *)
(***************************************************************************)
Change ==
  /\ changes < MaxChanges
  /\ changes' = changes + 1
  /\ UNCHANGED <<registered, late, scheduler, kubelet, containers, astray, errors>>

\* The API server stores a pod.
Store(p, pod) ==
  /\ pods' = [pods EXCEPT ![p] = pod]
  /\ homes' = [homes EXCEPT ![p] = @ \cup ({pod.node} \ {None})]

\* A pod is created bound to a node or to none.
CreatePod(p) ==
  /\ Change
  /\ pods[p] = Absent
  /\ \E n \in Nodes \cup {None} : Store(p, Fresh(n))
  /\ made' = [made EXCEPT ![p] = @ + 1]

DeletePod(p) ==
  /\ Change
  /\ pods[p] # Absent
  /\ pods' = [pods EXCEPT ![p] = Absent]
  /\ UNCHANGED <<made, homes>>

Failure == errors < MaxErrors /\ errors' = errors + 1

\* Mutant of Serve: the server takes the status only.
ServeStatus(p, pod) ==
  IF pods[p] = Absent THEN UNCHANGED <<pods, homes>>
                      ELSE Store(p, [pod EXCEPT !.node = pods[p].node])

\* The server takes the whole object, and refuses it when there is none of that name.
Serve(p, pod) ==
  IF pods[p] = Absent THEN UNCHANGED <<pods, homes>> ELSE Store(p, pod)

\* A PUT that its sender does not wait for any more.
Left(p, pod) ==
  /\ Failure
  /\ late' = late \cup {<<errors, p, pod>>}
  /\ UNCHANGED <<pods, homes>>

\* UpdatePod: the callers only log that it was refused or failed, which may be
\* before it reached the server or not.
Put(p, pod) ==
  \/ Serve(p, pod) /\ UNCHANGED <<late, errors>>
  \/ Failure /\ UNCHANGED <<pods, homes, late>>
  \/ Left(p, pod)

ServeLate ==
  /\ \E put \in late : Serve(put[2], put[3]) /\ late' = late \ {put}
  /\ UNCHANGED <<registered, scheduler, kubelet, containers, made, astray, changes, errors>>

-----------------------------------------------------------------------------
(***************************************************************************)
(* Schedulers.                                                             *)
(***************************************************************************)
\* Mutant of Pending: the pods that have a node are scheduled again.
PendingAll == {p \in Pods : pods[p] # Absent}

\* Pods without a node.
Pending == {p \in Pods : pods[p] # Absent /\ pods[p].node = None}

\* scheduleOneRound ends when there is nothing to schedule.
ListPending(s) ==
  /\ sstage[s] = "idle"
  /\ Pending # {}
  /\ unscheduled' = [unscheduled EXCEPT ![s] = Pending]
  /\ sstage' = [sstage EXCEPT ![s] = "nodes"]
  /\ UNCHANGED <<objects, ready, kubelet, containers, history, changes, errors>>

EndRound(s) ==
  /\ sstage' = [sstage EXCEPT ![s] = "idle"]
  /\ unscheduled' = [unscheduled EXCEPT ![s] = {}]
  /\ ready' = [ready EXCEPT ![s] = {}]

\* Without nodes the round ends.
ListNodes(s) ==
  /\ sstage[s] = "nodes"
  /\ IF registered = {}
     THEN EndRound(s)
     ELSE /\ ready' = [ready EXCEPT ![s] = registered]
          /\ sstage' = [sstage EXCEPT ![s] = "bind"]
          /\ UNCHANGED unscheduled
  /\ UNCHANGED <<objects, kubelet, containers, history, changes, errors>>

\* selectNode finds every node that is Ready feasible, for a pod requests "0",
\* and picks one at random; bind PUTs the pod as it was listed.
Bind(s, p) ==
  /\ sstage[s] = "bind"
  /\ p \in unscheduled[s]
  /\ \E n \in ready[s] : Put(p, Fresh(n))
  /\ astray' = IF late' = late THEN astray ELSE astray \cup {p}
  /\ unscheduled' = [unscheduled EXCEPT ![s] = @ \ {p}]
  /\ UNCHANGED <<registered, sstage, ready, kubelet, containers, made, changes>>

WaitRound(s) ==
  /\ sstage[s] = "bind" /\ unscheduled[s] = {}
  /\ EndRound(s)
  /\ UNCHANGED <<objects, kubelet, containers, history, changes, errors>>

\* A list fails, or the process ends, between two calls
RoundFails(s) ==
  /\ sstage[s] # "idle"
  /\ EndRound(s)
  /\ Failure
  /\ UNCHANGED <<objects, kubelet, containers, history, changes>>

\* or while it binds a pod, and is started again.
EndScheduler(s, p) ==
  /\ sstage[s] = "bind"
  /\ p \in unscheduled[s]
  /\ EndRound(s)
  /\ \E n \in ready[s] : Left(p, Fresh(n))
  /\ astray' = astray \cup {p}
  /\ UNCHANGED <<registered, kubelet, containers, made, changes>>

-----------------------------------------------------------------------------
(***************************************************************************)
(* The Docker engine of a node, driven by the commands of runtime.go.      *)
(***************************************************************************)
Exists(n, slot) == containers[n][slot] # Absent

\* A container that does not run has no address.
Stopped == [state |-> "exited", ip |-> None]

AddressOf(n, slot) == IF Exists(n, slot) THEN containers[n][slot].ip ELSE None

FreeIPs(n) == IPs \ {AddressOf(n, slot) : slot \in Slots}

Place(n, slot, container) ==
  containers' = [containers EXCEPT ![n][slot] = container]

\* RunContainer: docker run fails when the name is taken, or for a reason of
\* its own, when it may leave a container that was not started.
RunContainer(n, slot) ==
  \/ /\ ~Exists(n, slot)
     /\ \E ip \in FreeIPs(n) : Place(n, slot, [state |-> "running", ip |-> ip])
     /\ UNCHANGED errors
  \/ Exists(n, slot) /\ UNCHANGED <<containers, errors>>
  \/ Failure /\ ~Exists(n, slot) /\ (UNCHANGED containers \/ Place(n, slot, Stopped))

\* Mutant of StopContainer: the container is not removed.
StopContainerKept(n, slot) ==
  /\ IF Exists(n, slot)
     THEN Place(n, slot, Stopped)
     ELSE UNCHANGED containers
  /\ UNCHANGED errors

\* StopContainer: docker stop, then docker rm.  When the first fails the second
\* is not tried; when the second fails the container stays, stopped.
StopContainer(n, slot) ==
  \/ Place(n, slot, Absent) /\ UNCHANGED errors
  \/ Failure /\ UNCHANGED containers
  \/ Failure /\ Exists(n, slot) /\ Place(n, slot, Stopped)

\* The process of a container ends, or does not answer its probe any more.
ContainerFails(n, slot) ==
  /\ AddressOf(n, slot) # None
  /\ \/ Place(n, slot, Stopped)
     \/ /\ slot[1] \in Probed
        /\ containers[n][slot].state = "running"
        /\ Place(n, slot, [containers[n][slot] EXCEPT !.state = "failing"])
  /\ Failure
  /\ UNCHANGED <<objects, scheduler, kubelet, history, changes>>

-----------------------------------------------------------------------------
(***************************************************************************)
(* Kubelets.                                                               *)
(***************************************************************************)
\* registerNode: a Node object that exists already is as good.
StartKubelet(n) ==
  /\ kstage[n] = "down"
  /\ registered' = registered \cup {n}
  /\ kstage' = [kstage EXCEPT ![n] = "idle"]
  /\ UNCHANGED <<pods, late, scheduler, pass, containers, history, changes, errors>>

\* runSync lists the pods of its node,
ListPods(n) ==
  /\ kstage[n] = "idle"
  /\ mine' = [mine EXCEPT ![n] =
                [p \in Pods |-> IF pods[p] # Absent /\ pods[p].node = n
                                THEN pods[p] ELSE Absent]]
  /\ kstage' = [kstage EXCEPT ![n] = "pods"]
  /\ UNCHANGED <<objects, scheduler, found, work, extra, containers, history, changes, errors>>

\* Mutant of Extra: the names of pods instead of their containers.
ExtraPods(n) == {p \in Pods : mine[n][p] = Absent}

\* Mutant of Extra: the containers of the node's own pods too.
ExtraAll(n) == {slot \in Slots : Exists(n, slot)}

\* Containers of pods that the node should not run.
Extra(n) == {slot \in Slots : Exists(n, slot) /\ mine[n][slot[1]] = Absent}

\* then the containers of its engine.
ListContainers(n) ==
  /\ kstage[n] = "pods"
  /\ found' = [found EXCEPT ![n] =
                 [slot \in Slots |-> IF Exists(n, slot) THEN containers[n][slot].state
                                                        ELSE Absent]]
  /\ extra' = [extra EXCEPT ![n] = Extra(n)]
  /\ kstage' = [kstage EXCEPT ![n] = "loop"]
  /\ UNCHANGED <<objects, scheduler, mine, work, containers, history, changes, errors>>

\* reconcilePod.  The phase it will report is decided by the containers listed.
Reconcile(n, p) ==
  /\ kstage[n] = "loop" /\ work[n] = NoWork
  /\ mine[n][p] # Absent
  /\ work' = [work EXCEPT ![n] =
                [pod |-> p, left |-> Containers, restart |-> None,
                 phase |-> IF \E c \in Containers : found[n][<<p, c>>] # Absent
                           THEN "Running" ELSE "Pending"]]
  /\ UNCHANGED <<objects, scheduler, kstage, mine, found, extra, containers, history,
                 changes, errors>>

\* The container under the loop of reconcilePod.
Current(n, c) ==
  /\ work[n].pod # None /\ work[n].restart = None
  /\ c \in work[n].left

\* A container that was not listed, or was stopped to be restarted, is run.
RunMissing(n, c) ==
  /\ Current(n, c)
  /\ found[n][<<work[n].pod, c>>] = Absent
  /\ RunContainer(n, <<work[n].pod, c>>)
  /\ work' = [work EXCEPT ![n].left = @ \ {c}]
  /\ UNCHANGED <<objects, scheduler, kstage, mine, found, extra, history, changes>>

\* strings.HasPrefix(rc.State, "Exit"): Docker writes "exited".
HasExitPrefix(state) == state \in {"Exit", "Exited"}

\* Probe: what runs on this node at the address serves the port; a container
\* serves its own.  Without an address the kubelet's localhost is probed.
Answers(n, ip, c) ==
  IF ip = None
  THEN <<n, c>> \in LocalPorts
  ELSE \E slot \in Pods \X {c} : /\ AddressOf(n, slot) = ip
                                /\ containers[n][slot].state = "running"

\* Mutant of MustRestart: no container is probed.
MustRestartNever(n, slot, ip) == FALSE

MustRestart(n, slot, ip) == slot[1] \in Probed /\ ~Answers(n, ip, slot[2])

\* The address becomes that of the pod, and is probed.
Probe(n, c, ip) ==
  LET p == work[n].pod
  IN /\ mine' = [mine EXCEPT ![n][p].ip = ip]
     /\ work' = IF MustRestart(n, <<p, c>>, ip)
                THEN [work EXCEPT ![n].restart = c]
                ELSE [work EXCEPT ![n].left = @ \ {c}]

\* A container that was listed: its address is asked for, and may not be told,
\* then it is probed.
Check(n, c) ==
  LET slot == <<work[n].pod, c>>
      known == mine[n][slot[1]].ip
      told == IF AddressOf(n, slot) = None THEN known ELSE AddressOf(n, slot)
  IN /\ Current(n, c)
     /\ found[n][slot] # Absent
     /\ \/ /\ HasExitPrefix(found[n][slot])
           /\ work' = [work EXCEPT ![n].restart = c]
           /\ UNCHANGED <<mine, errors>>
        \/ ~HasExitPrefix(found[n][slot]) /\ Probe(n, c, told) /\ UNCHANGED errors
        \/ ~HasExitPrefix(found[n][slot]) /\ Probe(n, c, known) /\ Failure
     /\ UNCHANGED <<objects, scheduler, kstage, found, extra, containers, history, changes>>

\* The container is stopped; RunMissing runs it anew.
Restart(n) ==
  LET slot == <<work[n].pod, work[n].restart>>
  IN /\ work[n].restart # None
     /\ StopContainer(n, slot)
     /\ found' = [found EXCEPT ![n][slot] = Absent]
     /\ work' = [work EXCEPT ![n].restart = None]
     /\ UNCHANGED <<objects, scheduler, kstage, mine, extra, history, changes>>

\* The object that reconcilePod writes back.
Reported(n) == [mine[n][work[n].pod] EXCEPT !.phase = work[n].phase]

\* The containers of a pod are done with.
Checked(n) == work[n].pod # None /\ work[n].left = {}

\* The status is written when the phase is new or an address is known.
StatusIsNew(n) ==
  LET known == mine[n][work[n].pod]
  IN known.phase # work[n].phase \/ known.ip # None

Report(n) ==
  /\ Checked(n)
  /\ IF StatusIsNew(n) THEN Put(work[n].pod, Reported(n))
                       ELSE UNCHANGED <<pods, late, homes, errors>>
  /\ mine' = [mine EXCEPT ![n][work[n].pod] = Absent]
  /\ work' = [work EXCEPT ![n] = NoWork]
  /\ UNCHANGED <<registered, scheduler, kstage, found, extra, containers, made, astray, changes>>

\* The pods of the node are reconciled.
PodsDone(n) == kstage[n] = "loop" /\ work[n] = NoWork /\ mine[n] = NoPods

CleanUp(n, slot) ==
  /\ PodsDone(n)
  /\ slot \in extra[n]
  /\ StopContainer(n, slot)
  /\ extra' = [extra EXCEPT ![n] = @ \ {slot}]
  /\ UNCHANGED <<objects, scheduler, kstage, mine, found, work, history, changes>>

Forget(n, stage) ==
  /\ kstage' = [kstage EXCEPT ![n] = stage]
  /\ mine' = [mine EXCEPT ![n] = NoPods]
  /\ found' = [found EXCEPT ![n] = NoContainers]
  /\ work' = [work EXCEPT ![n] = NoWork]
  /\ extra' = [extra EXCEPT ![n] = {}]

WaitTick(n) ==
  /\ PodsDone(n)
  /\ extra[n] = {}
  /\ Forget(n, "idle")
  /\ UNCHANGED <<objects, scheduler, containers, history, changes, errors>>

\* The containers cannot be listed.
ListFails(n) ==
  /\ kstage[n] = "pods"
  /\ Forget(n, "idle")
  /\ Failure
  /\ UNCHANGED <<objects, scheduler, containers, history, changes>>

\* The kubelet ends, while it writes a status perhaps; its containers go on, and
\* its node stays Ready.
EndKubelet(n) ==
  /\ kstage[n] # "down"
  /\ Forget(n, "down")
  /\ \/ Failure /\ UNCHANGED <<pods, late, homes>>
     \/ Checked(n) /\ StatusIsNew(n) /\ Left(work[n].pod, Reported(n))
  /\ UNCHANGED <<registered, scheduler, containers, made, astray, changes>>

-----------------------------------------------------------------------------
SchedulerStep(s) ==
  \/ ListPending(s) \/ ListNodes(s) \/ WaitRound(s)
  \/ \E p \in Pods : Bind(s, p)

KubeletStep(n) ==
  \/ ListPods(n) \/ ListContainers(n) \/ Restart(n) \/ Report(n) \/ WaitTick(n)
  \/ \E p \in Pods : Reconcile(n, p)
  \/ \E c \in Containers : RunMissing(n, c) \/ Check(n, c)
  \/ \E slot \in Slots : CleanUp(n, slot)

Next ==
  \/ \E p \in Pods : CreatePod(p) \/ DeletePod(p)
  \/ \E s \in Schedulers : SchedulerStep(s) \/ RoundFails(s)
  \/ \E s \in Schedulers, p \in Pods : EndScheduler(s, p)
  \/ \E n \in Nodes : KubeletStep(n) \/ StartKubelet(n) \/ ListFails(n) \/ EndKubelet(n)
  \/ \E n \in Nodes, slot \in Slots : ContainerFails(n, slot)
  \/ ServeLate

Spec == Init /\ [][Next]_vars

(***************************************************************************)
(* The tickers keep firing, the API server and Docker answer.  Nothing     *)
(* obliges anyone to start a kubelet.                                      *)
(***************************************************************************)
Fairness ==
  /\ \A s \in Schedulers : WF_vars(SchedulerStep(s))
  /\ \A n \in Nodes : WF_vars(KubeletStep(n))

FairSpec == Spec /\ Fairness

-----------------------------------------------------------------------------
(***************************************************************************)
(* Properties.                                                             *)
(***************************************************************************)
ObjectsOK ==
  /\ pods \in [Pods -> PodObjects \cup {Absent}]
  /\ registered \subseteq Nodes
  /\ made \in [Pods -> Nat]
  /\ homes \in [Pods -> SUBSET Nodes]
  /\ astray \subseteq Pods
  /\ late \subseteq Nat \X Pods \X PodObjects

SchedulerOK ==
  /\ sstage \in [Schedulers -> {"idle", "nodes", "bind"}]
  /\ unscheduled \in [Schedulers -> SUBSET Pods]
  /\ ready \in [Schedulers -> SUBSET Nodes]

KubeletOK ==
  /\ kstage \in [Nodes -> {"down", "idle", "pods", "loop"}]
  /\ mine \in [Nodes -> [Pods -> PodObjects \cup {Absent}]]
  /\ found \in [Nodes -> [Slots -> States \cup {Absent}]]
  /\ work \in [Nodes -> [pod : Pods \cup {None}, left : SUBSET Containers,
                         restart : Containers \cup {None},
                         phase : {"none", "Pending", "Running"}]]
  /\ extra \in [Nodes -> SUBSET Slots]

EngineOK ==
  containers \in [Nodes -> [Slots -> [state : States, ip : IPs \cup {None}] \cup {Absent}]]

BoundsOK == changes \in 0..MaxChanges /\ errors \in 0..MaxErrors

TypeOK == ObjectsOK /\ SchedulerOK /\ KubeletOK /\ EngineOK /\ BoundsOK

\* The nodes whose engine has a container of the pod.
Runs(p) == {n \in Nodes : \E c \in Containers : Exists(n, <<p, c>>)}

AtMostOne(S) == \A x, y \in S : x = y

\* With one scheduler, a pod whose name was not used before has one node for
\* ever and runs nowhere else, however stale the objects are that the
\* scheduler and the kubelets write, and whichever PUTs of the kubelets are
\* served late.  A scheduler may meet its own PUT of an earlier round.
OneHome ==
  AtMostOne(Schedulers) =>
    \A p \in Pods \ astray : made[p] <= 1 => AtMostOne(homes[p] \cup Runs(p))

\* The containers that a kubelet removes at the end of its pass are of pods that
\* are gone by then, though it listed pods and containers one after the other
\* and some time ago: a pod that was bound to the node, or listed by another
\* kubelet, meanwhile loses none.  A name used again, or a pod that two
\* schedulers bound, is not told from the old one.
CleansUpGone ==
  \A n \in Nodes : \A slot \in extra[n] :
    made[slot[1]] <= 1 /\ AtMostOne(homes[slot[1]]) => pods[slot[1]] = Absent

\* p is to run on n, and the kubelet of n is up.
Due(p, n) == kstage[n] # "down" /\ pods[p] # Absent /\ pods[p].node = n

\* Every pod is bound once there is a node.
PodsBound ==
  <>[](registered # {} => \A p \in Pods : pods[p] # Absent => pods[p].node # None)

\* What runs on a node in the end is what is bound to it: containers of pods
\* that are gone are removed, and no others.
EngineSettles ==
  \A n \in Nodes, slot \in Slots :
    <>[](kstage[n] # "down" /\ AtMostOne(homes[slot[1]])
           => (Exists(n, slot) <=> Due(slot[1], n)))

\* The address a pod is known by has gone to a container of another one, or
\* something else answers for a pod without an address.
Mistaken(n, p) ==
  \/ \E slot \in (Pods \ {p}) \X Containers :
       AddressOf(n, slot) # None /\ AddressOf(n, slot) = pods[p].ip
  \/ pods[p].ip = None /\ \E c \in Containers : <<n, c>> \in LocalPorts

\* The containers of a probed pod are restarted until they run, and the
\* status of the pod says so and has the address of one of them, unless it is
\* mistaken for another pod.
StatusSettles ==
  \A n \in Nodes, p \in Probed :
    <>[](Due(p, n) /\ AtMostOne(homes[p]) /\ ~Mistaken(n, p) =>
           /\ \A c \in Containers : /\ Exists(n, <<p, c>>)
                                    /\ containers[n][<<p, c>>].state = "running"
           /\ pods[p].phase = "Running"
           /\ \E c \in Containers : pods[p].ip = AddressOf(n, <<p, c>>))

\* A container that has exited is restarted.
ExitedRestarted ==
  \A n \in Nodes, slot \in Slots :
    <>[](Due(slot[1], n) /\ Exists(n, slot) => containers[n][slot].state # "exited")
=============================================================================
