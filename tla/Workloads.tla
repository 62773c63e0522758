------------------------------ MODULE Workloads ------------------------------
(***************************************************************************)
(* The ReplicaSet and Deployment controllers                               *)
(* (internal/controller/replicaset, internal/controller/deployment), each  *)
(* a goroutine of every controller manager that runs the controllers.      *)
(*                                                                         *)
(* Every pass lists what it needs, decides on the lists, and sends its     *)
(* writes one call at a time.  The lists get stale as other controllers,   *)
(* other managers and users go on, and nothing compares versions.  Two     *)
(* managers run at once when a leader has not noticed that it was deposed, *)
(* or when both were started without -leader-elect.                        *)
(*                                                                         *)
(* An application stands for a label: the selector of each Deployment and  *)
(* ReplicaSet of the application matches the pods of all its templates.    *)
(* A ReplicaSet made by a Deployment is named after the hash of its        *)
(* template, so application and template identify a set.                   *)
(***************************************************************************)
EXTENDS Integers, FiniteSets

CONSTANTS
  Managers,      \* controller managers that run the controllers
  Deployments,   \* applications run by a Deployment
  Templates,     \* pod templates a Deployment may have
  Singles,       \* applications run by a ReplicaSet of their own
  Suffixes,      \* random ends of pod names
  UserReplicas,  \* values of spec.replicas that users write
  MaxChanges,    \* bound: changes made by users
  MaxErrors,     \* bound: calls that fail and managers that end
  Unset,         \* spec.replicas is nil
  Absent,        \* there is no such object
  Nothing        \* no template, no set, no deployment, nothing to write

ASSUME WorkloadAssumption ==
  /\ Deployments \cap Singles = {}
  /\ UserReplicas \subseteq Nat \cup {Unset}
  /\ MaxChanges \in Nat /\ MaxErrors \in Nat
  /\ Unset \notin Nat /\ Absent \notin Nat \cup {Unset}
  /\ Nothing \notin Nat \cup {Unset, Absent} \cup Deployments

\* Replicas are int32, and pods are counted per set.
ASSUME FiniteAssumption ==
  IsFiniteSet(Managers) /\ IsFiniteSet(Templates) /\ IsFiniteSet(UserReplicas)

VARIABLES
  deployments,  \* the Deployment objects
  replicasets,  \* spec.replicas of the ReplicaSet objects
  pods,         \* the names of the Pod objects
  late,         \* calls that failed for their sender and may be served yet
  stage,        \* where each ReplicaSet controller is in its pass
  rss,          \* the ReplicaSets it has listed
  allPods,      \* the pods it has listed
  setsLeft,     \* ReplicaSets it has still to reconcile
  growing,      \* the ReplicaSet it creates pods for, and how many it still will
  doomed,       \* the pods it has still to delete
  dstage,       \* where each Deployment controller is in its pass
  listed,       \* the Deployments it has listed
  depsLeft,     \* Deployments it has still to sync
  syncing,      \* the Deployment it syncs
  raise,        \* what it will write to the new ReplicaSet
  lower,        \* old ReplicaSets it will scale to 0
  touched,      \* history: Deployments whose ReplicaSets users wrote themselves
  changes,      \* changes made by users so far
  errors        \* failures so far

objects == <<deployments, replicasets, pods, late>>
setController == <<stage, rss, allPods, setsLeft, growing, doomed>>
depController == <<dstage, listed, depsLeft, syncing, raise, lower>>
vars == <<objects, setController, depController, touched, changes, errors>>

-----------------------------------------------------------------------------
Sets == [app : Deployments, template : Templates]
          \cup [app : Singles, template : {Nothing}]

PodNames == [set : Sets, suffix : Suffixes]

Replicas == UserReplicas \cup {0, 1}

Specs == [template : Templates, replicas : UserReplicas]

\* The pods that the selector of an application matches.
Matching(ps, app) == {p \in ps : p.set.app = app}

\* The ReplicaSet that a Deployment with this spec wants.
NewSet(d, spec) == [app |-> d, template |-> spec.template]

\* desiredReplicas of syncDeployment.
Wanted(spec) == IF spec.replicas = Unset THEN 1 ELSE spec.replicas

\* The replicas that createNewReplicaSet starts with.
Initial(spec) == IF spec.replicas = Unset THEN 0 ELSE spec.replicas

NoSets == [x \in Sets |-> Absent]
NoDeployments == [d \in Deployments |-> Absent]
NoJob == [set |-> Nothing, count |-> 0]

Init ==
  /\ deployments = NoDeployments
  /\ replicasets = NoSets
  /\ pods = {}
  /\ late = {}
  /\ stage = [k \in Managers |-> "idle"]
  /\ rss = [k \in Managers |-> NoSets]
  /\ allPods = [k \in Managers |-> {}]
  /\ setsLeft = [k \in Managers |-> {}]
  /\ growing = [k \in Managers |-> NoJob]
  /\ doomed = [k \in Managers |-> {}]
  /\ dstage = [k \in Managers |-> "idle"]
  /\ listed = [k \in Managers |-> NoDeployments]
  /\ depsLeft = [k \in Managers |-> {}]
  /\ syncing = [k \in Managers |-> Nothing]
  /\ raise = [k \in Managers |-> Nothing]
  /\ lower = [k \in Managers |-> {}]
  /\ touched = {}
  /\ changes = 0
  /\ errors = 0

-----------------------------------------------------------------------------
(***************************************************************************)
(* Users.  A deleted Deployment leaves its ReplicaSets, a deleted          *)
(* ReplicaSet its pods.  Nothing keeps users from the ReplicaSets of a     *)
(* Deployment.                                                             *)
(***************************************************************************)
Change ==
  /\ changes < MaxChanges
  /\ changes' = changes + 1
  /\ UNCHANGED <<late, setController, depController, errors>>

ApplyDeployment(d) ==
  /\ Change
  /\ \E spec \in Specs \cup {Absent} :
       /\ spec # deployments[d]
       /\ deployments' = [deployments EXCEPT ![d] = spec]
  /\ UNCHANGED <<replicasets, pods, touched>>

ApplyReplicaSet(x) ==
  /\ Change
  /\ \E n \in UserReplicas \cup {Absent} :
       /\ n # replicasets[x]
       /\ replicasets' = [replicasets EXCEPT ![x] = n]
  /\ touched' = touched \cup ({x.app} \cap Deployments)
  /\ UNCHANGED <<deployments, pods>>

RemovePod(p) ==
  /\ Change
  /\ p \in pods
  /\ pods' = pods \ {p}
  /\ UNCHANGED <<deployments, replicasets, touched>>

-----------------------------------------------------------------------------
(***************************************************************************)
(* The calls that the controllers send, and what the server makes of them. *)
(***************************************************************************)
Calls == [op : {"POST", "DELETE"}, pod : PodNames]
           \cup [op : {"POST", "PUT"}, set : Sets, replicas : Replicas \ {Unset}]

PostPod(x, f) == [op |-> "POST", pod |-> [set |-> x, suffix |-> f]]
DropPod(p) == [op |-> "DELETE", pod |-> p]
PostSet(x, n) == [op |-> "POST", set |-> x, replicas |-> n]
PutSet(x, n) == [op |-> "PUT", set |-> x, replicas |-> n]

\* The POST of what exists, and the PUT or DELETE of what does not, change nothing.
Serve(call) ==
  /\ UNCHANGED deployments
  /\ IF "pod" \in DOMAIN call
     THEN /\ pods' = IF call.op = "POST" THEN pods \cup {call.pod} ELSE pods \ {call.pod}
          /\ UNCHANGED replicasets
     ELSE /\ replicasets' = [replicasets EXCEPT ![call.set] =
                               IF (@ = Absent) = (call.op = "POST") THEN call.replicas ELSE @]
          /\ UNCHANGED pods

Fails == errors < MaxErrors /\ errors' = errors + 1

\* A call fails that changes nothing, or that the server does not get.
Lost == Fails /\ UNCHANGED objects

\* A call fails for its sender: it is lost, or will be served when nobody waits
\* for its answer any more.  (Served and its answer lost is that too.)
Left(calls) ==
  /\ Fails
  /\ late' \in {late, late \cup ({errors} \X calls)}
  /\ UNCHANGED <<deployments, replicasets, pods>>

\* A call that is answered, or whose failure is only logged.
Send(call) == (Serve(call) /\ UNCHANGED <<late, errors>>) \/ Left({call})

ServeLate ==
  /\ \E call \in late : Serve(call[2]) /\ late' = late \ {call}
  /\ UNCHANGED <<setController, depController, touched, changes, errors>>

-----------------------------------------------------------------------------
(***************************************************************************)
(* The ReplicaSet controller.                                              *)
(***************************************************************************)
ListReplicaSets(k) ==
  /\ stage[k] = "idle"
  /\ rss' = [rss EXCEPT ![k] = replicasets]
  /\ stage' = [stage EXCEPT ![k] = "sets"]
  /\ UNCHANGED <<objects, allPods, setsLeft, growing, doomed, depController, touched, changes, errors>>

ListPods(k) ==
  /\ stage[k] = "sets"
  /\ allPods' = [allPods EXCEPT ![k] = pods]
  /\ setsLeft' = [setsLeft EXCEPT ![k] = {x \in Sets : rss[k][x] # Absent}]
  /\ stage' = [stage EXCEPT ![k] = "loop"]
  /\ UNCHANGED <<objects, rss, growing, doomed, depController, touched, changes, errors>>

\* No call of reconcileRS is outstanding.
SetDone(k) == growing[k].count = 0 /\ doomed[k] = {}

EndPass(k, next) ==
  /\ stage' = [stage EXCEPT ![k] = next]
  /\ rss' = [rss EXCEPT ![k] = NoSets]
  /\ allPods' = [allPods EXCEPT ![k] = {}]
  /\ setsLeft' = [setsLeft EXCEPT ![k] = {}]
  /\ growing' = [growing EXCEPT ![k] = NoJob]
  /\ doomed' = [doomed EXCEPT ![k] = {}]

\* A list fails: the pass is given up.
ListFails(k) ==
  /\ stage[k] = "sets"
  /\ EndPass(k, "idle")
  /\ Lost
  /\ UNCHANGED <<depController, touched, changes>>

\* The pods listed that the selector of a set matches.
Owned(k, x) == Matching(allPods[k], x.app)

\* Mutants of Shortfall: the counts are not compared; the loop runs once too often.
ShortfallUnchecked(k, x) ==
  IF rss[k][x] = Unset THEN 0 ELSE rss[k][x] - Cardinality(Owned(k, x))

ShortfallOneMore(k, x) ==
  IF rss[k][x] = Unset \/ rss[k][x] <= Cardinality(Owned(k, x))
  THEN 0 ELSE rss[k][x] - Cardinality(Owned(k, x)) + 1

\* How many pods the set lacks: none when its replicas are nil.
Shortfall(k, x) ==
  IF rss[k][x] = Unset \/ rss[k][x] <= Cardinality(Owned(k, x))
  THEN 0 ELSE rss[k][x] - Cardinality(Owned(k, x))

\* Mutant of Surplus: one pod too few is deleted.
SurplusLessOne(k, x) ==
  IF rss[k][x] = Unset \/ Cardinality(Owned(k, x)) <= rss[k][x]
  THEN 0 ELSE Cardinality(Owned(k, x)) - rss[k][x] - 1

\* How many it has in excess.
Surplus(k, x) ==
  IF rss[k][x] = Unset \/ Cardinality(Owned(k, x)) <= rss[k][x]
  THEN 0 ELSE Cardinality(Owned(k, x)) - rss[k][x]

\* reconcileRS decides on what was listed.  The pods come in the order of a
\* range over a map, so the ones it deletes are arbitrary.
ReconcileRS(k, x) ==
  /\ stage[k] = "loop" /\ SetDone(k)
  /\ x \in setsLeft[k]
  /\ setsLeft' = [setsLeft EXCEPT ![k] = @ \ {x}]
  /\ growing' = [growing EXCEPT ![k] =
                   IF Shortfall(k, x) = 0 THEN NoJob
                                          ELSE [set |-> x, count |-> Shortfall(k, x)]]
  /\ \E ps \in SUBSET Owned(k, x) :
       /\ Cardinality(ps) = Surplus(k, x)
       /\ doomed' = [doomed EXCEPT ![k] = ps]
  /\ UNCHANGED <<objects, stage, rss, allPods, depController, touched, changes, errors>>

\* createPod: the new pod has a random name.  The POST of a name that exists
\* changes nothing, and every failure is only logged.
CreatePod(k) ==
  /\ growing[k].count > 0
  /\ growing' = [growing EXCEPT ![k] =
                   IF @.count = 1 THEN NoJob
                                  ELSE [set |-> @.set, count |-> @.count - 1]]
  /\ \E f \in Suffixes : Send(PostPod(growing[k].set, f))
  /\ UNCHANGED <<stage, rss, allPods, setsLeft, doomed, depController, touched, changes>>

\* The DELETE of a pod that is gone changes nothing.
DeletePod(k) ==
  /\ \E p \in doomed[k] :
       /\ doomed' = [doomed EXCEPT ![k] = @ \ {p}]
       /\ Send(DropPod(p))
  /\ UNCHANGED <<stage, rss, allPods, setsLeft, growing, depController, touched, changes>>

\* reconcile returns, and the controller waits for its ticker.
WaitTick(k) ==
  /\ stage[k] = "loop" /\ SetDone(k)
  /\ setsLeft[k] = {}
  /\ EndPass(k, "idle")
  /\ UNCHANGED <<objects, depController, touched, changes, errors>>

-----------------------------------------------------------------------------
(***************************************************************************)
(* The Deployment controller.                                              *)
(***************************************************************************)
\* A pass without Deployments does nothing.
ListDeployments(k) ==
  /\ dstage[k] = "idle"
  /\ deployments # NoDeployments
  /\ listed' = [listed EXCEPT ![k] = deployments]
  /\ depsLeft' = [depsLeft EXCEPT ![k] = {d \in Deployments : deployments[d] # Absent}]
  /\ dstage' = [dstage EXCEPT ![k] = "loop"]
  /\ UNCHANGED <<objects, syncing, raise, lower, setController, touched, changes, errors>>

\* No call of syncDeployment is outstanding.
SyncDone(k) == raise[k] = Nothing /\ lower[k] = {}

\* Mutant of Correction: a set that exists keeps its replicas.
CorrectionForgotten(n, spec) == Nothing

\* What syncDeployment writes to the new ReplicaSet when it has n replicas.
Correction(n, spec) == IF n = Wanted(spec) THEN Nothing ELSE Wanted(spec)

\* syncDeployment lists the ReplicaSets and finds the new one and the old ones.
SyncDeployment(k, d) ==
  LET new == NewSet(d, listed[k][d])
  IN /\ dstage[k] = "loop" /\ SyncDone(k)
     /\ d \in depsLeft[k]
     /\ depsLeft' = [depsLeft EXCEPT ![k] = @ \ {d}]
     /\ syncing' = [syncing EXCEPT ![k] = d]
     /\ lower' = [lower EXCEPT ![k] =
                    {x \in Sets : x.app = d /\ x # new
                                  /\ replicasets[x] \notin {Absent, Unset, 0}}]
     /\ IF replicasets[new] = Absent
        THEN /\ dstage' = [dstage EXCEPT ![k] = "create"]
             /\ UNCHANGED raise
        ELSE /\ raise' = [raise EXCEPT ![k] = Correction(replicasets[new], listed[k][d])]
             /\ UNCHANGED dstage
     /\ UNCHANGED <<objects, listed, setController, touched, changes, errors>>

\* A call that syncDeployment does not survive has failed.
GiveUpSync(k) ==
  /\ dstage' = [dstage EXCEPT ![k] = "loop"]
  /\ lower' = [lower EXCEPT ![k] = {}]
  /\ UNCHANGED raise

\* The list of ReplicaSets fails: the next Deployment has its turn.
SyncFails(k, d) ==
  /\ dstage[k] = "loop" /\ SyncDone(k)
  /\ d \in depsLeft[k]
  /\ depsLeft' = [depsLeft EXCEPT ![k] = @ \ {d}]
  /\ Lost
  /\ UNCHANGED <<dstage, listed, syncing, raise, lower, setController, touched, changes>>

\* createNewReplicaSet: a POST, which another manager's may have preceded.
CreateReplicaSet(k) ==
  LET spec == listed[k][syncing[k]]
      new == NewSet(syncing[k], spec)
  IN /\ dstage[k] = "create"
     /\ \/ /\ replicasets[new] = Absent
           /\ Serve(PostSet(new, Initial(spec)))
           /\ raise' = [raise EXCEPT ![k] = Correction(Initial(spec), spec)]
           /\ dstage' = [dstage EXCEPT ![k] = "loop"]
           /\ UNCHANGED <<late, lower, errors>>
        \/ /\ replicasets[new] # Absent
           /\ GiveUpSync(k)
           /\ UNCHANGED <<objects, errors>>
        \/ GiveUpSync(k) /\ Left({PostSet(new, Initial(spec))})
     /\ UNCHANGED <<listed, depsLeft, syncing, setController, touched, changes>>

\* The new ReplicaSet is scaled first; a failure is only logged.
ScaleNew(k) ==
  /\ dstage[k] = "loop"
  /\ raise[k] # Nothing
  /\ Send(PutSet(NewSet(syncing[k], listed[k][syncing[k]]), raise[k]))
  /\ raise' = [raise EXCEPT ![k] = Nothing]
  /\ UNCHANGED <<dstage, listed, depsLeft, syncing, lower, setController, touched, changes>>

\* Mutant of ScaleOld: it does not wait for the new set.
ScaleOldFirst(k) ==
  /\ dstage[k] = "loop"
  /\ \E x \in lower[k] :
       /\ Send(PutSet(x, 0))
       /\ lower' = [lower EXCEPT ![k] = @ \ {x}]
  /\ UNCHANGED <<dstage, listed, depsLeft, syncing, raise, setController, touched, changes>>

\* Then every old one is scaled to 0.
ScaleOld(k) ==
  /\ dstage[k] = "loop"
  /\ raise[k] = Nothing
  /\ \E x \in lower[k] :
       /\ Send(PutSet(x, 0))
       /\ lower' = [lower EXCEPT ![k] = @ \ {x}]
  /\ UNCHANGED <<dstage, listed, depsLeft, syncing, raise, setController, touched, changes>>

EndSync(k, next) ==
  /\ dstage' = [dstage EXCEPT ![k] = next]
  /\ listed' = [listed EXCEPT ![k] = NoDeployments]
  /\ depsLeft' = [depsLeft EXCEPT ![k] = {}]
  /\ syncing' = [syncing EXCEPT ![k] = Nothing]
  /\ raise' = [raise EXCEPT ![k] = Nothing]
  /\ lower' = [lower EXCEPT ![k] = {}]

DepWaitTick(k) ==
  /\ dstage[k] = "loop" /\ SyncDone(k)
  /\ depsLeft[k] = {}
  /\ EndSync(k, "idle")
  /\ UNCHANGED <<objects, setController, touched, changes, errors>>

\* The call that the ReplicaSet controller may have sent last, and the Deployment
\* controller.
SetCalls(k) ==
  {PostPod(growing[k].set, f) : f \in {g \in Suffixes : growing[k].count > 0}}
    \cup {DropPod(p) : p \in doomed[k]}

DepCalls(k) ==
  LET spec == listed[k][syncing[k]]
      new == NewSet(syncing[k], spec)
  IN CASE dstage[k] = "create" -> {PostSet(new, Initial(spec))}
       [] raise[k] # Nothing   -> {PutSet(new, raise[k])}
       [] OTHER                -> {PutSet(x, 0) : x \in lower[k]}

AtMostOne(calls) == {{}} \cup {{c} : c \in calls}

\* A manager ends, in the middle of a call of each controller perhaps, and it or
\* another runs the controllers.
Restart(k) ==
  /\ stage[k] # "ended"
  /\ stage[k] # "idle" \/ dstage[k] # "idle"
  /\ EndPass(k, "idle")
  /\ EndSync(k, "idle")
  /\ \E s \in AtMostOne(SetCalls(k)), d \in AtMostOne(DepCalls(k)) : Left(s \cup d)
  /\ UNCHANGED <<touched, changes>>

\* A manager that lost the lease to another ends for good.
StopLeading(k) ==
  /\ stage[k] # "ended"
  /\ \E j \in Managers \ {k} : stage[j] # "ended"
  /\ EndPass(k, "ended")
  /\ EndSync(k, "ended")
  /\ UNCHANGED <<objects, touched, changes, errors>>

-----------------------------------------------------------------------------
SetStep(k) ==
  \/ ListReplicaSets(k) \/ ListPods(k) \/ CreatePod(k) \/ DeletePod(k) \/ WaitTick(k)
  \/ \E x \in Sets : ReconcileRS(k, x)

DepStep(k) ==
  \/ ListDeployments(k) \/ CreateReplicaSet(k) \/ ScaleNew(k) \/ ScaleOld(k)
  \/ DepWaitTick(k)
  \/ \E d \in Deployments : SyncDeployment(k, d)

Next ==
  \/ \E k \in Managers : SetStep(k) \/ DepStep(k) \/ ListFails(k) \/ Restart(k) \/ StopLeading(k)
  \/ \E k \in Managers, d \in Deployments : SyncFails(k, d)
  \/ \E d \in Deployments : ApplyDeployment(d)
  \/ \E x \in Sets : ApplyReplicaSet(x)
  \/ \E p \in PodNames : RemovePod(p)
  \/ ServeLate

Spec == Init /\ [][Next]_vars

(***************************************************************************)
(* The tickers of both controllers keep firing and the API server answers  *)
(* every call.  Names are random: a set that creates pods again and again  *)
(* meets a name that is free.                                              *)
(***************************************************************************)
Fairness ==
  \A k \in Managers :
    /\ WF_vars(SetStep(k)) /\ WF_vars(DepStep(k))
    /\ \A x \in Sets : SF_vars(CreatePod(k) /\ growing[k].set = x /\ pods' # pods)

FairSpec == Spec /\ Fairness

-----------------------------------------------------------------------------
(***************************************************************************)
(* Properties.                                                             *)
(***************************************************************************)
Objects == Replicas \cup {Absent}

ObjectsOK ==
  /\ deployments \in [Deployments -> Specs \cup {Absent}]
  /\ replicasets \in [Sets -> Objects]
  /\ pods \subseteq PodNames
  /\ late \subseteq Nat \X Calls

SetControllerOK ==
  /\ stage \in [Managers -> {"idle", "sets", "loop", "ended"}]
  /\ rss \in [Managers -> [Sets -> Objects]]
  /\ allPods \in [Managers -> SUBSET PodNames]
  /\ setsLeft \in [Managers -> SUBSET Sets]
  /\ growing \in [Managers -> [set : Sets, count : Nat] \cup {NoJob}]
  /\ doomed \in [Managers -> SUBSET PodNames]

DepControllerOK ==
  /\ dstage \in [Managers -> {"idle", "loop", "create", "ended"}]
  /\ listed \in [Managers -> [Deployments -> Specs \cup {Absent}]]
  /\ depsLeft \in [Managers -> SUBSET Deployments]
  /\ syncing \in [Managers -> Deployments \cup {Nothing}]
  /\ raise \in [Managers -> (Replicas \ {Unset}) \cup {Nothing}]
  /\ lower \in [Managers -> SUBSET Sets]

BoundsOK == touched \subseteq Deployments /\ changes \in 0..MaxChanges /\ errors \in 0..MaxErrors

TypeOK == ObjectsOK /\ SetControllerOK /\ DepControllerOK /\ BoundsOK

SetsOf(app) == {x \in Sets : x.app = app}

\* Managers that work on stale lists make too many pods, but only so many: each
\* makes at most once what each ReplicaSet of the application asks for, and a call
\* that failed may make one more.
NoOvershoot ==
  \A app \in Deployments \cup Singles : \E n \in Replicas \ {Unset} :
    Cardinality(Matching(pods, app))
      <= Cardinality(Managers) * Cardinality(SetsOf(app)) * n + errors

\* One manager is left of those that ran.
OneLeft == \E k \in Managers : \A j \in Managers \ {k} : stage[j] = "ended"

\* Whatever several managers did at once, the set of an application that runs by
\* itself ends up with its replicas once one of them is left.
ReplicasSettle ==
  \A x \in Sets : x.app \in Singles =>
    <>[](OneLeft /\ replicasets[x] \in Nat
           => Cardinality(Matching(pods, x.app)) = replicasets[x])

\* A rollout ends: the set of the current template has the replicas that the
\* Deployment wants, every other set of it has none, or nil if users wrote that.
RolloutSettles ==
  \A d \in Deployments :
    <>[](OneLeft /\ deployments[d] # Absent =>
           LET new == NewSet(d, deployments[d])
           IN /\ replicasets[new] = Wanted(deployments[d])
              /\ \A x \in Sets : x.app = d /\ x # new => replicasets[x] \in {Absent, Unset, 0})

\* Some set of the Deployment has replicas.
Up(d) == \E x \in Sets : x.app = d /\ replicasets[x] \in Nat \ {0}

\* A rollout by one manager, no call of which fails, is never without replicas:
\* the new set has them before the old ones lose theirs.  Users may do so, to the
\* sets or behind the controller's back.
CapacityKept ==
  [][errors' = 0 => \A d \in Deployments \ touched' : Up(d) => Up(d)']_vars

\* A Deployment ends up with as many pods as it wants.
PodsSettle ==
  \A d \in Deployments :
    <>[](deployments[d] # Absent =>
           Cardinality(Matching(pods, d)) = Wanted(deployments[d]))
=============================================================================
