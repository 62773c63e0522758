---------------------------- MODULE ServiceProxy ----------------------------
(***************************************************************************)
(* From a Service to its traffic: the service controllers of the managers  *)
(* (internal/controller/service), which derive Endpoints from Services and *)
(* the status of Pods, and the proxy of a node (internal/proxy), which     *)
(* keeps a listener per node port and a cache of Endpoints, and forwards   *)
(* each connection to an address of the cache.                             *)
(*                                                                         *)
(* Addresses belong to containers.  The Docker engine of each node gives   *)
(* its own, the same as another's perhaps, and gives them again; a pod is  *)
(* known by the address its kubelet reported last.                         *)
(*                                                                         *)
(* Both poll, and read one object at a time: what a manager writes and     *)
(* what the proxy caches belong to several instants.  Endpoints outlive    *)
(* their Service, in the API server and in the cache, and a listener keeps *)
(* the name of the service it was opened for.                              *)
(*                                                                         *)
(* A service has one port, and a pod one container on a node of its own.   *)
(***************************************************************************)
EXTENDS Naturals, FiniteSets, Sequences

CONSTANTS
  Services,     \* names of services, all with a selector
  Pods,         \* pods
  Backs,        \* Backs[s]: the pods the selector of s matches
  Home,         \* Home[p]: the node of pod p
  IPs,          \* addresses the Docker engines give to containers
  NodePorts,    \* ports on which a node may serve a service
  Managers,     \* controller managers whose service controller runs
  Conns,        \* connections that clients have open at a time
  MaxChanges,   \* bound: changes to services and pods
  MaxErrors,    \* bound: failed calls, containers and processes that end
  Absent,       \* there is no such object
  None          \* no address, no node port, no service, no pod

ASSUME ProxyAssumption ==
  /\ Backs \in [Services -> SUBSET Pods] /\ IsFiniteSet(Pods)
  /\ IPs \subseteq Nat
  /\ MaxChanges \in Nat /\ MaxErrors \in Nat
  /\ Absent \notin NodePorts \cup IPs \cup {None}
  /\ None \notin NodePorts \cup Services \cup Pods \cup IPs

VARIABLES
  services,     \* the Service objects: their node port, if any
  pods,         \* the Pod objects: the address in their status, if any
  endpoints,    \* the Endpoints objects: a list of addresses
  late,         \* calls that failed for their sender and may be served yet
  held,         \* the address of each pod's container, if it runs
  todo,         \* the services each manager has listed and not yet reconciled
  job,          \* what it does for one service
  wanted,       \* the service the proxy lists for each node port
  unread,       \* the services whose endpoints it has still to read
  syncing,      \* whether it is in a pass
  cache,        \* the endpoints it has read
  listeners,    \* the service each open port was opened for
  deaf,         \* open ports whose serve has returned
  conns,        \* the connections it serves
  owners,       \* history: the services that ever had each node port
  had,          \* history: the addresses each pod ever had
  changes,      \* changes so far
  errors        \* failures so far

objects == <<services, pods, endpoints, late>>
managers == <<todo, job>>
pass == <<wanted, unread, syncing>>
proxy == <<pass, cache, listeners, deaf>>
history == <<owners, had>>
vars == <<objects, held, managers, proxy, conns, history, changes, errors>>

-----------------------------------------------------------------------------
NoJob == [service |-> None, step |-> "none", list |-> <<>>]
NoPorts == [x \in NodePorts |-> None]
NoConn == [port |-> None, service |-> None, ip |-> None, backend |-> None]

\* An engine gives no two containers of its node one address.
Distinct == \A p, q \in Pods : p # q /\ Home[p] = Home[q] /\ held[p] # None => held[p] # held[q]

Init ==
  /\ services = [s \in Services |-> Absent]
  /\ held \in [Pods -> IPs \cup {None}] /\ Distinct
  /\ pods = [p \in Pods |-> IF held[p] = None THEN Absent ELSE held[p]]
  /\ endpoints = [s \in Services |-> Absent]
  /\ late = {}
  /\ todo = [m \in Managers |-> {}]
  /\ job = [m \in Managers |-> NoJob]
  /\ wanted = NoPorts /\ unread = {} /\ syncing = FALSE
  /\ cache = [s \in Services |-> Absent]
  /\ listeners = NoPorts /\ deaf = {}
  /\ conns = [c \in Conns |-> NoConn]
  /\ owners = [x \in NodePorts |-> {}]
  /\ had = [p \in Pods |-> {held[p]} \ {None}]
  /\ changes = 0
  /\ errors = 0

-----------------------------------------------------------------------------
(***************************************************************************)
(* Users.                                                                  *)
(***************************************************************************)
Change ==
  /\ changes < MaxChanges
  /\ changes' = changes + 1
  /\ UNCHANGED <<endpoints, late, held, managers, proxy, conns, had, errors>>

Existing == {s \in Services : services[s] # Absent}

\* A service is created, or given another node port: the server compares it
\* with no other service.
WriteService(s) ==
  /\ Change
  /\ \E x \in NodePorts \cup {None} :
       /\ x # services[s]
       /\ services' = [services EXCEPT ![s] = x]
       /\ owners' = [y \in NodePorts |-> IF y = x THEN owners[y] \cup {s} ELSE owners[y]]
  /\ UNCHANGED pods

DeleteService(s) ==
  /\ Change
  /\ s \in Existing
  /\ services' = [services EXCEPT ![s] = Absent]
  /\ UNCHANGED <<pods, owners>>

CreatePod(p) ==
  /\ Change
  /\ pods[p] = Absent
  /\ pods' = [pods EXCEPT ![p] = None]
  /\ UNCHANGED <<services, owners>>

DeletePod(p) ==
  /\ Change
  /\ pods[p] # Absent
  /\ pods' = [pods EXCEPT ![p] = Absent]
  /\ UNCHANGED <<services, owners>>

Failure == errors < MaxErrors /\ errors' = errors + 1

-----------------------------------------------------------------------------
(***************************************************************************)
(* Kubelets and Docker engines, as a service sees them.                    *)
(***************************************************************************)
NodeOnly == UNCHANGED <<services, endpoints, late, managers, proxy, conns, owners, changes>>

FreeIPs(n) == IPs \ {held[p] : p \in {q \in Pods : Home[q] = n}}

\* A container is run for a pod that has none running: any free address is its.
RunPod(p) ==
  /\ pods[p] # Absent /\ held[p] = None
  /\ \E ip \in FreeIPs(Home[p]) :
       /\ held' = [held EXCEPT ![p] = ip]
       /\ had' = [had EXCEPT ![p] = @ \cup {ip}]
  /\ NodeOnly /\ UNCHANGED <<pods, errors>>

\* A container is removed with its pod, or ends: the status keeps its address.
ContainerEnds(p) ==
  /\ held[p] # None
  /\ held' = [held EXCEPT ![p] = None]
  /\ IF pods[p] = Absent THEN UNCHANGED errors ELSE Failure
  /\ NodeOnly /\ UNCHANGED <<pods, had>>

\* The status says Running and the address that was asked for, or Pending when the
\* pass found no container yet.
ReportStatus(p) ==
  /\ pods[p] \notin {Absent, held[p]}
  /\ \E ip \in {held[p], None} \ {pods[p]} : pods' = [pods EXCEPT ![p] = ip]
  /\ NodeOnly /\ UNCHANGED <<held, had, errors>>

-----------------------------------------------------------------------------
(***************************************************************************)
(* The service controller.                                                 *)
(***************************************************************************)
NextJob(m, j) == job' = [job EXCEPT ![m] = j]

ManagerOnly == UNCHANGED <<services, pods, held, proxy, conns, history, changes>>

\* syncServices.  A pass without services does nothing.
ListServices(m) ==
  /\ job[m] = NoJob /\ todo[m] = {}
  /\ Existing # {}
  /\ todo' = [todo EXCEPT ![m] = Existing]
  /\ ManagerOnly /\ UNCHANGED <<endpoints, late, job, errors>>

\* Mutant of Matching: the selector is not looked at.
MatchingAll(s) == {p \in Pods : pods[p] \in IPs}

\* The pods that the selector matches and that are Running and have an address.
Matching(s) == {p \in Backs[s] : pods[p] \in IPs}

Addresses == [ip : IPs, node : {Home[p] : p \in Pods}]

\* Mutant of Address: the fields are swapped.
AddressSwapped(p) == [ip |-> Home[p], node |-> pods[p]]

Address(p) == [ip |-> pods[p], node |-> Home[p]]

Orders(ps) == {f \in [1..Cardinality(ps) -> ps] : \A i, j \in DOMAIN f : i # j => f[i] # f[j]}

\* Mutant of Listings: the addresses are not sorted.
ListingsUnsorted(s) == {[i \in DOMAIN f |-> Address(f[i])] : f \in Orders(Matching(s))}

\* The lists that may be made of them: pods come in the order of a range over a
\* map, and sort.Slice compares addresses without their nodes.
Listings(s) ==
  {[i \in DOMAIN f |-> Address(f[i])] :
     f \in {g \in Orders(Matching(s)) : \A i, j \in DOMAIN g : i < j => pods[g[i]] <= pods[g[j]]}}

\* reconcileService: the pods that match are listed,
MatchPods(m, s) ==
  /\ job[m] = NoJob
  /\ s \in todo[m]
  /\ todo' = [todo EXCEPT ![m] = @ \ {s}]
  /\ \E l \in Listings(s) : NextJob(m, [service |-> s, step |-> "get", list |-> l])
  /\ ManagerOnly /\ UNCHANGED <<endpoints, late, errors>>

\* Mutant of Same: without running pods there is nothing to write.
SameOrNone(s, l) == endpoints[s] = l \/ l = <<>>

\* What reflect.DeepEqual finds equal: an empty list is left out of the JSON and
\* read back as nil, which it tells from the empty list the controller made.
Same(s, l) == endpoints[s] = l /\ l # <<>>

\* then the Endpoints are read, and what is to be done with them,
GetEndpoints(m) ==
  LET s == job[m].service
      Do(step) == NextJob(m, [job[m] EXCEPT !.step = step])
  IN /\ job[m].step = "get"
     /\ \/ endpoints[s] = Absent /\ Do("create")
        \/ endpoints[s] # Absent /\ ~Same(s, job[m].list) /\ Do("update")
        \/ endpoints[s] # Absent /\ Same(s, job[m].list) /\ NextJob(m, NoJob)
     /\ ManagerOnly /\ UNCHANGED <<endpoints, late, todo, errors>>

\* A POST, refused when another manager has made them meanwhile, or a PUT.
Serve(call) ==
  endpoints' = IF call.step = "create" /\ endpoints[call.service] # Absent
               THEN endpoints
               ELSE [endpoints EXCEPT ![call.service] = call.list]

Writing(m) == job[m].step \in {"create", "update"}

\* then they are written.
WriteEndpoints(m) ==
  /\ Writing(m)
  /\ Serve(job[m])
  /\ NextJob(m, NoJob)
  /\ ManagerOnly /\ UNCHANGED <<late, todo, errors>>

\* A call fails and the service is given up for this pass: it was not served, or
\* will be when its sender, which may have ended, does not wait for it any more.
CallFails(m) ==
  /\ Failure
  /\ job[m] # NoJob
  /\ \/ UNCHANGED late
     \/ Writing(m) /\ late' = late \cup {<<errors, job[m]>>}
  /\ NextJob(m, NoJob)
  /\ ManagerOnly /\ UNCHANGED <<endpoints, todo>>

ServeLate ==
  /\ \E call \in late : Serve(call[2]) /\ late' = late \ {call}
  /\ ManagerOnly /\ UNCHANGED <<managers, errors>>

\* The manager ends, and another or the same starts over.
EndManager(m) ==
  /\ Failure
  /\ todo[m] # {} \/ job[m] # NoJob
  /\ todo' = [todo EXCEPT ![m] = {}]
  /\ NextJob(m, NoJob)
  /\ ManagerOnly /\ UNCHANGED <<endpoints, late>>

-----------------------------------------------------------------------------
(***************************************************************************)
(* The proxy: sync.                                                        *)
(***************************************************************************)
ProxyOnly == UNCHANGED <<objects, held, managers, conns, history, changes>>

Wanting(x) == {s \in Services : services[s] = x}

\* Services are listed in any order, and the last one to want a port gets it.
ListPorts ==
  /\ ~syncing /\ syncing' = TRUE
  /\ wanted' \in {w \in [NodePorts -> Services \cup {None}] :
                   \A x \in NodePorts : IF Wanting(x) = {} THEN w[x] = None
                                                           ELSE w[x] \in Wanting(x)}
  /\ unread' = {s \in Services : services[s] \in NodePorts}
  /\ ProxyOnly /\ UNCHANGED <<cache, listeners, deaf, errors>>

\* The cache keeps what it has when there are no Endpoints.
Cached(s) == IF endpoints[s] = Absent THEN cache[s] ELSE endpoints[s]

ReadEndpoints(s) ==
  /\ s \in unread
  /\ unread' = unread \ {s}
  /\ \/ cache' = [cache EXCEPT ![s] = Cached(s)] /\ UNCHANGED errors
     \/ Failure /\ UNCHANGED cache
  /\ ProxyOnly /\ UNCHANGED <<wanted, syncing, listeners, deaf>>

\* Mutant of Rewire: ports that are not wanted any more stay open.
RewireOpens ==
  /\ syncing /\ unread = {}
  /\ listeners' = [x \in NodePorts |-> IF listeners[x] = None THEN wanted[x]
                                                           ELSE listeners[x]]
  /\ syncing' = FALSE
  /\ wanted' = NoPorts
  /\ ProxyOnly /\ UNCHANGED <<unread, cache, deaf, errors>>

\* The part of sync under the lock.  A port that is open and still wanted is left
\* alone, whatever service it is wanted for; one that is busy stays closed.
Rewire ==
  /\ syncing /\ unread = {}
  /\ \E busy \in SUBSET {x \in NodePorts : wanted[x] # None /\ listeners[x] = None} :
       /\ IF busy = {} THEN UNCHANGED errors ELSE Failure
       /\ listeners' = [x \in NodePorts |->
                          IF wanted[x] = None \/ x \in busy THEN None
                          ELSE IF listeners[x] = None THEN wanted[x] ELSE listeners[x]]
  /\ deaf' = {x \in deaf : wanted[x] # None}
  /\ syncing' = FALSE
  /\ wanted' = NoPorts
  /\ ProxyOnly /\ UNCHANGED <<unread, cache>>

\* The proxy ends and is started again.
RestartProxy ==
  /\ Failure
  /\ syncing' = FALSE /\ wanted' = NoPorts /\ unread' = {}
  /\ cache' = [s \in Services |-> Absent]
  /\ listeners' = NoPorts /\ deaf' = {}
  /\ conns' = [c \in Conns |-> NoConn]
  /\ UNCHANGED <<objects, held, managers, history, changes>>

-----------------------------------------------------------------------------
(***************************************************************************)
(* The proxy: connections.                                                 *)
(***************************************************************************)
ConnOnly == UNCHANGED <<objects, held, managers, pass, cache, listeners, history, changes>>

\* serve: the handler is given the name its listener was opened for.
Accept(c, x) ==
  /\ conns[c] = NoConn
  /\ listeners[x] # None /\ x \notin deaf
  /\ conns' = [conns EXCEPT ![c] = [NoConn EXCEPT !.port = x, !.service = listeners[x]]]
  /\ ConnOnly /\ UNCHANGED <<deaf, errors>>

\* Any error of Accept ends serve; the port stays open and in listeners.
AcceptFails(x) ==
  /\ Failure
  /\ listeners[x] # None /\ x \notin deaf
  /\ deaf' = deaf \cup {x}
  /\ ConnOnly /\ UNCHANGED conns

\* handleConnection: an address that is cached by now, at random, and whoever
\* has it on whichever node.  The port may have been closed meanwhile.
Dial(c) ==
  LET s == conns[c].service
  IN /\ s # None /\ conns[c].backend = None
     /\ cache[s] # Absent
     /\ \E i \in DOMAIN cache[s], p \in Pods :
          /\ held[p] = cache[s][i].ip
          /\ conns' = [conns EXCEPT ![c].ip = held[p], ![c].backend = p]
     /\ ConnOnly /\ UNCHANGED <<deaf, errors>>

\* There is no address, it does not answer, or an end is closed.
Close(c) ==
  /\ conns[c] # NoConn
  /\ conns' = [conns EXCEPT ![c] = NoConn]
  /\ ConnOnly /\ UNCHANGED <<deaf, errors>>

-----------------------------------------------------------------------------
ManagerStep(m) ==
  \/ ListServices(m) \/ GetEndpoints(m) \/ WriteEndpoints(m)
  \/ \E s \in Services : MatchPods(m, s)

ProxyStep == ListPorts \/ Rewire \/ \E s \in Services : ReadEndpoints(s)

Next ==
  \/ \E s \in Services : WriteService(s) \/ DeleteService(s)
  \/ \E p \in Pods :
       CreatePod(p) \/ DeletePod(p) \/ RunPod(p) \/ ContainerEnds(p) \/ ReportStatus(p)
  \/ \E m \in Managers : ManagerStep(m) \/ CallFails(m) \/ EndManager(m)
  \/ ServeLate
  \/ ProxyStep
  \/ RestartProxy
  \/ \E x \in NodePorts : AcceptFails(x)
  \/ \E c \in Conns : Dial(c) \/ Close(c) \/ \E x \in NodePorts : Accept(c, x)

Spec == Init /\ [][Next]_vars

(***************************************************************************)
(* The tickers of the controllers and of the proxy keep firing and the API *)
(* server answers.  Nothing is asked of kubelets.                          *)
(***************************************************************************)
FairSpec == Spec /\ WF_vars(ProxyStep) /\ \A m \in Managers : WF_vars(ManagerStep(m))

-----------------------------------------------------------------------------
(***************************************************************************)
(* Properties.                                                             *)
(***************************************************************************)
Lists == Seq(Addresses)

Jobs == [service : Services \cup {None}, step : {"none", "get", "create", "update"}, list : Lists]

ObjectsOK ==
  /\ services \in [Services -> NodePorts \cup {None, Absent}]
  /\ pods \in [Pods -> IPs \cup {None, Absent}]
  /\ endpoints \in [Services -> Lists \cup {Absent}]
  /\ late \subseteq Nat \X Jobs

NodesOK ==
  /\ held \in [Pods -> IPs \cup {None}]
  /\ had \in [Pods -> SUBSET IPs]
  /\ Distinct

ManagersOK ==
  /\ todo \in [Managers -> SUBSET Services]
  /\ job \in [Managers -> Jobs]

ProxyOK ==
  /\ wanted \in [NodePorts -> Services \cup {None}]
  /\ unread \subseteq Services
  /\ syncing \in BOOLEAN
  /\ cache \in [Services -> Lists \cup {Absent}]
  /\ listeners \in [NodePorts -> Services \cup {None}]
  /\ deaf \subseteq NodePorts

ConnsOK ==
  conns \in [Conns -> [port : NodePorts \cup {None}, service : Services \cup {None},
                       ip : IPs \cup {None}, backend : Pods \cup {None}]]

BoundsOK ==
  /\ owners \in [NodePorts -> SUBSET Services]
  /\ changes \in 0..MaxChanges
  /\ errors \in 0..MaxErrors

\* Every variable keeps its type: what is listed, stored, cached and dialled are
\* addresses of nodes.
TypeOK == ObjectsOK /\ NodesOK /\ ManagersOK /\ ProxyOK /\ ConnsOK /\ BoundsOK

\* A connection reaches an address that a pod of a service which has, or once had,
\* the node port it came in on has, or once had: no list, cache, listener or late
\* call between brings in any other address, whoever answers there by now.
RightBackend ==
  \A c \in Conns : conns[c].backend # None =>
    \E s \in owners[conns[c].port] : \E p \in Backs[s] : conns[c].ip \in had[p]

\* In the end the Endpoints of every service list its running pods, whoever
\* wrote them last and from whatever list.
EndpointsSettle ==
  \A s \in Services : <>[](s \in Existing => endpoints[s] \in Listings(s))

\* Two nodes gave one address.
Tied(l) == \E i, j \in DOMAIN l : l[i].ip = l[j].ip /\ l[i].node # l[j].node

\* In the end only Endpoints that are empty, or in which two nodes have the same
\* address, are written again.
OnlyTiedRewritten ==
  \A m \in Managers : <>[](Writing(m) => job[m].list = <<>> \/ Tied(job[m].list))

\* In the end a port nobody wants is closed, and a port that only ever was one
\* service's leads to the running pods of that service, unless serve gave it up.
TrafficSettles ==
  \A x \in NodePorts :
    <>[](/\ Wanting(x) = {} => listeners[x] = None
         /\ \A s \in Wanting(x) :
              owners[x] = {s} /\ x \notin deaf
                => listeners[x] = s /\ cache[s] \in Listings(s))
=============================================================================
