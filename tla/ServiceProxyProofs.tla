------------------------- MODULE ServiceProxyProofs -------------------------
(***************************************************************************)
(* Proofs about ServiceProxy: the types, and that a connection reaches an  *)
(* address that a pod of a service which had its port has or had.          *)
(***************************************************************************)
EXTENDS ServiceProxy, FiniteSetTheorems, SequenceTheorems, TLAPS

-----------------------------------------------------------------------------
(***************************************************************************)
(* Type correctness.                                                       *)
(***************************************************************************)
LEMMA NothingIsKnown == [s \in Services |-> Absent] \in [Services -> Lists \cup {Absent}]
OBVIOUS

LEMMA NoConnType ==
  NoConn \in [port : NodePorts \cup {None}, service : Services \cup {None},
              ip : IPs \cup {None}, backend : Pods \cup {None}]
BY DEF NoConn

LEMMA NoJobType == NoJob \in Jobs
<1>1. <<>> \in Lists BY DEF Lists
<1> QED BY <1>1 DEF NoJob, Jobs

LEMMA InitTypes == Init => TypeOK
<1> SUFFICES ASSUME Init PROVE TypeOK OBVIOUS
<1> USE ProxyAssumption DEF Init
<1>1. ObjectsOK
  <2>1. pods \in [Pods -> IPs \cup {None, Absent}] OBVIOUS
  <2>2. endpoints \in [Services -> Lists \cup {Absent}] BY NothingIsKnown
  <2> QED BY <2>1, <2>2 DEF ObjectsOK
<1>2. NodesOK BY DEF NodesOK
<1>3. ManagersOK BY NoJobType DEF ManagersOK
<1>4. ProxyOK
  <2>1. cache \in [Services -> Lists \cup {Absent}] BY NothingIsKnown
  <2> QED BY <2>1 DEF ProxyOK, NoPorts
<1>5. ConnsOK BY NoConnType DEF ConnsOK
<1>6. BoundsOK BY DEF BoundsOK
<1> QED BY <1>1, <1>2, <1>3, <1>4, <1>5, <1>6 DEF TypeOK

\* What an action leaves alone keeps its type.
LEMMA SameTypes ==
  /\ ObjectsOK /\ UNCHANGED objects => ObjectsOK'
  /\ NodesOK /\ UNCHANGED <<held, had>> => NodesOK'
  /\ ManagersOK /\ UNCHANGED managers => ManagersOK'
  /\ ProxyOK /\ UNCHANGED proxy => ProxyOK'
  /\ ConnsOK /\ UNCHANGED conns => ConnsOK'
BY DEF ObjectsOK, objects, NodesOK, Distinct, ManagersOK, managers, ProxyOK, proxy, pass, ConnsOK

\* A call is answered, or is the next of a bounded number of failures.
LEMMA BoundsKept ==
  BoundsOK /\ UNCHANGED <<owners, changes>> /\ (Failure \/ UNCHANGED errors) => BoundsOK'
BY ProxyAssumption DEF BoundsOK, Failure

LEMMA UserStepTypes ==
  ASSUME TypeOK,
         \/ \E s \in Services : WriteService(s) \/ DeleteService(s)
         \/ \E p \in Pods : CreatePod(p) \/ DeletePod(p)
  PROVE  TypeOK'
<1>0. Change => NodesOK' /\ ManagersOK' /\ ProxyOK' /\ ConnsOK' /\ changes' \in 0..MaxChanges
  BY SameTypes, ProxyAssumption DEF TypeOK, Change, BoundsOK
<1>1. ASSUME NEW s \in Services, WriteService(s) PROVE TypeOK'
  <2>1. PICK x \in NodePorts \cup {None} :
          /\ services' = [services EXCEPT ![s] = x]
          /\ owners' = [y \in NodePorts |-> IF y = x THEN owners[y] \cup {s} ELSE owners[y]]
    BY <1>1 DEF WriteService
  <2>2. ObjectsOK' BY <1>1, <2>1 DEF TypeOK, ObjectsOK, WriteService, Change
  <2>3. BoundsOK' BY <1>0, <1>1, <2>1 DEF TypeOK, BoundsOK, WriteService, Change
  <2> QED BY <1>0, <1>1, <2>2, <2>3 DEF TypeOK, WriteService
<1>2. ASSUME NEW s \in Services, DeleteService(s) PROVE TypeOK'
  <2>1. ObjectsOK' BY <1>2 DEF TypeOK, ObjectsOK, DeleteService, Change
  <2>2. BoundsOK' BY <1>0, <1>2 DEF TypeOK, BoundsOK, DeleteService, Change
  <2> QED BY <1>0, <1>2, <2>1, <2>2 DEF TypeOK, DeleteService
<1>3. ASSUME NEW p \in Pods, CreatePod(p) \/ DeletePod(p) PROVE TypeOK'
  <2>1. ObjectsOK' BY <1>3 DEF TypeOK, ObjectsOK, CreatePod, DeletePod, Change
  <2>2. BoundsOK' BY <1>0, <1>3 DEF TypeOK, BoundsOK, CreatePod, DeletePod, Change
  <2> QED BY <1>0, <1>3, <2>1, <2>2 DEF TypeOK, CreatePod, DeletePod
<1> QED BY <1>1, <1>2, <1>3

LEMMA NodeStepTypes ==
  ASSUME TypeOK, NEW p \in Pods, RunPod(p) \/ ContainerEnds(p) \/ ReportStatus(p)
  PROVE  TypeOK'
<1>0. NodeOnly => ManagersOK' /\ ProxyOK' /\ ConnsOK' BY SameTypes DEF TypeOK, NodeOnly
<1>1. CASE RunPod(p)
  <2>1. PICK ip \in FreeIPs(Home[p]) :
          held' = [held EXCEPT ![p] = ip] /\ had' = [had EXCEPT ![p] = @ \cup {ip}]
    BY <1>1 DEF RunPod
  <2>2. ip \in IPs /\ \A q \in Pods : Home[q] = Home[p] => held[q] # ip BY DEF FreeIPs
  <2>3. Distinct' BY <2>1, <2>2 DEF TypeOK, NodesOK, Distinct
  <2>4. NodesOK' BY <2>1, <2>2, <2>3 DEF TypeOK, NodesOK
  <2>5. ObjectsOK' BY <1>1, SameTypes DEF TypeOK, RunPod, NodeOnly, objects
  <2> QED BY <1>0, <1>1, <2>4, <2>5, BoundsKept DEF TypeOK, RunPod, NodeOnly
<1>2. CASE ContainerEnds(p)
  <2>1. Distinct' BY <1>2 DEF TypeOK, NodesOK, Distinct, ContainerEnds
  <2>2. NodesOK' BY <1>2, <2>1 DEF TypeOK, NodesOK, ContainerEnds
  <2>3. ObjectsOK' BY <1>2, SameTypes DEF TypeOK, ContainerEnds, NodeOnly, objects
  <2> QED BY <1>0, <1>2, <2>2, <2>3, BoundsKept DEF TypeOK, ContainerEnds, NodeOnly
<1>3. CASE ReportStatus(p)
  <2>1. ObjectsOK' BY <1>3 DEF TypeOK, ObjectsOK, NodesOK, ReportStatus, NodeOnly
  <2>2. NodesOK' BY <1>3, SameTypes DEF TypeOK, ReportStatus
  <2> QED BY <1>0, <1>3, <2>1, <2>2, BoundsKept DEF TypeOK, ReportStatus, NodeOnly
<1> QED BY <1>1, <1>2, <1>3

\* What a list says: its addresses are those of pods that match.
LEMMA ListingsKnown ==
  ASSUME NEW s \in Services, NEW l \in Listings(s)
  PROVE  /\ l \in Lists
         /\ \A i \in DOMAIN l : \E p \in Matching(s) : l[i].ip = pods[p]
<1>1. PICK f \in Orders(Matching(s)) : l = [i \in DOMAIN f |-> Address(f[i])] BY DEF Listings
<1> DEFINE n == Cardinality(Matching(s))
<1>2. Matching(s) \in SUBSET Pods /\ \A p \in Matching(s) : pods[p] \in IPs
  BY ProxyAssumption DEF Matching
<1>3. n \in Nat BY <1>2, FS_Subset, FS_CardinalityType, ProxyAssumption
<1>4. f \in [1..n -> Matching(s)] BY DEF Orders
<1>5. \A i \in 1..n : Address(f[i]) \in Addresses BY <1>2, <1>4 DEF Address, Addresses
<1>6. l \in [1..n -> Addresses] BY <1>1, <1>4, <1>5
<1>7. l \in Lists BY <1>3, <1>6, SeqDef DEF Lists
<1>8. \A i \in DOMAIN l : f[i] \in Matching(s) /\ l[i].ip = pods[f[i]]
  BY <1>1, <1>4 DEF Address
<1> QED BY <1>7, <1>8

LEMMA ServeTypes ==
  ASSUME TypeOK, NEW call \in Jobs, Serve(call)
  PROVE  endpoints' \in [Services -> Lists \cup {Absent}]
<1>1. call.list \in Lists BY DEF Jobs
<1> QED BY <1>1 DEF TypeOK, ObjectsOK, Serve

LEMMA ManagerStepTypes ==
  ASSUME TypeOK, NEW m \in Managers, ManagerStep(m) \/ CallFails(m) \/ EndManager(m)
  PROVE  TypeOK'
<1> USE DEF ManagerOnly
<1>0. ManagerOnly => NodesOK' /\ ProxyOK' /\ ConnsOK' BY SameTypes DEF TypeOK, history
<1>a. job[m] \in Jobs BY DEF TypeOK, ManagersOK
<1>b. NextJob(m, NoJob) => job' \in [Managers -> Jobs]
  BY NoJobType DEF NextJob, TypeOK, ManagersOK
<1>1. CASE ListServices(m)
  <2>1. ManagersOK' BY <1>1 DEF TypeOK, ManagersOK, ListServices, Existing
  <2>2. ObjectsOK' BY <1>1, SameTypes DEF TypeOK, ListServices, objects
  <2> QED BY <1>0, <1>1, <2>1, <2>2, BoundsKept DEF TypeOK, ListServices, history
<1>2. ASSUME NEW s \in Services, MatchPods(m, s) PROVE TypeOK'
  <2>1. PICK l \in Listings(s) : NextJob(m, [service |-> s, step |-> "get", list |-> l])
    BY <1>2 DEF MatchPods
  <2>2. [service |-> s, step |-> "get", list |-> l] \in Jobs BY <2>1, ListingsKnown DEF Jobs
  <2>3. ManagersOK' BY <1>2, <2>1, <2>2 DEF TypeOK, ManagersOK, MatchPods, NextJob
  <2>4. ObjectsOK' BY <1>2, SameTypes DEF TypeOK, MatchPods, objects
  <2> QED BY <1>0, <1>2, <2>3, <2>4, BoundsKept DEF TypeOK, MatchPods, history
<1>3. CASE GetEndpoints(m)
  <2>1. \A step \in {"create", "update"} : [job[m] EXCEPT !.step = step] \in Jobs
    BY <1>a DEF Jobs
  <2>2. PICK j \in Jobs : NextJob(m, j) BY <1>3, <2>1, NoJobType DEF GetEndpoints
  <2>3. ManagersOK' BY <1>3, <2>2 DEF TypeOK, ManagersOK, GetEndpoints, NextJob
  <2>4. ObjectsOK' BY <1>3, SameTypes DEF TypeOK, GetEndpoints, objects
  <2> QED BY <1>0, <1>3, <2>3, <2>4, BoundsKept DEF TypeOK, GetEndpoints, history
<1>4. CASE WriteEndpoints(m)
  <2>1. ManagersOK' BY <1>4, <1>b DEF TypeOK, ManagersOK, WriteEndpoints
  <2>2. ObjectsOK' BY <1>4, <1>a, ServeTypes DEF TypeOK, ObjectsOK, WriteEndpoints
  <2> QED BY <1>0, <1>4, <2>1, <2>2, BoundsKept DEF TypeOK, WriteEndpoints, history
<1>5. CASE CallFails(m)
  <2>1. ManagersOK' BY <1>5, <1>b DEF TypeOK, ManagersOK, CallFails
  <2>2. errors \in Nat BY ProxyAssumption DEF TypeOK, BoundsOK
  <2>3. late' \subseteq Nat \X Jobs BY <1>5, <1>a, <2>2 DEF TypeOK, ObjectsOK, CallFails
  <2>4. ObjectsOK' BY <1>5, <2>3 DEF TypeOK, ObjectsOK, CallFails
  <2> QED BY <1>0, <1>5, <2>1, <2>4, BoundsKept DEF TypeOK, CallFails, history
<1>6. CASE EndManager(m)
  <2>1. ManagersOK' BY <1>6, <1>b DEF TypeOK, ManagersOK, EndManager
  <2>2. ObjectsOK' BY <1>6, SameTypes DEF TypeOK, EndManager, objects
  <2> QED BY <1>0, <1>6, <2>1, <2>2, BoundsKept DEF TypeOK, EndManager, history
<1> QED BY <1>1, <1>2, <1>3, <1>4, <1>5, <1>6 DEF ManagerStep

LEMMA ServeLateTypes == TypeOK /\ ServeLate => TypeOK'
<1> SUFFICES ASSUME TypeOK, ServeLate PROVE TypeOK' OBVIOUS
<1>1. PICK call \in late : Serve(call[2]) /\ late' = late \ {call} BY DEF ServeLate
<1>2. call[2] \in Jobs BY DEF TypeOK, ObjectsOK
<1>3. ObjectsOK' BY <1>1, <1>2, ServeTypes DEF TypeOK, ObjectsOK, ServeLate, ManagerOnly
<1> QED BY <1>3, SameTypes, BoundsKept DEF TypeOK, ServeLate, ManagerOnly, history

LEMMA ProxyStepTypes ==
  ASSUME TypeOK, ProxyStep
  PROVE  TypeOK'
<1>0. ProxyOnly => ObjectsOK' /\ NodesOK' /\ ManagersOK' /\ ConnsOK'
  BY SameTypes DEF TypeOK, ProxyOnly, history
<1>1. CASE ListPorts
  <2>1. ProxyOK' BY <1>1 DEF TypeOK, ProxyOK, ListPorts
  <2> QED BY <1>0, <1>1, <2>1, BoundsKept DEF TypeOK, ListPorts, ProxyOnly, history
<1>2. ASSUME NEW s \in Services, ReadEndpoints(s) PROVE TypeOK'
  <2>1. Cached(s) \in Lists \cup {Absent} BY DEF TypeOK, ProxyOK, ObjectsOK, Cached
  <2>2. cache' \in [Services -> Lists \cup {Absent}]
    BY <1>2, <2>1 DEF TypeOK, ProxyOK, ReadEndpoints
  <2>3. ProxyOK' BY <1>2, <2>2 DEF TypeOK, ProxyOK, ReadEndpoints
  <2> QED BY <1>0, <1>2, <2>3, BoundsKept DEF TypeOK, ReadEndpoints, ProxyOnly, history
<1>3. CASE Rewire
  <2>1. listeners' \in [NodePorts -> Services \cup {None}]
    BY <1>3 DEF TypeOK, ProxyOK, Rewire
  <2>2. ProxyOK' BY <1>3, <2>1 DEF TypeOK, ProxyOK, Rewire, ProxyOnly, NoPorts
  <2>3. UNCHANGED errors \/ Failure BY <1>3 DEF Rewire
  <2> QED BY <1>0, <1>3, <2>2, <2>3, BoundsKept DEF TypeOK, Rewire, ProxyOnly, history
<1> QED BY <1>1, <1>2, <1>3 DEF ProxyStep

LEMMA RestartTypes == TypeOK /\ RestartProxy => TypeOK'
<1> SUFFICES ASSUME TypeOK, RestartProxy PROVE TypeOK' OBVIOUS
<1>1. ProxyOK' BY NothingIsKnown DEF ProxyOK, RestartProxy, NoPorts
<1>2. ConnsOK' BY NoConnType DEF ConnsOK, RestartProxy
<1> QED BY <1>1, <1>2, SameTypes, BoundsKept DEF TypeOK, RestartProxy, history

LEMMA ConnStepTypes ==
  ASSUME TypeOK,
         \/ \E x \in NodePorts : AcceptFails(x)
         \/ \E c \in Conns : Dial(c) \/ Close(c) \/ \E x \in NodePorts : Accept(c, x)
  PROVE  TypeOK'
<1>0. ConnOnly => ObjectsOK' /\ NodesOK' /\ ManagersOK' BY SameTypes DEF TypeOK, ConnOnly, history
<1>a. ConnOnly /\ UNCHANGED deaf => ProxyOK' BY SameTypes DEF TypeOK, ConnOnly, proxy
<1>1. ASSUME NEW c \in Conns, Dial(c) PROVE TypeOK'
  <2>1. PICK p \in Pods : /\ held[p] \in IPs \cup {None}
                          /\ conns' = [conns EXCEPT ![c].ip = held[p], ![c].backend = p]
    BY <1>1 DEF Dial, TypeOK, NodesOK
  <2>2. ConnsOK' BY <2>1 DEF TypeOK, ConnsOK
  <2> QED BY <1>0, <1>a, <1>1, <2>2, BoundsKept DEF TypeOK, Dial, ConnOnly, history
<1>2. ASSUME NEW c \in Conns, Close(c) PROVE TypeOK'
  <2>1. ConnsOK' BY <1>2, NoConnType DEF TypeOK, ConnsOK, Close
  <2> QED BY <1>0, <1>a, <1>2, <2>1, BoundsKept DEF TypeOK, Close, ConnOnly, history
<1>3. ASSUME NEW c \in Conns, NEW x \in NodePorts, Accept(c, x) PROVE TypeOK'
  <2>1. ConnsOK' BY <1>3, NoConnType DEF TypeOK, ConnsOK, ProxyOK, Accept, NoConn
  <2> QED BY <1>0, <1>a, <1>3, <2>1, BoundsKept DEF TypeOK, Accept, ConnOnly, history
<1>4. ASSUME NEW x \in NodePorts, AcceptFails(x) PROVE TypeOK'
  <2>1. ProxyOK' BY <1>4 DEF TypeOK, ProxyOK, AcceptFails, ConnOnly, pass
  <2> QED BY <1>0, <1>4, <2>1, SameTypes, BoundsKept DEF TypeOK, AcceptFails, ConnOnly, history
<1> QED BY <1>1, <1>2, <1>3, <1>4

LEMMA NextTypes == TypeOK /\ [Next]_vars => TypeOK'
<1> SUFFICES ASSUME TypeOK, [Next]_vars PROVE TypeOK' OBVIOUS
<1>1. CASE UNCHANGED vars BY <1>1, SameTypes, BoundsKept DEF TypeOK, vars, history
<1>2. CASE Next
  BY <1>2, UserStepTypes, NodeStepTypes, ManagerStepTypes, ServeLateTypes, ProxyStepTypes,
     RestartTypes, ConnStepTypes
     DEF Next
<1> QED BY <1>1, <1>2

\* Every variable of the controllers, of the proxy and of the nodes keeps its
\* type, for every set of services, pods, nodes, ports, managers and connections.
THEOREM TypeCorrect == Spec => []TypeOK
<1>1. Init => TypeOK BY InitTypes
<1>2. TypeOK /\ [Next]_vars => TypeOK' BY NextTypes
<1> QED BY <1>1, <1>2, PTL DEF Spec

-----------------------------------------------------------------------------
(***************************************************************************)
(* RightBackend.  An address in a status was the pod's container's, and    *)
(* stays in had when an engine gives it to another.  So what is listed,    *)
(* written, left with the server, stored and cached for a service are      *)
(* addresses its pods have or had, whatever instants they come from; what  *)
(* is wanted or served on a port is a service that has or had it; and a    *)
(* connection keeps the port and the service it was accepted with, which   *)
(* stay in owners when the listener is gone.                               *)
(***************************************************************************)
Known(s, l) == \A i \in DOMAIN l : \E p \in Backs[s] : l[i].ip \in had[p]

Placed ==
  \A p \in Pods : (pods[p] \in IPs => pods[p] \in had[p]) /\ (held[p] \in IPs => held[p] \in had[p])

Stored == \A s \in Services : endpoints[s] # Absent => Known(s, endpoints[s])

Owed(j) == j.step # "none" => j.service \in Services /\ Known(j.service, j.list)

Derived == (\A m \in Managers : Owed(job[m])) /\ (\A call \in late : Owed(call[2]) /\ call[2].step # "none")

Read == \A s \in Services : cache[s] # Absent => Known(s, cache[s])

Owned ==
  /\ \A s \in Services : services[s] \in NodePorts => s \in owners[services[s]]
  /\ \A x \in NodePorts : wanted[x] # None => wanted[x] \in owners[x]
  /\ \A x \in NodePorts : listeners[x] # None => listeners[x] \in owners[x]

Connected ==
  \A c \in Conns :
    /\ conns[c].service # None =>
         conns[c].port \in NodePorts /\ conns[c].service \in owners[conns[c].port]
    /\ conns[c].backend # None =>
         /\ conns[c].service \in Services
         /\ \E p \in Backs[conns[c].service] : conns[c].ip \in had[p]

Routed == Placed /\ Stored /\ Derived /\ Read /\ Owned /\ Connected

Routes == TypeOK /\ Routed

LEMMA InitRoutes == Init => Routes
<1> SUFFICES ASSUME Init PROVE Routes OBVIOUS
<1>1. TypeOK BY InitTypes
<1>2. Placed BY <1>1, ProxyAssumption DEF Init, Placed
<1>3. Stored /\ Derived /\ Read BY DEF Init, Stored, Derived, Owed, Read, NoJob
<1>4. Owned BY ProxyAssumption DEF Init, Owned, NoPorts
<1>5. Connected BY DEF Init, Connected, NoConn
<1> QED BY <1>1, <1>2, <1>3, <1>4, <1>5 DEF Routes, Routed

\* What an action leaves alone keeps its part of the invariant.
LEMMA SameRoutes ==
  /\ Placed /\ UNCHANGED <<pods, held, had>> => Placed'
  /\ Stored /\ UNCHANGED <<endpoints, had>> => Stored'
  /\ Derived /\ UNCHANGED <<job, late, had>> => Derived'
  /\ Read /\ UNCHANGED <<cache, had>> => Read'
  /\ Owned /\ UNCHANGED <<services, owners, wanted, listeners>> => Owned'
  /\ Connected /\ UNCHANGED <<owners, conns, had>> => Connected'
<1>1. Placed /\ UNCHANGED <<pods, held, had>> => Placed' BY DEF Placed
<1>2. Stored /\ UNCHANGED <<endpoints, had>> => Stored' BY DEF Stored, Known
<1>3. Derived /\ UNCHANGED <<job, late, had>> => Derived' BY DEF Derived, Owed, Known
<1>4. Read /\ UNCHANGED <<cache, had>> => Read' BY DEF Read, Known
<1>5. Owned /\ UNCHANGED <<services, owners, wanted, listeners>> => Owned' BY DEF Owned
<1>6. Connected /\ UNCHANGED <<owners, conns, had>> => Connected' BY DEF Connected
<1> QED BY <1>1, <1>2, <1>3, <1>4, <1>5, <1>6

\* A service that gets a port is one of its owners from then on.
LEMMA UserStepRoutes ==
  ASSUME Routes,
         \/ \E s \in Services : WriteService(s) \/ DeleteService(s)
         \/ \E p \in Pods : CreatePod(p) \/ DeletePod(p)
  PROVE  Routed'
<1> USE DEF Routes, Routed, managers, proxy, pass
<1>0. Change => Stored' /\ Derived' /\ Read' BY SameRoutes DEF Change
<1>1. ASSUME NEW s \in Services, WriteService(s) PROVE Routed'
  <2>1. PICK x \in NodePorts \cup {None} :
          /\ services' = [services EXCEPT ![s] = x]
          /\ owners' = [y \in NodePorts |-> IF y = x THEN owners[y] \cup {s} ELSE owners[y]]
    BY <1>1 DEF WriteService
  <2>2. \A y \in NodePorts : owners[y] \subseteq owners'[y] BY <2>1
  <2>3. Owned' BY <1>1, <2>1, <2>2 DEF Owned, TypeOK, ObjectsOK, WriteService, Change
  <2>4. Connected' BY <1>1, <2>2 DEF Connected, WriteService, Change
  <2>5. Placed' BY <1>1, SameRoutes DEF WriteService, Change
  <2> QED BY <1>0, <1>1, <2>3, <2>4, <2>5 DEF WriteService
<1>2. ASSUME NEW s \in Services, DeleteService(s) PROVE Routed'
  <2>1. Owned' BY <1>2, ProxyAssumption DEF Owned, TypeOK, ObjectsOK, DeleteService, Change
  <2>2. Placed' /\ Connected' BY <1>2, SameRoutes DEF DeleteService, Change
  <2> QED BY <1>0, <1>2, <2>1, <2>2 DEF DeleteService
<1>3. ASSUME NEW p \in Pods, CreatePod(p) \/ DeletePod(p) PROVE Routed'
  <2>1. Placed'
    BY <1>3, ProxyAssumption DEF Placed, TypeOK, ObjectsOK, CreatePod, DeletePod, Change
  <2>2. Owned' /\ Connected' BY <1>3, SameRoutes DEF CreatePod, DeletePod, Change
  <2> QED BY <1>0, <1>3, <2>1, <2>2 DEF CreatePod, DeletePod
<1> QED BY <1>1, <1>2, <1>3

\* An address that a pod ever had it has had from then on.
LEMMA NodeStepRoutes ==
  ASSUME Routes, NEW p \in Pods, RunPod(p) \/ ContainerEnds(p) \/ ReportStatus(p)
  PROVE  Routed'
<1> USE DEF Routes, Routed, NodeOnly, managers, proxy, pass
<1>0. NodeOnly => Owned' BY SameRoutes
<1>1. CASE RunPod(p)
  <2>1. PICK ip \in FreeIPs(Home[p]) :
          held' = [held EXCEPT ![p] = ip] /\ had' = [had EXCEPT ![p] = @ \cup {ip}]
    BY <1>1 DEF RunPod
  <2>2. \A q \in Pods : had[q] \subseteq had'[q] BY <2>1 DEF TypeOK, NodesOK
  <2>3. \A s \in Services : \A l : Known(s, l) => Known(s, l)'
    BY <2>2, ProxyAssumption DEF Known
  <2>4. Placed' BY <1>1, <2>1 DEF Placed, TypeOK, ObjectsOK, NodesOK, RunPod
  <2>5. Stored' BY <1>1, <2>3 DEF Stored, RunPod
  <2>6. Derived' BY <1>1, <2>3 DEF Derived, Owed, RunPod
  <2>7. Read' BY <1>1, <2>3 DEF Read, RunPod
  <2>8. Connected'
    BY <1>1, <2>2, ProxyAssumption DEF Connected, RunPod
  <2> QED BY <1>0, <1>1, <2>4, <2>5, <2>6, <2>7, <2>8 DEF RunPod
<1>2. CASE ContainerEnds(p)
  <2>1. Placed' BY <1>2, ProxyAssumption DEF Placed, TypeOK, NodesOK, ContainerEnds
  <2> QED BY <1>0, <1>2, <2>1, SameRoutes DEF ContainerEnds
<1>3. CASE ReportStatus(p)
  <2>1. Placed' BY <1>3, ProxyAssumption DEF Placed, TypeOK, ObjectsOK, NodesOK, ReportStatus
  <2> QED BY <1>0, <1>3, <2>1, SameRoutes DEF ReportStatus
<1> QED BY <1>1, <1>2, <1>3

\* A list tells what the statuses tell, which their pods had.
LEMMA ManagerStepRoutes ==
  ASSUME Routes, NEW m \in Managers, ManagerStep(m) \/ CallFails(m) \/ EndManager(m)
  PROVE  Routed'
<1> USE DEF Routes, Routed, ManagerOnly, history, proxy, pass
<1>0. ManagerOnly => Placed' /\ Read' /\ Owned' /\ Connected' BY SameRoutes
<1>a. UNCHANGED had => \A s, l : Known(s, l) => Known(s, l)' BY DEF Known
<1>b. NextJob(m, NoJob) /\ UNCHANGED <<late, had>> => Derived'
  BY <1>a DEF Derived, Owed, NextJob, NoJob, TypeOK, ManagersOK
<1>1. CASE ListServices(m) BY <1>0, <1>1, SameRoutes DEF ListServices
<1>2. ASSUME NEW s \in Services, MatchPods(m, s) PROVE Routed'
  <2>1. PICK l \in Listings(s) : NextJob(m, [service |-> s, step |-> "get", list |-> l])
    BY <1>2 DEF MatchPods
  <2>2. \A p \in Matching(s) : p \in Backs[s] /\ pods[p] \in had[p]
    BY ProxyAssumption DEF Matching, Placed
  <2>3. Known(s, l) BY <2>2, ListingsKnown DEF Known
  <2>4. Derived'
    BY <1>2, <2>1, <2>3, <1>a DEF Derived, Owed, MatchPods, NextJob, TypeOK, ManagersOK
  <2> QED BY <1>0, <1>2, <2>4, SameRoutes DEF MatchPods
<1>3. CASE GetEndpoints(m)
  <2>1. Owed(job[m]) /\ job[m].step = "get" BY <1>3 DEF Derived, GetEndpoints
  <2>2. PICK j : NextJob(m, j) /\ Owed(j)
    <3>1. \A step \in {"create", "update"} : Owed([job[m] EXCEPT !.step = step])
      BY <2>1 DEF Owed, TypeOK, ManagersOK, Jobs
    <3>2. Owed(NoJob) BY DEF Owed, NoJob
    <3> QED BY <1>3, <3>1, <3>2 DEF GetEndpoints
  <2>3. Derived'
    BY <1>3, <2>2, <1>a DEF Derived, Owed, GetEndpoints, NextJob, TypeOK, ManagersOK
  <2> QED BY <1>0, <1>3, <2>3, SameRoutes DEF GetEndpoints
<1>4. CASE WriteEndpoints(m)
  <2>1. Owed(job[m]) /\ job[m].step # "none" BY <1>4 DEF Derived, WriteEndpoints, Writing
  <2>2. Stored' BY <1>4, <2>1, <1>a DEF Stored, Owed, WriteEndpoints, Serve, TypeOK, ObjectsOK
  <2>3. Derived' BY <1>4, <1>b DEF WriteEndpoints
  <2> QED BY <1>0, <1>4, <2>2, <2>3 DEF WriteEndpoints
<1>5. CASE CallFails(m)
  <2>1. Writing(m) => Owed(job[m]) /\ job[m].step # "none" BY DEF Derived, Writing
  <2>2. \A call \in late' : Owed(call[2]) /\ call[2].step # "none"
    BY <1>5, <2>1 DEF Derived, CallFails
  <2>3. UNCHANGED had BY <1>5 DEF CallFails
  <2>4. \A j : Owed(j) => (j.step # "none" => j.service \in Services /\ Known(j.service, j.list)')
    BY <2>3, <1>a DEF Owed
  <2>5. \A k \in Managers : Owed(job[k])'
    BY <1>5, <2>4 DEF Derived, Owed, CallFails, NextJob, NoJob, TypeOK, ManagersOK
  <2>6. \A call \in late' : Owed(call[2])' /\ (call[2].step # "none")
    BY <2>2, <2>4 DEF Owed
  <2>7. Derived' BY <2>5, <2>6 DEF Derived
  <2> QED BY <1>0, <1>5, <2>7, SameRoutes DEF CallFails
<1>6. CASE EndManager(m)
  <2>1. Derived' BY <1>6, <1>b DEF EndManager
  <2> QED BY <1>0, <1>6, <2>1, SameRoutes DEF EndManager
<1> QED BY <1>1, <1>2, <1>3, <1>4, <1>5, <1>6 DEF ManagerStep

LEMMA ServeLateRoutes == Routes /\ ServeLate => Routed'
<1> SUFFICES ASSUME Routes, ServeLate PROVE Routed' OBVIOUS
<1> USE DEF Routes, Routed, ManagerOnly, history, proxy, pass, managers
<1>1. PICK call \in late : Serve(call[2]) /\ late' = late \ {call} BY DEF ServeLate
<1>2. call[2].service \in Services /\ Known(call[2].service, call[2].list)
  BY DEF Derived, Owed
<1>3. Stored' BY <1>1, <1>2 DEF Stored, Known, Serve, ServeLate, TypeOK, ObjectsOK
<1>4. Derived' BY <1>1 DEF Derived, Owed, Known, ServeLate
<1> QED BY <1>3, <1>4, SameRoutes DEF ServeLate

LEMMA ProxyStepRoutes ==
  ASSUME Routes, ProxyStep \/ RestartProxy
  PROVE  Routed'
<1> USE DEF Routes, Routed, ProxyOnly, objects, managers, history
<1>0. ProxyOnly => Placed' /\ Stored' /\ Derived' /\ Connected' BY SameRoutes
<1>1. CASE ListPorts
  <2>1. \A x \in NodePorts : wanted'[x] # None => wanted'[x] \in Wanting(x)
    BY <1>1 DEF ListPorts
  <2>2. \A x \in NodePorts : Wanting(x) \subseteq owners[x] BY DEF Wanting, Owned
  <2>3. Owned' BY <1>1, <2>1, <2>2 DEF Owned, ListPorts
  <2> QED BY <1>0, <1>1, <2>3, SameRoutes DEF ListPorts
<1>2. ASSUME NEW s \in Services, ReadEndpoints(s) PROVE Routed'
  <2>1. Cached(s) # Absent => Known(s, Cached(s)) BY DEF Cached, Stored, Read
  <2>2. Read' BY <1>2, <2>1 DEF Read, Known, ReadEndpoints, TypeOK, ProxyOK
  <2> QED BY <1>0, <1>2, <2>2, SameRoutes DEF ReadEndpoints
<1>3. CASE Rewire
  <2>1. \A x \in NodePorts : listeners'[x] # None =>
          listeners'[x] = wanted[x] \/ listeners'[x] = listeners[x]
    BY <1>3 DEF Rewire
  <2>2. Owned' BY <1>3, <2>1 DEF Owned, Rewire, NoPorts
  <2> QED BY <1>0, <1>3, <2>2, SameRoutes DEF Rewire
<1>4. CASE RestartProxy
  <2>1. Read' BY <1>4 DEF Read, RestartProxy
  <2>2. Owned' BY <1>4 DEF Owned, RestartProxy, NoPorts
  <2>3. Connected' BY <1>4 DEF Connected, RestartProxy, NoConn
  <2> QED BY <1>4, <2>1, <2>2, <2>3, SameRoutes DEF RestartProxy
<1> QED BY <1>1, <1>2, <1>3, <1>4 DEF ProxyStep

LEMMA ConnStepRoutes ==
  ASSUME Routes,
         \/ \E x \in NodePorts : AcceptFails(x)
         \/ \E c \in Conns : Dial(c) \/ Close(c) \/ \E x \in NodePorts : Accept(c, x)
  PROVE  Routed'
<1> USE DEF Routes, Routed, ConnOnly, objects, managers, pass, history
<1>0. ConnOnly => Placed' /\ Stored' /\ Derived' /\ Read' /\ Owned' BY SameRoutes
<1>1. ASSUME NEW c \in Conns, Dial(c) PROVE Routed'
  <2> DEFINE s == conns[c].service
  <2>1. s \in Services /\ cache[s] # Absent BY <1>1 DEF TypeOK, ConnsOK, Dial
  <2>2. PICK i \in DOMAIN cache[s], p \in Pods :
          /\ held[p] = cache[s][i].ip
          /\ conns' = [conns EXCEPT ![c].ip = held[p], ![c].backend = p]
    BY <1>1 DEF Dial
  <2>3. \E k \in Backs[s] : held[p] \in had[k] BY <2>1, <2>2 DEF Read, Known
  <2>4. UNCHANGED <<owners, had>> BY <1>1 DEF Dial
  <2>5. /\ conns'[c].service = s /\ conns'[c].port = conns[c].port /\ conns'[c].ip = held[p]
        /\ \A d \in Conns \ {c} : conns'[d] = conns[d]
    BY <2>2 DEF TypeOK, ConnsOK
  <2>6. Connected' BY <2>1, <2>3, <2>4, <2>5 DEF Connected
  <2> QED BY <1>0, <1>1, <2>6 DEF Dial
<1>2. ASSUME NEW c \in Conns, Close(c) PROVE Routed'
  <2>1. Connected' BY <1>2 DEF Connected, Close, NoConn, TypeOK, ConnsOK
  <2> QED BY <1>0, <1>2, <2>1 DEF Close
<1>3. ASSUME NEW c \in Conns, NEW x \in NodePorts, Accept(c, x) PROVE Routed'
  <2>1. listeners[x] \in owners[x] BY <1>3 DEF Accept, Owned
  <2>2. Connected' BY <1>3, <2>1 DEF Connected, Accept, NoConn, TypeOK, ConnsOK
  <2> QED BY <1>0, <1>3, <2>2 DEF Accept
<1>4. ASSUME NEW x \in NodePorts, AcceptFails(x) PROVE Routed'
  BY <1>0, <1>4, SameRoutes DEF AcceptFails
<1> QED BY <1>1, <1>2, <1>3, <1>4

LEMMA NextRoutes == Routes /\ [Next]_vars => Routes'
<1> SUFFICES ASSUME Routes, [Next]_vars PROVE Routes' OBVIOUS
<1>1. TypeOK' BY NextTypes DEF Routes
<1>2. CASE UNCHANGED vars
  BY <1>1, <1>2, SameRoutes DEF Routes, Routed, vars, objects, managers, proxy, pass, history
<1>3. CASE Next
  BY <1>1, <1>3, UserStepRoutes, NodeStepRoutes, ManagerStepRoutes, ServeLateRoutes,
     ProxyStepRoutes, ConnStepRoutes
     DEF Next, Routes
<1> QED BY <1>2, <1>3

LEMMA RoutesAreRight == Routes => RightBackend
<1> SUFFICES ASSUME Routes, NEW c \in Conns, conns[c].backend # None
             PROVE  \E s \in owners[conns[c].port] : \E p \in Backs[s] : conns[c].ip \in had[p]
  BY DEF RightBackend
<1> DEFINE s == conns[c].service
<1>1. s \in Services /\ \E p \in Backs[s] : conns[c].ip \in had[p]
  BY DEF Routes, Routed, Connected
<1>2. s # None BY <1>1, ProxyAssumption
<1>3. s \in owners[conns[c].port] BY <1>2 DEF Routes, Routed, Connected
<1> QED BY <1>1, <1>3

\* Whatever instants its lists, its endpoints, its cache and its listeners come
\* from, and however often engines give an address again: a connection reaches an
\* address that a pod of a service which has or had its port has or had.
THEOREM BackendsAreRight == Spec => []RightBackend
<1>1. Init => Routes BY InitRoutes
<1>2. Routes /\ [Next]_vars => Routes' BY NextRoutes
<1>3. Routes => RightBackend BY RoutesAreRight
<1> QED BY <1>1, <1>2, <1>3, PTL DEF Spec
=============================================================================
