------------------------ MODULE LeaderElectionProofs ------------------------
(***************************************************************************)
(* Proofs about LeaderElection.                                            *)
(*                                                                         *)
(* The inductive invariant is TypeOK with Own, Timers, Fresh and Notice    *)
(* below: Own says whose lease it is until one is taken over, Timers that  *)
(* a leader will try to renew it, Fresh how old the lease of a leader can  *)
(* be, Notice for how long a leader whose lease was overwritten has led.   *)
(***************************************************************************)
EXTENDS LeaderElection, TLAPS

-----------------------------------------------------------------------------
\* Sends or holds a lease that it may lead on.
Claims(p) == leading[p] \/ pc[p] = "granted"

\* Until a lease is overwritten it belongs to whoever claims it.
Own == ~taken => \A p \in Electors : Claims(p) => lease # NoLease /\ lease.holder = p

\* The ticker of a leader runs, and since the attempt under way began it has
\* not fired unseen.  A leader is an elector that was started and not ended.
Timers ==
  \A p \in Electors : leading[p] =>
    /\ pc[p] \in Alive
    /\ timer[p] # 0
    /\ pc[p] \in Calling => due[p] \/ timer[p] + lat[p] <= RetryPeriod

\* The oldest lease of a leader between two attempts.
Oldest == RetryPeriod + 2 * MaxLatency

\* How old the lease is whose holder leads or is about to.
Fresh ==
  lease # NoLease =>
    LET p == lease.holder
    IN /\ pc[p] = "granted" => lease.age <= MaxLatency + lat[p]
       /\ leading[p] /\ pc[p] = "wait" /\ ~due[p] => lease.age + timer[p] <= Oldest
       /\ leading[p] /\ pc[p] = "wait" => lease.age <= Oldest
       /\ leading[p] /\ pc[p] \in Calling => lease.age <= Oldest + lat[p]

\* For how long p can have led on the lease of another.
Notice ==
  \A p \in Electors :
    /\ deposed[p] <= RetryPeriod + MaxLatency
    /\ ~leading[p] /\ pc[p] # "gone" => deposed[p] = 0
    /\ leading[p] /\ pc[p] = "wait" => deposed[p] <= RetryPeriod
    /\ leading[p] /\ pc[p] = "wait" /\ ~due[p] => deposed[p] + timer[p] <= RetryPeriod
    /\ leading[p] /\ pc[p] \in Calling => deposed[p] <= RetryPeriod + lat[p]
    /\ leading[p] /\ pc[p] = "granted" => deposed[p] <= lat[p]
-----------------------------------------------------------------------------
(***************************************************************************)
(* Type correctness.                                                       *)
(***************************************************************************)
LEMMA InitTypes == Init => TypeOK
<1> SUFFICES ASSUME Init PROVE TypeOK OBVIOUS
<1>1. lease \in Leases \cup {NoLease} BY DEF Init
<1>2. pc \in [Electors -> {"off", "gone"} \cup Alive] BY DEF Init
<1>3. leading \in [Electors -> BOOLEAN] /\ due \in [Electors -> BOOLEAN] BY DEF Init
<1>4. timer \in [Electors -> 0..RetryPeriod] BY ElectionAssumption DEF Init
<1>5. lat \in [Electors -> 0..MaxLatency] BY ElectionAssumption DEF Init
<1>6. late \in [Electors -> [op : {"put", "post"}, age : 0..MaxLatency] \cup {NoCall}]
  BY DEF Init
<1>7. errors \in 0..MaxErrors BY ElectionAssumption DEF Init
<1>8. taken \in BOOLEAN /\ deposed \in [Electors -> Nat] BY DEF Init
<1> QED BY <1>1, <1>2, <1>3, <1>4, <1>5, <1>6, <1>7, <1>8 DEF TypeOK

\* The effects that several actions share keep the types.
LEMMA FailTypes ==
  ASSUME TypeOK, NEW p \in Electors, Fail(p)
  PROVE  /\ pc' \in [Electors -> {"off", "gone"} \cup Alive]
         /\ leading' \in [Electors -> BOOLEAN]
         /\ timer' \in [Electors -> 0..RetryPeriod]
         /\ due' \in [Electors -> BOOLEAN]
         /\ lat' \in [Electors -> 0..MaxLatency]
BY ElectionAssumption DEF TypeOK, Fail, Alive, Calling

LEMMA StoreTypes ==
  ASSUME TypeOK, NEW p \in Electors, NEW age \in 0..MaxLatency, Store(p, age)
  PROVE  /\ lease' \in Leases
         /\ lease' # NoLease
         /\ taken' \in BOOLEAN
         /\ deposed' \in [Electors -> Nat]
BY ElectionAssumption DEF TypeOK, Store, Leases, MaxAge

LEMMA SentTypes ==
  ASSUME TypeOK, NEW p \in Electors
  PROVE  Sent(p) \in [op : {"put", "post"}, age : 0..MaxLatency] \cup {NoCall}
BY ElectionAssumption DEF TypeOK, Sent, Alive, Calling

LEMMA NextTypes == TypeOK /\ [Next]_vars => TypeOK'
<1> SUFFICES ASSUME TypeOK, [Next]_vars PROVE TypeOK' OBVIOUS
<1> USE ElectionAssumption
<1>1. ASSUME NEW p \in Electors, Start(p) PROVE TypeOK'
  BY <1>1 DEF TypeOK, Start, Begin, Alive, Calling
<1>2. ASSUME NEW p \in Electors, Wake(p) PROVE TypeOK'
  BY <1>2 DEF TypeOK, Wake, Begin, Alive, Calling
<1>3. ASSUME NEW p \in Electors, Get(p) PROVE TypeOK'
  BY <1>3 DEF TypeOK, Get, Alive, Calling
<1>4. ASSUME NEW p \in Electors, GetHeld(p) PROVE TypeOK'
  BY <1>4, FailTypes DEF TypeOK, GetHeld
<1>5. ASSUME NEW p \in Electors, Put(p) PROVE TypeOK'
  <2>1. lat[p] \in 0..MaxLatency BY DEF TypeOK
  <2> QED BY <1>5, <2>1, StoreTypes DEF TypeOK, Put, Alive, Calling
<1>6. ASSUME NEW p \in Electors, Post(p) PROVE TypeOK'
  <2>1. lat[p] \in 0..MaxLatency BY DEF TypeOK
  <2>2. CASE lease = NoLease /\ Store(p, lat[p]) /\ pc' = [pc EXCEPT ![p] = "granted"]
    BY <1>6, <2>1, <2>2, StoreTypes DEF TypeOK, Post, Alive, Calling
  <2>3. CASE pc' = [pc EXCEPT ![p] = "refused"] /\ UNCHANGED <<lease, taken, deposed>>
    BY <1>6, <2>3 DEF TypeOK, Post, Alive, Calling
  <2> QED BY <1>6, <2>2, <2>3 DEF Post
<1>7. ASSUME NEW p \in Electors, Granted(p) PROVE TypeOK'
  BY <1>7 DEF TypeOK, Granted, Succeed, Alive, Calling
<1>8. ASSUME NEW p \in Electors, Refused(p) PROVE TypeOK'
  BY <1>8, FailTypes DEF TypeOK, Refused
<1>9. ASSUME NEW p \in Electors, CallFails(p) PROVE TypeOK'
  <2>1. errors' \in 0..MaxErrors BY <1>9 DEF TypeOK, CallFails
  <2>2. late' \in [Electors -> [op : {"put", "post"}, age : 0..MaxLatency] \cup {NoCall}]
    BY <1>9, SentTypes DEF TypeOK, CallFails
  <2> QED BY <1>9, <2>1, <2>2, FailTypes DEF TypeOK, CallFails
<1>10. ASSUME NEW p \in Electors, ServeLate(p) PROVE TypeOK'
  <2>1. late[p].age \in 0..MaxLatency BY <1>10 DEF TypeOK, ServeLate
  <2>2. late' \in [Electors -> [op : {"put", "post"}, age : 0..MaxLatency] \cup {NoCall}]
    BY <1>10 DEF TypeOK, ServeLate
  <2>3. CASE Store(p, late[p].age)
    BY <1>10, <2>1, <2>2, <2>3, StoreTypes DEF TypeOK, ServeLate
  <2>4. CASE UNCHANGED <<lease, taken, deposed>>
    BY <1>10, <2>2, <2>4 DEF TypeOK, ServeLate
  <2> QED BY <1>10, <2>3, <2>4 DEF ServeLate
<1>11. ASSUME NEW p \in Electors, Crash(p) PROVE TypeOK'
  <2>1. late' \in [Electors -> [op : {"put", "post"}, age : 0..MaxLatency] \cup {NoCall}]
    BY <1>11, SentTypes DEF TypeOK, Crash
  <2>2. pc' \in [Electors -> {"off", "gone"} \cup Alive] BY <1>11 DEF TypeOK, Crash
  <2>3. leading' \in [Electors -> BOOLEAN] /\ due' \in [Electors -> BOOLEAN]
    BY <1>11 DEF TypeOK, Crash
  <2>4. timer' \in [Electors -> 0..RetryPeriod] /\ lat' \in [Electors -> 0..MaxLatency]
    BY <1>11 DEF TypeOK, Crash
  <2> QED BY <1>11, <2>1, <2>2, <2>3, <2>4 DEF TypeOK, Crash
<1>12. ASSUME Tick PROVE TypeOK'
  <2>1. lease' \in Leases \cup {NoLease}
    BY <1>12 DEF TypeOK, Tick, Leases, MaxAge, Older
  <2>2. lat' \in [Electors -> 0..MaxLatency]
    BY <1>12 DEF TypeOK, Tick, Prompt
  <2>3. late' \in [Electors -> [op : {"put", "post"}, age : 0..MaxLatency] \cup {NoCall}]
    <3> SUFFICES ASSUME NEW p \in Electors, late[p] # NoCall
                 PROVE  [late[p] EXCEPT !.age = @ + 1] \in [op : {"put", "post"}, age : 0..MaxLatency]
      BY <1>12, Zenon DEF TypeOK, Tick
    <3>1. late[p] \in [op : {"put", "post"}, age : 0..MaxLatency] BY DEF TypeOK
    <3>2. late[p].age < MaxLatency BY <1>12 DEF Tick, Prompt
    <3> QED BY <3>1, <3>2
  <2>4. timer' \in [Electors -> 0..RetryPeriod]
    <3> SUFFICES ASSUME NEW p \in Electors PROVE timer'[p] \in 0..RetryPeriod
      BY <1>12, Zenon DEF Tick
    <3>1. timer[p] \in 0..RetryPeriod BY DEF TypeOK
    <3>2. timer'[p] \in {0, timer[p] - 1, RetryPeriod} /\ (timer[p] = 0 => timer'[p] # timer[p] - 1)
      BY <1>12, <3>1 DEF Tick
    <3> QED BY <3>1, <3>2
  <2>5. due' \in [Electors -> BOOLEAN]
    <3>1. \A p \in Electors : (due[p] \/ timer[p] = 1) \in {TRUE, FALSE} OBVIOUS
    <3>2. due' = [p \in Electors |-> due[p] \/ timer[p] = 1] BY <1>12 DEF Tick
    <3> QED BY <3>1, <3>2, SMT
  <2>6. deposed' \in [Electors -> Nat]
    BY <1>12 DEF TypeOK, Tick
  <2> QED BY <1>12, <2>1, <2>2, <2>3, <2>4, <2>5, <2>6 DEF TypeOK, Tick
<1>13. CASE UNCHANGED vars
  BY <1>13 DEF TypeOK, vars
<1> QED
  BY <1>1, <1>2, <1>3, <1>4, <1>5, <1>6, <1>7, <1>8, <1>9, <1>10, <1>11, <1>12,
     <1>13 DEF Next, Step

\* Every variable keeps its type, for every set of electors and all durations.
THEOREM ElectionTypes == Spec => []TypeOK
<1> QED BY InitTypes, NextTypes, PTL DEF Spec

-----------------------------------------------------------------------------
(***************************************************************************)
(* The first leader is alone.                                              *)
(***************************************************************************)
LEMMA OwnStep == TypeOK /\ Own /\ [Next]_vars => Own'
<1> SUFFICES ASSUME TypeOK, Own, [Next]_vars, ~taken', NEW q \in Electors, Claims(q)'
             PROVE  lease' # NoLease /\ lease'.holder = q
  BY DEF Own
<1> USE ElectionAssumption
<1>1. ASSUME Claims(q), ~taken, UNCHANGED lease PROVE lease' # NoLease /\ lease'.holder = q
  BY <1>1 DEF Own
<1>2. ASSUME NEW p \in Electors, NEW age \in 0..MaxLatency, Store(p, age),
             Claims(q) \/ q = p
      PROVE  lease' # NoLease /\ lease'.holder = q
  <2>1. lease' # NoLease /\ lease'.holder = p BY <1>2, StoreTypes DEF Store
  <2>2. ~taken /\ (lease = NoLease \/ lease.holder = p) BY <1>2 DEF Store
  <2>3. Claims(q) => q = p BY <2>2 DEF Own
  <2> QED BY <1>2, <2>1, <2>3
<1>3. ASSUME NEW p \in Electors, Start(p) PROVE Claims(q) /\ ~taken /\ UNCHANGED lease
  BY <1>3 DEF Start, Begin, Claims, TypeOK
<1>4. ASSUME NEW p \in Electors, Wake(p) PROVE Claims(q) /\ ~taken /\ UNCHANGED lease
  BY <1>4 DEF Wake, Begin, Claims, TypeOK
<1>5. ASSUME NEW p \in Electors, Get(p) PROVE Claims(q) /\ ~taken /\ UNCHANGED lease
  BY <1>5 DEF Get, Claims, TypeOK
<1>6. ASSUME NEW p \in Electors, Fail(p) PROVE Claims(q)
  BY <1>6 DEF Fail, Claims, TypeOK
<1>7. ASSUME NEW p \in Electors, Put(p) PROVE lease' # NoLease /\ lease'.holder = q
  <2>1. Claims(q) \/ q = p BY <1>7 DEF Put, Claims, TypeOK
  <2> QED BY <1>2, <1>7, <2>1 DEF Put, TypeOK
<1>8. ASSUME NEW p \in Electors, Post(p) PROVE lease' # NoLease /\ lease'.holder = q
  <2>1. CASE Store(p, lat[p]) /\ pc' = [pc EXCEPT ![p] = "granted"]
    <3>1. Claims(q) \/ q = p BY <1>8, <2>1 DEF Post, Claims, TypeOK
    <3> QED BY <1>2, <2>1, <3>1 DEF TypeOK
  <2>2. CASE pc' = [pc EXCEPT ![p] = "refused"] /\ UNCHANGED <<lease, taken, deposed>>
    <3>1. Claims(q) BY <1>8, <2>2 DEF Post, Claims, TypeOK
    <3> QED BY <1>1, <2>2, <3>1
  <2> QED BY <1>8, <2>1, <2>2 DEF Post
<1>9. ASSUME NEW p \in Electors, Granted(p) PROVE Claims(q) /\ ~taken /\ UNCHANGED lease
  BY <1>9 DEF Granted, Succeed, Claims, TypeOK
<1>10. ASSUME NEW p \in Electors, ServeLate(p) PROVE lease' # NoLease /\ lease'.holder = q
  <2>1. Claims(q) BY <1>10 DEF ServeLate, Claims
  <2>2. late[p].age \in 0..MaxLatency BY <1>10 DEF TypeOK, ServeLate
  <2> QED BY <1>1, <1>2, <1>10, <2>1, <2>2 DEF ServeLate
<1>11. ASSUME NEW p \in Electors, Crash(p) PROVE Claims(q) /\ ~taken /\ UNCHANGED lease
  BY <1>11 DEF Crash, Claims, TypeOK
<1>12. ASSUME Tick PROVE lease' # NoLease /\ lease'.holder = q
  <2>1. Claims(q) /\ ~taken BY <1>12 DEF Tick, Claims
  <2>2. lease # NoLease /\ lease.holder = q BY <2>1 DEF Own
  <2>3. lease \in Leases /\ lease' = [lease EXCEPT !.age = Older(@)]
    BY <1>12, <2>2 DEF Tick, TypeOK
  <2>4. Older(lease.age) \in Nat BY <2>3 DEF Leases, Older, MaxAge
  <2> QED BY <2>2, <2>3, <2>4 DEF Leases
<1>13. CASE UNCHANGED vars
  <2>1. Claims(q) /\ ~taken /\ UNCHANGED lease BY <1>13 DEF Claims, vars
  <2> QED BY <1>1, <2>1
<1> QED
  BY <1>1, <1>3, <1>4, <1>5, <1>6, <1>7, <1>8, <1>9, <1>10, <1>11, <1>12, <1>13
  DEF Next, Step, GetHeld, Refused, CallFails

\* Until an elector overwrites another's lease, only the elector that created
\* it can lead: any two creations and renewals may race, fail or come late.
THEOREM OnlyTheFirstLeads == Spec => []FirstLeaderAlone
<1>1. Init => Own BY DEF Init, Own, Claims
<1>2. Own => FirstLeaderAlone BY DEF Own, FirstLeaderAlone, Leaders, Claims
<1> QED BY <1>1, <1>2, OwnStep, ElectionTypes, PTL DEF Spec

-----------------------------------------------------------------------------
(***************************************************************************)
(* The ticker of a leader.                                                 *)
(***************************************************************************)
LEMMA TimersStep == TypeOK /\ Timers /\ [Next]_vars => Timers'
<1> SUFFICES ASSUME TypeOK, Timers, [Next]_vars, NEW q \in Electors, leading'[q]
             PROVE  /\ pc'[q] \in Alive
                    /\ timer'[q] # 0
                    /\ pc'[q] \in Calling => due'[q] \/ timer'[q] + lat'[q] <= RetryPeriod
  BY DEF Timers
<1> DEFINE Goal == /\ pc'[q] \in Alive
                   /\ timer'[q] # 0
                   /\ pc'[q] \in Calling => due'[q] \/ timer'[q] + lat'[q] <= RetryPeriod
<1> USE ElectionAssumption DEF Alive, Calling
<1>1. leading[q] => /\ pc[q] \in Alive
                    /\ timer[q] # 0
                    /\ pc[q] \in Calling => due[q] \/ timer[q] + lat[q] <= RetryPeriod
  BY DEF Timers
<1>2. ASSUME NEW p \in Electors, Start(p) PROVE Goal
  BY <1>1, <1>2 DEF Start, Begin, TypeOK
<1>3. ASSUME NEW p \in Electors, Wake(p) PROVE Goal
  BY <1>1, <1>3 DEF Wake, Begin, TypeOK
<1>4. ASSUME NEW p \in Electors, Get(p) PROVE Goal
  BY <1>1, <1>4 DEF Get, TypeOK
<1>5. ASSUME NEW p \in Electors, Fail(p) PROVE Goal
  BY <1>1, <1>5 DEF Fail, TypeOK
<1>6. ASSUME NEW p \in Electors, Put(p) PROVE Goal
  BY <1>1, <1>6 DEF Put, TypeOK
<1>7. ASSUME NEW p \in Electors, Post(p) PROVE Goal
  BY <1>1, <1>7 DEF Post, TypeOK
<1>8. ASSUME NEW p \in Electors, Granted(p) PROVE Goal
  BY <1>1, <1>8 DEF Granted, Succeed, TypeOK
<1>9. ASSUME NEW p \in Electors, ServeLate(p) PROVE Goal
  BY <1>1, <1>9 DEF ServeLate
<1>10. ASSUME NEW p \in Electors, Crash(p) PROVE Goal
  BY <1>1, <1>10 DEF Crash, TypeOK
<1>11. ASSUME Tick PROVE Goal
  <2>1. leading[q] /\ pc'[q] = pc[q] BY <1>11 DEF Tick
  <2>2. timer[q] = 1 => timer'[q] = RetryPeriod /\ due'[q] BY <1>11, <2>1 DEF Tick
  <2>3. timer[q] # 1 => timer'[q] = timer[q] - 1 /\ (due'[q] <=> due[q])
    BY <1>1, <1>11, <2>1 DEF Tick
  <2>4. pc[q] \in Calling => lat'[q] = lat[q] + 1 BY <1>11 DEF Tick
  <2>5. timer[q] \in 0..RetryPeriod /\ lat[q] \in 0..MaxLatency BY DEF TypeOK
  <2> QED BY <1>1, <2>1, <2>2, <2>3, <2>4, <2>5
<1>12. CASE UNCHANGED vars
  BY <1>1, <1>12 DEF vars
<1> QED
  BY <1>2, <1>3, <1>4, <1>5, <1>6, <1>7, <1>8, <1>9, <1>10, <1>11, <1>12
  DEF Next, Step, GetHeld, Refused, CallFails

-----------------------------------------------------------------------------
(***************************************************************************)
(* A leader's lease is fresh.                                              *)
(***************************************************************************)
LEMMA FreshStep == TypeOK /\ Timers /\ Fresh /\ [Next]_vars => Fresh'
<1> SUFFICES ASSUME TypeOK, Timers, Fresh, [Next]_vars, lease' # NoLease
             PROVE  Fresh'
  BY DEF Fresh
<1> DEFINE q == lease'.holder
           Goal == /\ pc'[q] = "granted" => lease'.age <= MaxLatency + lat'[q]
                   /\ leading'[q] /\ pc'[q] = "wait" /\ ~due'[q]
                        => lease'.age + timer'[q] <= Oldest
                   /\ leading'[q] /\ pc'[q] = "wait" => lease'.age <= Oldest
                   /\ leading'[q] /\ pc'[q] \in Calling => lease'.age <= Oldest + lat'[q]
<1>g. Goal => Fresh' BY DEF Fresh
<1> USE ElectionAssumption DEF Calling, Oldest
<1>t. lease' \in Leases
  BY NextTypes DEF TypeOK
<1>q. q \in Electors /\ lease'.age \in 0..MaxAge BY <1>t DEF Leases
<1>v. /\ timer[q] \in 0..RetryPeriod /\ lat[q] \in 0..MaxLatency
      /\ timer'[q] \in 0..RetryPeriod /\ lat'[q] \in 0..MaxLatency
  BY <1>q, NextTypes DEF TypeOK
<1>1. ASSUME UNCHANGED lease
      PROVE  /\ pc[q] = "granted" => lease'.age <= MaxLatency + lat[q]
             /\ leading[q] /\ pc[q] = "wait" /\ ~due[q] => lease'.age + timer[q] <= Oldest
             /\ leading[q] /\ pc[q] = "wait" => lease'.age <= Oldest
             /\ leading[q] /\ pc[q] \in Calling => lease'.age <= Oldest + lat[q]
  BY <1>1 DEF Fresh
\* What is written is no older than MaxLatency: that is enough for any stage.
<1>2. ASSUME lease'.age <= MaxLatency PROVE Goal
  BY <1>2, <1>q, <1>v, MaxLatency \in Nat, RetryPeriod \in Nat DEF MaxAge
<1>3. ASSUME NEW p \in Electors, Start(p) PROVE Goal
  <2>1. UNCHANGED lease /\ UNCHANGED <<leading, timer, due>> BY <1>3 DEF Start
  <2>2. q = p => ~leading'[q] BY <1>3, <1>q DEF Start, Timers, Alive
  <2>3. q = p => pc'[q] = "get" BY <1>3, <1>q DEF Start, Begin, TypeOK
  <2>4. q # p => pc'[q] = pc[q] /\ lat'[q] = lat[q] BY <1>3, <1>q DEF Start, Begin, TypeOK
  <2> QED BY <1>1, <1>v, <2>1, <2>2, <2>3, <2>4
<1>4. ASSUME NEW p \in Electors, Wake(p) PROVE Goal
  <2>1. UNCHANGED lease /\ UNCHANGED <<leading, timer>> BY <1>4 DEF Wake
  <2>2. q = p => pc[q] = "wait" /\ pc'[q] = "get" /\ lat'[q] = 0
    BY <1>4, <1>q DEF Wake, Begin, TypeOK
  <2>3. q # p => pc'[q] = pc[q] /\ lat'[q] = lat[q] /\ due'[q] = due[q]
    BY <1>4, <1>q DEF Wake, Begin, TypeOK
  <2> QED BY <1>1, <1>q, <1>v, <2>1, <2>2, <2>3
<1>5. ASSUME NEW p \in Electors, Get(p) PROVE Goal
  <2>1. UNCHANGED lease /\ UNCHANGED <<leading, timer, due, lat>> BY <1>5 DEF Get
  <2>2. q = p => pc[q] = "get" /\ pc'[q] \in {"put", "post"} BY <1>5, <1>q DEF Get, TypeOK
  <2>3. q # p => pc'[q] = pc[q] BY <1>5, <1>q DEF Get, TypeOK
  <2> QED BY <1>1, <1>q, <1>v, <2>1, <2>2, <2>3
<1>6. ASSUME NEW p \in Electors, Fail(p), UNCHANGED lease PROVE Goal
  <2>1. q = p => ~leading'[q] /\ pc'[q] \in {"gone", "wait"}
    BY <1>6, <1>q DEF Fail, TypeOK
  <2>2. q # p => /\ pc'[q] = pc[q] /\ leading'[q] = leading[q] /\ due'[q] = due[q]
                 /\ timer'[q] = timer[q] /\ lat'[q] = lat[q]
    BY <1>6, <1>q DEF Fail, TypeOK
  <2> QED BY <1>1, <1>6, <1>v, <2>1, <2>2
<1>7. ASSUME NEW p \in Electors, Put(p) PROVE Goal
  BY <1>2, <1>7 DEF Put, Store, TypeOK
<1>8. ASSUME NEW p \in Electors, Post(p) PROVE Goal
  <2>1. CASE Store(p, lat[p])
    BY <1>2, <2>1 DEF Store, TypeOK
  <2>2. CASE pc' = [pc EXCEPT ![p] = "refused"] /\ UNCHANGED <<lease, taken, deposed>>
    <3>1. UNCHANGED <<leading, timer, due, lat>> BY <1>8 DEF Post
    <3>2. q = p => pc[q] = "post" /\ pc'[q] = "refused" BY <1>8, <1>q, <2>2 DEF Post, TypeOK
    <3>3. q # p => pc'[q] = pc[q] BY <1>q, <2>2 DEF TypeOK
    <3> QED BY <1>1, <1>v, <2>2, <3>1, <3>2, <3>3
  <2> QED BY <1>8, <2>1, <2>2 DEF Post
<1>9. ASSUME NEW p \in Electors, Granted(p) PROVE Goal
  <2>1. UNCHANGED <<lease, due>> BY <1>9 DEF Granted, Succeed
  <2>2. q = p => pc[q] = "granted" /\ pc'[q] = "wait"
    BY <1>9, <1>q DEF Granted, Succeed, TypeOK
  <2>3. q # p => /\ pc'[q] = pc[q] /\ leading'[q] = leading[q]
                 /\ timer'[q] = timer[q] /\ lat'[q] = lat[q]
    BY <1>9, <1>q DEF Granted, Succeed, TypeOK
  <2>4. CASE q = p
    <3>1. lease'.age <= 2 * MaxLatency BY <1>1, <1>q, <1>v, <2>1, <2>2, <2>4
    <3> QED BY <1>q, <1>v, <2>2, <2>4, <3>1
  <2> QED BY <1>1, <1>q, <1>v, <2>1, <2>3, <2>4
<1>10. ASSUME NEW p \in Electors, ServeLate(p) PROVE Goal
  <2>1. CASE Store(p, late[p].age)
    BY <1>2, <1>10, <2>1 DEF Store, ServeLate, TypeOK
  <2>2. CASE UNCHANGED <<lease, taken, deposed>>
    <3>1. UNCHANGED <<pc, leading, timer, due, lat>> BY <1>10 DEF ServeLate
    <3> QED BY <1>1, <2>2, <3>1
  <2> QED BY <1>10, <2>1, <2>2 DEF ServeLate
<1>11. ASSUME NEW p \in Electors, Crash(p) PROVE Goal
  <2>1. UNCHANGED lease BY <1>11 DEF Crash
  <2>2. q = p => pc'[q] = "gone" BY <1>11, <1>q DEF Crash, TypeOK
  <2>3. q # p => /\ pc'[q] = pc[q] /\ leading'[q] = leading[q] /\ due'[q] = due[q]
                 /\ timer'[q] = timer[q] /\ lat'[q] = lat[q]
    BY <1>11, <1>q DEF Crash, TypeOK
  <2> QED BY <1>1, <2>1, <2>2, <2>3
<1>12. ASSUME Tick PROVE Goal
  <2>1. lease # NoLease /\ lease \in Leases /\ lease' = [lease EXCEPT !.age = Older(@)]
    BY <1>12 DEF Tick, TypeOK
  <2>2. q = lease.holder /\ lease'.age <= lease.age + 1 /\ lease.age \in Nat
    BY <2>1 DEF Leases, Older, MaxAge
  <2>3. pc' = pc /\ leading' = leading BY <1>12 DEF Tick
  <2>4. pc[q] \in Calling => lat'[q] = lat[q] + 1 BY <1>12, <1>q DEF Tick
  <2>5. pc[q] = "wait" => ~due[q] BY <1>12, <1>q DEF Tick, Prompt
  <2>6. leading[q] => timer[q] # 0 BY <1>q DEF Timers
  <2>7. leading[q] /\ timer[q] # 1 => timer'[q] = timer[q] - 1
    BY <1>12, <1>q, <2>6 DEF Tick
  <2>8. timer[q] = 1 => due'[q] BY <1>12, <1>q DEF Tick
  <2>9. /\ pc[q] = "granted" => lease.age <= MaxLatency + lat[q]
        /\ leading[q] /\ pc[q] = "wait" => lease.age + timer[q] <= Oldest
        /\ leading[q] /\ pc[q] \in Calling => lease.age <= Oldest + lat[q]
    BY <2>1, <2>2, <2>5 DEF Fresh
  <2>10. pc'[q] = "granted" => lease'.age <= MaxLatency + lat'[q]
    BY <1>q, <1>v, <2>2, <2>3, <2>4, <2>9
  <2>11. leading'[q] /\ pc'[q] = "wait" /\ ~due'[q] => lease'.age + timer'[q] <= Oldest
    BY <1>q, <1>v, <2>2, <2>3, <2>7, <2>8, <2>9
  <2>12. leading'[q] /\ pc'[q] = "wait" => lease'.age <= Oldest
    BY <1>q, <1>v, <2>2, <2>3, <2>6, <2>9
  <2>13. leading'[q] /\ pc'[q] \in Calling => lease'.age <= Oldest + lat'[q]
    BY <1>q, <1>v, <2>2, <2>3, <2>4, <2>9
  <2> QED BY <2>10, <2>11, <2>12, <2>13
<1>13. CASE UNCHANGED vars
  <2>1. UNCHANGED lease BY <1>13 DEF vars
  <2>2. /\ pc'[q] = pc[q] /\ leading'[q] = leading[q] /\ due'[q] = due[q]
        /\ timer'[q] = timer[q] /\ lat'[q] = lat[q]
    BY <1>13 DEF vars
  <2> QED BY <1>g, <1>1, <2>1, <2>2
<1> QED
  BY <1>g, <1>3, <1>4, <1>5, <1>6, <1>7, <1>8, <1>9, <1>10, <1>11, <1>12, <1>13
  DEF Next, Step, GetHeld, Refused, CallFails

\* When the lease outlasts a retry period and three attempts, no elector
\* decides to take it from a process that is leading.
THEOREM LeadersAreNotOverthrown ==
  ASSUME RetryPeriod + 3 * MaxLatency < LeaseDuration
  PROVE  Spec => NoTakeoverFromLeader
<1> DEFINE Kept == \A p \in Electors :
             pc[p] = "get" /\ pc'[p] = "put" => lease.holder = p \/ ~leading[lease.holder]
<1>1. Init => Timers /\ Fresh BY DEF Init, Timers, Fresh
<1>2. TypeOK /\ Timers /\ Fresh /\ [Next]_vars => [Kept]_vars
  <2> SUFFICES ASSUME TypeOK, Timers, Fresh, Next, NEW p \in Electors,
                      pc[p] = "get", pc'[p] = "put", lease.holder # p, leading[lease.holder]
               PROVE  FALSE
    BY DEF vars
  <2> DEFINE h == lease.holder
  <2>1. Get(p)
    BY DEF Next, Step, Start, Begin, Wake, Get, GetHeld, Put, Post, Granted, Refused,
           CallFails, ServeLate, Crash, Tick, Fail, Succeed, TypeOK
  <2>2. lease \in Leases /\ lease.age >= LeaseDuration + lat[p]
    BY <2>1 DEF Get, Expired, TypeOK
  <2>3. h \in Electors /\ lease.age \in Nat BY <2>2, ElectionAssumption DEF Leases, MaxAge
  <2>4. lat[h] \in 0..MaxLatency /\ lat[p] \in 0..MaxLatency BY <2>3 DEF TypeOK
  <2>5. pc[h] \in Alive BY <2>3 DEF Timers
  <2>6. lease # NoLease BY <2>1 DEF Get, TypeOK
  <2>7. lease.age <= Oldest + MaxLatency
    <3>1. CASE pc[h] = "wait"
      BY <2>3, <2>6, <3>1, ElectionAssumption DEF Fresh, Oldest
    <3>2. CASE pc[h] \in Calling
      BY <2>3, <2>4, <2>6, <3>2, ElectionAssumption DEF Fresh, Oldest
    <3> QED BY <2>5, <3>1, <3>2 DEF Alive
  <2> QED BY <2>2, <2>3, <2>4, <2>7, ElectionAssumption DEF Oldest
<1> QED
  BY <1>1, <1>2, TimersStep, FreshStep, ElectionTypes, PTL DEF Spec, NoTakeoverFromLeader

-----------------------------------------------------------------------------
(***************************************************************************)
(* A leader notices that its lease was overwritten.                        *)
(***************************************************************************)
LEMMA NoticeStep ==
  ASSUME MaxLatency <= RetryPeriod
  PROVE  TypeOK /\ Timers /\ Notice /\ [Next]_vars => Notice'
<1> DEFINE Noticed(q) ==
      /\ deposed[q] <= RetryPeriod + MaxLatency
      /\ ~leading[q] /\ pc[q] # "gone" => deposed[q] = 0
      /\ leading[q] /\ pc[q] = "wait" => deposed[q] <= RetryPeriod
      /\ leading[q] /\ pc[q] = "wait" /\ ~due[q] => deposed[q] + timer[q] <= RetryPeriod
      /\ leading[q] /\ pc[q] \in Calling => deposed[q] <= RetryPeriod + lat[q]
      /\ leading[q] /\ pc[q] = "granted" => deposed[q] <= lat[q]
<1> SUFFICES ASSUME TypeOK, Timers, Notice, [Next]_vars, NEW q \in Electors
             PROVE  Noticed(q)'
  BY DEF Notice
<1>a. Noticed(q) BY DEF Notice
<1>b. leading[q] => /\ pc[q] \in {"wait"} \cup Calling
                    /\ timer[q] # 0
                    /\ pc[q] \in Calling => due[q] \/ timer[q] + lat[q] <= RetryPeriod
  BY DEF Timers, Alive
<1>v. /\ timer[q] \in 0..RetryPeriod /\ lat[q] \in 0..MaxLatency /\ deposed[q] \in Nat
      /\ timer'[q] \in 0..RetryPeriod /\ lat'[q] \in 0..MaxLatency /\ deposed'[q] \in Nat
      /\ pc[q] \in {"off", "gone", "wait"} \cup Calling
  BY NextTypes DEF TypeOK, Alive
<1>n. RetryPeriod \in Nat /\ MaxLatency \in Nat BY ElectionAssumption
<1> USE DEF Calling
\* q takes no part in the step.
<1>1. ASSUME /\ pc'[q] = pc[q] /\ leading'[q] = leading[q] /\ due'[q] = due[q]
             /\ timer'[q] = timer[q] /\ lat'[q] = lat[q]
             /\ deposed'[q] = deposed[q]
      PROVE  Noticed(q)'
  BY <1>1, <1>a
\* q has just got the lease back.
<1>2. ASSUME deposed'[q] = 0 PROVE Noticed(q)'
  BY <1>2, <1>v, <1>n
<1>3. ASSUME NEW p \in Electors, Start(p) PROVE Noticed(q)'
  <2>1. UNCHANGED <<leading, timer, due, deposed>> BY <1>3 DEF Start
  <2>2. q # p => pc'[q] = pc[q] /\ lat'[q] = lat[q] BY <1>3 DEF Start, Begin, TypeOK
  <2>3. q = p => pc[q] = "off" BY <1>3 DEF Start
  <2>4. q = p => deposed'[q] = 0 BY <1>a, <1>b, <2>1, <2>3
  <2> QED BY <1>1, <1>2, <2>1, <2>2, <2>4
<1>4. ASSUME NEW p \in Electors, Wake(p) PROVE Noticed(q)'
  <2>1. UNCHANGED <<leading, timer, deposed>> BY <1>4 DEF Wake
  <2>2. q # p => pc'[q] = pc[q] /\ lat'[q] = lat[q] /\ due'[q] = due[q]
    BY <1>4 DEF Wake, Begin, TypeOK
  <2>3. q = p => pc[q] = "wait" /\ pc'[q] = "get" /\ lat'[q] = 0
    BY <1>4 DEF Wake, Begin, TypeOK
  <2>4. CASE q = p BY <1>a, <1>v, <1>n, <2>1, <2>3, <2>4
  <2> QED BY <1>1, <2>1, <2>2, <2>4
<1>5. ASSUME NEW p \in Electors, Get(p) PROVE Noticed(q)'
  <2>1. UNCHANGED <<leading, timer, due, lat, deposed>> BY <1>5 DEF Get
  <2>2. q # p => pc'[q] = pc[q] BY <1>5 DEF Get, TypeOK
  <2>3. q = p => pc[q] = "get" /\ pc'[q] \in {"put", "post"} BY <1>5 DEF Get, TypeOK
  <2>4. CASE q = p BY <1>a, <2>1, <2>3, <2>4
  <2> QED BY <1>1, <2>1, <2>2, <2>4
<1>6. ASSUME NEW p \in Electors, pc[p] \in Calling, Fail(p), UNCHANGED deposed
      PROVE  Noticed(q)'
  <2>1. q # p => /\ pc'[q] = pc[q] /\ leading'[q] = leading[q] /\ due'[q] = due[q]
                 /\ timer'[q] = timer[q] /\ lat'[q] = lat[q]
    BY <1>6 DEF Fail, TypeOK
  <2>2. q = p => ~leading'[q] /\ pc'[q] = IF leading[q] THEN "gone" ELSE "wait"
    BY <1>6 DEF Fail, TypeOK
  <2>3. CASE q = p BY <1>6, <1>a, <2>2, <2>3
  <2> QED BY <1>1, <1>6, <2>1, <2>3
<1>7. ASSUME NEW p \in Electors, Put(p) PROVE Noticed(q)'
  <2>1. UNCHANGED <<leading, timer, due, lat>> BY <1>7 DEF Put
  <2>2. q # p => pc'[q] = pc[q] /\ deposed'[q] = deposed[q]
    BY <1>7 DEF Put, Store, TypeOK
  <2>3. q = p => deposed'[q] = 0 BY <1>7 DEF Put, Store, TypeOK
  <2> QED BY <1>1, <1>2, <2>1, <2>2, <2>3
<1>8. ASSUME NEW p \in Electors, Post(p) PROVE Noticed(q)'
  <2>1. UNCHANGED <<leading, timer, due, lat>> BY <1>8 DEF Post
  <2>2. q # p => pc'[q] = pc[q] /\ deposed'[q] = deposed[q]
    BY <1>8 DEF Post, Store, TypeOK
  <2>3. q = p => \/ deposed'[q] = 0
                 \/ pc[q] = "post" /\ pc'[q] = "refused" /\ deposed'[q] = deposed[q]
    BY <1>8 DEF Post, Store, TypeOK
  <2>4. CASE pc[q] = "post" /\ pc'[q] = "refused" /\ deposed'[q] = deposed[q]
    BY <1>a, <2>1, <2>4
  <2> QED BY <1>1, <1>2, <2>1, <2>2, <2>3, <2>4
<1>9. ASSUME NEW p \in Electors, Granted(p) PROVE Noticed(q)'
  <2>1. UNCHANGED <<due, deposed>> BY <1>9 DEF Granted, Succeed
  <2>2. q # p => /\ pc'[q] = pc[q] /\ leading'[q] = leading[q]
                 /\ timer'[q] = timer[q] /\ lat'[q] = lat[q]
    BY <1>9 DEF Granted, Succeed, TypeOK
  <2>3. q = p => /\ pc[q] = "granted" /\ pc'[q] = "wait" /\ leading'[q]
                 /\ leading[q] => timer'[q] = timer[q]
    BY <1>9 DEF Granted, Succeed, TypeOK
  <2>4. CASE q = p /\ leading[q]
    <3>1. deposed[q] <= lat[q] BY <1>a, <2>3, <2>4
    <3>2. due[q] \/ timer[q] + lat[q] <= RetryPeriod BY <1>b, <2>3, <2>4
    <3> QED BY <1>v, <1>n, <2>1, <2>3, <2>4, <3>1, <3>2
  <2>5. CASE q = p /\ ~leading[q]
    BY <1>2, <1>a, <2>1, <2>3, <2>5
  <2> QED BY <1>1, <2>1, <2>2, <2>4, <2>5
<1>10. ASSUME NEW p \in Electors, ServeLate(p) PROVE Noticed(q)'
  <2>1. UNCHANGED <<pc, leading, timer, due, lat>> BY <1>10 DEF ServeLate
  <2>2. deposed'[q] = 0 \/ deposed'[q] = deposed[q]
    BY <1>10 DEF ServeLate, Store, TypeOK
  <2> QED BY <1>1, <1>2, <2>1, <2>2
<1>11. ASSUME NEW p \in Electors, Crash(p) PROVE Noticed(q)'
  <2>1. UNCHANGED deposed BY <1>11 DEF Crash
  <2>2. q # p => /\ pc'[q] = pc[q] /\ leading'[q] = leading[q] /\ due'[q] = due[q]
                 /\ timer'[q] = timer[q] /\ lat'[q] = lat[q]
    BY <1>11 DEF Crash, TypeOK
  <2>3. q = p => ~leading'[q] /\ pc'[q] = "gone" BY <1>11 DEF Crash, TypeOK
  <2>4. CASE q = p BY <1>a, <2>1, <2>3, <2>4
  <2> QED BY <1>1, <2>1, <2>2, <2>4
<1>12. ASSUME Tick PROVE Noticed(q)'
  <2>1. pc'[q] = pc[q] /\ leading'[q] = leading[q] BY <1>12 DEF Tick
  <2>2. deposed'[q] = 0 \/ (leading[q] /\ deposed'[q] = deposed[q] + 1)
    BY <1>12 DEF Tick, Deposed
  <2>3. pc[q] \in Calling => lat'[q] = lat[q] + 1 BY <1>12 DEF Tick
  <2>4. pc[q] = "wait" => ~due[q] BY <1>12 DEF Tick, Prompt
  <2>5. leading[q] /\ timer[q] # 1 => timer'[q] = timer[q] - 1
    BY <1>12, <1>b DEF Tick
  <2>6. timer[q] = 1 => due'[q] BY <1>12 DEF Tick
  <2>7. CASE leading[q] /\ deposed'[q] = deposed[q] + 1
    <3>1. CASE pc[q] = "wait"
      BY <1>a, <1>b, <1>v, <1>n, <2>1, <2>4, <2>5, <2>6, <2>7, <3>1
    <3>2. CASE pc[q] \in Calling
      BY <1>a, <1>v, <1>n, <2>1, <2>3, <2>7, <3>2
    <3> QED BY <1>b, <2>7, <3>1, <3>2
  <2> QED BY <1>2, <2>2, <2>7
<1>13. CASE UNCHANGED vars
  <2>1. UNCHANGED <<pc, leading, timer, due, lat, deposed>> BY <1>13 DEF vars
  <2> QED BY <1>1, <2>1
<1>14. ASSUME NEW p \in Electors, GetHeld(p) \/ Refused(p) \/ CallFails(p)
       PROVE  Noticed(q)'
  <2>1. pc[p] \in Calling /\ Fail(p) /\ UNCHANGED deposed
    BY <1>14 DEF GetHeld, Refused, CallFails
  <2> QED BY <1>6, <2>1
<1> QED
  BY <1>3, <1>4, <1>5, <1>7, <1>8, <1>9, <1>10, <1>11, <1>12, <1>13, <1>14
  DEF Next, Step

\* When no attempt takes longer than a retry period, a leader whose lease was
\* overwritten stops at most a retry period and one attempt later.
THEOREM OverthrownLeadersStop ==
  ASSUME MaxLatency <= RetryPeriod
  PROVE  Spec => []DeposedStops
<1>1. Init => Timers /\ Notice
  BY ElectionAssumption DEF Init, Timers, Notice, Alive, Calling
<1>2. Notice => DeposedStops BY DEF Notice, DeposedStops
<1> QED BY <1>1, <1>2, TimersStep, NoticeStep, ElectionTypes, PTL DEF Spec
=============================================================================
