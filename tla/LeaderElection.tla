--------------------------- MODULE LeaderElection ---------------------------
(***************************************************************************)
(* Leader election among controller managers                               *)
(* (internal/leaderelection/election.go, the lease calls of                *)
(* internal/client/client.go, cmd/controller-manager/main.go).             *)
(*                                                                         *)
(* The electors share one Lease object on the API server.  Each attempt to *)
(* acquire or renew reads the clock, then the lease (GET), decides, and    *)
(* writes it (POST when there is none, PUT otherwise).  The API server     *)
(* serves each call in one step and compares nothing: a PUT overwrites     *)
(* whatever is there, a POST fails only on an existing lease.  A call may  *)
(* fail before or after it was served, and a call its client has given up  *)
(* may still be served.                                                    *)
(*                                                                         *)
(* Time is discrete and shared by all clocks.  Instants are kept as ages:  *)
(* of the lease's renewTime and of the `now' each attempt has read.        *)
(*                                                                         *)
(* An elector stands for one process: its identity holds the pid, so a     *)
(* controller manager that is started again is another elector.            *)
(***************************************************************************)
EXTENDS Naturals, FiniteSets

CONSTANTS
  Electors,       \* controller managers started with -leader-elect
  LeaseDuration,  \* Config.LeaseDuration (15 s)
  RetryPeriod,    \* Config.RetryPeriod (2 s)
  MaxLatency,     \* longest time an attempt, or a call given up, can take
  MaxErrors,      \* bound: failed calls in a behaviour
  NoLease,        \* there is no Lease object
  NoCall          \* no call is on its way

ASSUME ElectionAssumption ==
  /\ LeaseDuration \in Nat /\ RetryPeriod \in Nat \ {0} /\ MaxLatency \in Nat
  /\ MaxErrors \in Nat
  /\ NoLease \notin [holder : Electors, age : Nat]

VARIABLES
  lease,    \* the Lease object: its holder and the age of its renewTime
  pc,       \* where each elector is
  leading,  \* it runs the controllers
  timer,    \* ticks until its timer fires, 0 when the timer is not set
  due,      \* the timer has fired: the tick waits to be received
  lat,      \* the age of `now' in the attempt under way
  late,     \* the call it has given up that the server may still serve
  errors,   \* failed calls so far
  taken,    \* history: some lease was overwritten by another elector
  deposed   \* history: for how long it leads on another elector's lease

vars == <<lease, pc, leading, timer, due, lat, late, errors, taken, deposed>>

-----------------------------------------------------------------------------
\* off: not started.  wait: between attempts.  get, put, post: the call is on
\* its way to the server.  granted, refused: the answer is on its way back.
\* gone: the process has ended.
Calling == {"get", "put", "post", "granted", "refused"}

Alive == {"wait"} \cup Calling

\* An age past which nothing distinguishes two leases: `now' is at most
\* MaxLatency old when it is compared with renewTime.
MaxAge == LeaseDuration + MaxLatency

Older(age) == IF age < MaxAge THEN age + 1 ELSE age

Leases == [holder : Electors, age : 0..MaxAge]

Init ==
  /\ lease = NoLease
  /\ pc = [p \in Electors |-> "off"]
  /\ leading = [p \in Electors |-> FALSE]
  /\ timer = [p \in Electors |-> 0]
  /\ due = [p \in Electors |-> FALSE]
  /\ lat = [p \in Electors |-> 0]
  /\ late = [p \in Electors |-> NoCall]
  /\ errors = 0
  /\ taken = FALSE
  /\ deposed = [p \in Electors |-> 0]

-----------------------------------------------------------------------------
\* tryAcquireOrRenew begins: it reads the clock and sends the GET.
Begin(p) ==
  /\ pc' = [pc EXCEPT ![p] = "get"]
  /\ lat' = [lat EXCEPT ![p] = 0]

\* Run makes its first attempt at once.
Start(p) ==
  /\ pc[p] = "off"
  /\ Begin(p)
  /\ UNCHANGED <<lease, leading, timer, due, late, errors, taken, deposed>>

\* The retry timer of Run or the ticker of renewLoop has fired.
Wake(p) ==
  /\ pc[p] = "wait"
  /\ due[p]
  /\ due' = [due EXCEPT ![p] = FALSE]
  /\ Begin(p)
  /\ UNCHANGED <<lease, leading, timer, late, errors, taken, deposed>>

\* Mutants of Fail: a leader goes on after a renewal that failed; a standby
\* does not set its timer.
FailKeepsLeading(p) ==
  /\ pc' = [pc EXCEPT ![p] = "wait"]
  /\ timer' = [timer EXCEPT ![p] = IF leading[p] THEN @ ELSE RetryPeriod]
  /\ lat' = [lat EXCEPT ![p] = 0]
  /\ UNCHANGED <<leading, due>>

FailSetsNoTimer(p) ==
  /\ pc' = [pc EXCEPT ![p] = IF leading[p] THEN "gone" ELSE "wait"]
  /\ leading' = [leading EXCEPT ![p] = FALSE]
  /\ timer' = [timer EXCEPT ![p] = 0]
  /\ due' = [due EXCEPT ![p] = FALSE]
  /\ lat' = [lat EXCEPT ![p] = 0]

\* tryAcquireOrRenew returns an error: a standby sets its retry timer, a
\* leader leaves renewLoop and OnStoppedLeading ends the process.
Fail(p) ==
  /\ pc' = [pc EXCEPT ![p] = IF leading[p] THEN "gone" ELSE "wait"]
  /\ leading' = [leading EXCEPT ![p] = FALSE]
  /\ timer' = [timer EXCEPT ![p] = IF leading[p] THEN 0 ELSE RetryPeriod]
  /\ due' = [due EXCEPT ![p] = FALSE]
  /\ lat' = [lat EXCEPT ![p] = 0]

\* It returns nil: a standby starts the controllers and the ticker, whose
\* ticks a leader keeps receiving.
Succeed(p) ==
  /\ pc' = [pc EXCEPT ![p] = "wait"]
  /\ leading' = [leading EXCEPT ![p] = TRUE]
  /\ timer' = [timer EXCEPT ![p] = IF leading[p] THEN @ ELSE RetryPeriod]
  /\ lat' = [lat EXCEPT ![p] = 0]
  /\ UNCHANGED due

\* now.Before(expireTime) is false.
Expired(p) == lease.age >= LeaseDuration + lat[p]

\* The lease is read, and the attempt goes on.
Get(p) ==
  /\ pc[p] = "get"
  /\ \/ /\ lease = NoLease
        /\ pc' = [pc EXCEPT ![p] = "post"]
     \/ /\ lease # NoLease
        /\ lease.holder = p \/ Expired(p)
        /\ pc' = [pc EXCEPT ![p] = "put"]
  /\ UNCHANGED <<lease, leading, timer, due, lat, late, errors, taken, deposed>>

\* "lease currently held by ..."
GetHeld(p) ==
  /\ pc[p] = "get"
  /\ lease # NoLease
  /\ lease.holder # p
  /\ ~Expired(p)
  /\ Fail(p)
  /\ UNCHANGED <<lease, late, errors, taken, deposed>>

\* Mutant of Store: the lease names no holder.
StoreWithoutHolder(p, age) ==
  /\ lease' = [holder |-> NoLease, age |-> age]
  /\ taken' = (taken \/ (lease # NoLease /\ lease.holder # p))
  /\ deposed' = [deposed EXCEPT ![p] = 0]

\* The server stores the lease of p whose renewTime is age old.
Store(p, age) ==
  /\ lease' = [holder |-> p, age |-> age]
  /\ taken' = (taken \/ (lease # NoLease /\ lease.holder # p))
  /\ deposed' = [deposed EXCEPT ![p] = 0]

\* Mutant of Put: a renewal writes back the renewTime it has read.
PutKeepsRenewTime(p) ==
  /\ pc[p] = "put"
  /\ Store(p, IF lease.holder = p THEN lease.age ELSE lat[p])
  /\ pc' = [pc EXCEPT ![p] = "granted"]
  /\ UNCHANGED <<leading, timer, due, lat, late, errors>>

\* PUT: Store.Update, without a comparison of versions.
Put(p) ==
  /\ pc[p] = "put"
  /\ Store(p, lat[p])
  /\ pc' = [pc EXCEPT ![p] = "granted"]
  /\ UNCHANGED <<leading, timer, due, lat, late, errors>>

\* POST: Store.Create.
Post(p) ==
  /\ pc[p] = "post"
  /\ \/ /\ lease = NoLease
        /\ Store(p, lat[p])
        /\ pc' = [pc EXCEPT ![p] = "granted"]
     \/ /\ lease # NoLease
        /\ pc' = [pc EXCEPT ![p] = "refused"]
        /\ UNCHANGED <<lease, taken, deposed>>
  /\ UNCHANGED <<leading, timer, due, lat, late, errors>>

\* The answer arrives.
Granted(p) ==
  /\ pc[p] = "granted"
  /\ Succeed(p)
  /\ UNCHANGED <<lease, late, errors, taken, deposed>>

\* Mutant of Refused: CreateLease takes a 409 for success.
RefusedIsGranted(p) ==
  /\ pc[p] = "refused"
  /\ Succeed(p)
  /\ UNCHANGED <<lease, late, errors, taken, deposed>>

Refused(p) ==
  /\ pc[p] = "refused"
  /\ Fail(p)
  /\ UNCHANGED <<lease, late, errors, taken, deposed>>

\* What p has sent and the server has not served.
Sent(p) ==
  IF pc[p] \in {"put", "post"} THEN [op |-> pc[p], age |-> lat[p]] ELSE NoCall

\* A call fails on its way, in either direction.  A write that was not served
\* is lost, or still on its way.
CallFails(p) ==
  /\ errors < MaxErrors
  /\ errors' = errors + 1
  /\ pc[p] \in Calling
  /\ Fail(p)
  /\ \/ UNCHANGED late
     \/ late[p] = NoCall /\ late' = [late EXCEPT ![p] = Sent(p)]
  /\ UNCHANGED <<lease, taken, deposed>>

\* The server serves a call whose client is not waiting any more, or drops it.
ServeLate(p) ==
  /\ late[p] # NoCall
  /\ late' = [late EXCEPT ![p] = NoCall]
  /\ \/ /\ late[p].op = "put" \/ lease = NoLease
        /\ Store(p, late[p].age)
     \/ UNCHANGED <<lease, taken, deposed>>
  /\ UNCHANGED <<pc, leading, timer, due, lat, errors>>

\* The process is killed or interrupted.
Crash(p) ==
  /\ pc[p] \in Alive
  /\ pc' = [pc EXCEPT ![p] = "gone"]
  /\ leading' = [leading EXCEPT ![p] = FALSE]
  /\ timer' = [timer EXCEPT ![p] = 0]
  /\ due' = [due EXCEPT ![p] = FALSE]
  /\ lat' = [lat EXCEPT ![p] = 0]
  /\ \/ UNCHANGED late
     \/ late[p] = NoCall /\ late' = [late EXCEPT ![p] = Sent(p)]
  /\ UNCHANGED <<lease, errors, taken, deposed>>

-----------------------------------------------------------------------------
\* No elector is late: a timer that has fired is received before time goes on,
\* and no attempt or stray call takes longer than MaxLatency.
Prompt ==
  \A p \in Electors :
    /\ ~(pc[p] = "wait" /\ due[p])
    /\ pc[p] \in Calling => lat[p] < MaxLatency
    /\ late[p] # NoCall => late[p].age < MaxLatency

\* Leads although the lease is another's.
Deposed(p) == leading[p] /\ lease # NoLease /\ lease.holder # p

\* One unit of time.  A ticker goes on while the attempt it started is under
\* way and keeps at most one tick; a retry timer fires once.
Tick ==
  /\ Prompt
  /\ lease' = IF lease = NoLease THEN lease ELSE [lease EXCEPT !.age = Older(@)]
  /\ lat' = [p \in Electors |-> IF pc[p] \in Calling THEN lat[p] + 1 ELSE lat[p]]
  /\ late' = [p \in Electors |->
                IF late[p] = NoCall THEN NoCall
                                    ELSE [late[p] EXCEPT !.age = @ + 1]]
  /\ timer' = [p \in Electors |->
                 IF timer[p] # 1 THEN IF timer[p] = 0 THEN 0 ELSE timer[p] - 1
                                 ELSE IF leading[p] THEN RetryPeriod ELSE 0]
  /\ due' = [p \in Electors |-> due[p] \/ timer[p] = 1]
  /\ deposed' = [p \in Electors |-> IF Deposed(p) THEN deposed[p] + 1 ELSE 0]
  /\ UNCHANGED <<pc, leading, errors, taken>>

Step(p) ==
  Wake(p) \/ Get(p) \/ GetHeld(p) \/ Put(p) \/ Post(p) \/ Granted(p) \/ Refused(p)

Next ==
  \/ \E p \in Electors :
       Start(p) \/ Step(p) \/ CallFails(p) \/ ServeLate(p) \/ Crash(p)
  \/ Tick

Spec == Init /\ [][Next]_vars

(***************************************************************************)
(* Go runs every goroutine that can run, the API server serves the calls   *)
(* it gets, and time passes.                                               *)
(***************************************************************************)
Fairness ==
  /\ WF_vars(Tick)
  /\ \A p \in Electors : WF_vars(Step(p)) /\ WF_vars(ServeLate(p))

FairSpec == Spec /\ Fairness

-----------------------------------------------------------------------------
(***************************************************************************)
(* Properties.                                                             *)
(***************************************************************************)
TypeOK ==
  /\ lease \in Leases \cup {NoLease}
  /\ pc \in [Electors -> {"off", "gone"} \cup Alive]
  /\ leading \in [Electors -> BOOLEAN]
  /\ timer \in [Electors -> 0..RetryPeriod]
  /\ due \in [Electors -> BOOLEAN]
  /\ lat \in [Electors -> 0..MaxLatency]
  /\ late \in [Electors -> [op : {"put", "post"}, age : 0..MaxLatency] \cup {NoCall}]
  /\ errors \in 0..MaxErrors
  /\ taken \in BOOLEAN
  /\ deposed \in [Electors -> Nat]

Leaders == {p \in Electors : leading[p]}

\* Only one controller manager runs the controllers at a time.
AtMostOneLeader == \A p, q \in Leaders : p = q

\* Until an elector overwrites the lease of another there is at most one
\* leader, and the lease is its own: whoever wins the race to create the lease
\* is alone, whatever calls fail, come late or are repeated.
FirstLeaderAlone ==
  ~taken => \A p \in Leaders : lease # NoLease /\ lease.holder = p

\* A leader whose lease was overwritten notices at its next renewal: it stops
\* leading at most a retry period and the latency of one attempt later, as long
\* as no attempt takes longer than a retry period.
DeposedStops == \A p \in Electors : deposed[p] <= RetryPeriod + MaxLatency

\* No elector decides to take the lease of a process that is leading: a leader
\* renews in time as long as the lease outlasts a retry period and three
\* attempts, one of them a stray write that turned renewTime back.
NoTakeoverFromLeader ==
  [][\A p \in Electors :
       pc[p] = "get" /\ pc'[p] = "put" => lease.holder = p \/ ~leading[lease.holder]]_vars

\* When no elector leads, one will, unless none is left: the lease of a leader
\* that has ended expires, and each standby tries again every retry period.
SomeoneLeads ==
  \A p \in Electors :
    pc[p] \in Alive ~> Leaders # {} \/ \A q \in Electors : pc[q] \notin Alive
=============================================================================
