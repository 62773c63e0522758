--------------------------- MODULE PodCountProofs ---------------------------
(***************************************************************************)
(* Proof that the managers of Workloads make no more pods than NoOvershoot *)
(* allows.                                                                 *)
(*                                                                         *)
(* Each manager has n tokens per ReplicaSet of an application, where no    *)
(* ReplicaSet asks for more than n replicas.  A pod it may still create on *)
(* what it has listed claims one; every pod of the application takes up    *)
(* another, or one of those that the failed calls add.                     *)
(***************************************************************************)
EXTENDS WorkloadsProofs

-----------------------------------------------------------------------------
(***************************************************************************)
(* The inductive invariant.                                                *)
(***************************************************************************)
\* How many pods k may still create for x before it lists them again.
Claimed(k, x) ==
  IF growing[k].count > 0 /\ growing[k].set = x THEN growing[k].count
  ELSE IF x \in setsLeft[k] THEN Shortfall(k, x) ELSE 0

Tokens(app, n) == Managers \X (SetsOf(app) \X (1..n))

Free(app, n) == {t \in Tokens(app, n) : t[2][2] > Claimed(t[1], t[2][1])}

Apps == Deployments \cup Singles

IsPost(call, app) == "pod" \in DOMAIN call /\ call.op = "POST" /\ call.pod.set.app = app

\* The calls in flight that make a pod of an application.
Posts(app) == {c \in late : IsPost(c[2], app)}

\* The pods it has or will get from them.
Load(app) == Cardinality(Matching(pods, app)) + Cardinality(Posts(app))

\* They fit into the tokens nobody claims, and one more for each failure.
Room(n) == \A app \in Apps : Load(app) <= Cardinality(Free(app, n)) + errors

\* Each failure leaves at most one such call.
FewPosts == \A app \in Apps : Cardinality(Posts(app)) <= errors

\* A controller creates pods for a set it is through with, within its pass.
Jobs(n) ==
  \A k \in Managers :
    /\ growing[k].count <= n
    /\ growing[k].count > 0 => stage[k] = "loop" /\ growing[k].set \notin setsLeft[k]

Bounded(n) == Types /\ Planned /\ Jobs(n) /\ Room(n) /\ FewPosts

-----------------------------------------------------------------------------
(***************************************************************************)
(* Finite sets.                                                            *)
(***************************************************************************)
\* Every finite set of numbers that is not empty has a largest one: a smallest
\* set without one would lack it still when an element is removed.
LEMMA LargestExists ==
  ASSUME NEW S \in SUBSET Nat, IsFiniteSet(S), S # {}
  PROVE  \E n \in S : \A r \in S : r <= n
<1> DEFINE Largest(T, n) == n \in T /\ \A r \in T : r <= n
           Bad == {T \in SUBSET S : T # {} /\ ~ \E n \in T : Largest(T, n)}
<1> SUFFICES ASSUME S \in Bad PROVE FALSE OBVIOUS
<1>1. FiniteSubsetsOf(S) = SUBSET S BY FS_FiniteSubsetsOfFinite
<1>2. IsWellFoundedOn(StrictSubsetOrdering(S), SUBSET S)
  BY <1>1, FS_StrictSubsetOrderingWellFounded
<1>3. Bad \subseteq SUBSET S /\ Bad # {} OBVIOUS
<1>4. PICK T \in Bad : \A U \in Bad : <<U, T>> \notin StrictSubsetOrdering(S)
  <2> HIDE DEF Bad
  <2> QED BY <1>2, <1>3, WFMin
<1>5. PICK e \in T : TRUE OBVIOUS
<1>6. CASE T = {e} BY <1>6
<1>7. CASE T # {e}
  <2> DEFINE U == T \ {e}
  <2>1. U \in SUBSET S /\ U # {} /\ U # T BY <1>5, <1>7
  <2>2. <<U, T>> \in StrictSubsetOrdering(S) BY <2>1 DEF StrictSubsetOrdering
  <2>3. PICK n \in U : \A r \in U : r <= n BY <1>4, <2>1, <2>2
  <2>4. n \in T /\ n \in Nat /\ e \in Nat OBVIOUS
  <2>5. CASE e <= n
    <3>1. \A r \in T : r <= n BY <2>3, <2>5
    <3> QED BY <2>4, <3>1
  <2>6. CASE n < e
    <3>1. \A r \in T : r \in Nat /\ (r = e \/ r <= n) BY <2>3
    <3>2. \A r \in T : r <= e BY <2>4, <2>6, <3>1
    <3> QED BY <1>5, <3>2
  <2> QED BY <2>4, <2>5, <2>6
<1> QED BY <1>6, <1>7

LEMMA HighestReplicas ==
  \E n \in Replicas \ {Unset} : \A r \in Replicas \ {Unset} : r <= n
<1> DEFINE S == Replicas \ {Unset}
<1>1. S \in SUBSET Nat BY ReplicasAreNumbers
<1>2. IsFiniteSet(S)
  <2>1. IsFiniteSet(UserReplicas \cup {0}) BY FiniteAssumption, FS_AddElement
  <2>2. IsFiniteSet((UserReplicas \cup {0}) \cup {1}) BY <2>1, FS_AddElement
  <2>3. S \subseteq (UserReplicas \cup {0}) \cup {1} BY DEF Replicas
  <2> QED BY <2>2, <2>3, FS_Subset
<1>3. 0 \in S BY WorkloadAssumption DEF Replicas
<1> HIDE DEF S
<1>4. \E n \in S : \A r \in S : r <= n BY <1>1, <1>2, <1>3, LargestExists
<1> QED BY <1>4 DEF S

LEMMA SetsOfFinite ==
  ASSUME NEW app \in Deployments \cup Singles
  PROVE  IsFiniteSet(SetsOf(app))
<1>1. CASE app \in Deployments
  <2> DEFINE f == [t \in Templates |-> [app |-> app, template |-> t]]
  <2>1. SetsOf(app) = {[app |-> app, template |-> t] : t \in Templates}
    BY <1>1, WorkloadAssumption DEF SetsOf, Sets
  <2>2. f \in Surjection(Templates, SetsOf(app)) BY <2>1 DEF Surjection
  <2> QED BY <2>2, FiniteAssumption, FS_Surjection
<1>2. CASE app \in Singles
  <2>1. SetsOf(app) = {[app |-> app, template |-> Nothing]}
    BY <1>2, WorkloadAssumption DEF SetsOf, Sets
  <2> QED BY <2>1, FS_Singleton
<1> QED BY <1>1, <1>2

LEMMA TokensFinite ==
  ASSUME NEW app \in Deployments \cup Singles, NEW n \in Nat
  PROVE  /\ IsFiniteSet(Tokens(app, n))
         /\ Cardinality(Tokens(app, n)) = Cardinality(Managers) * Cardinality(SetsOf(app)) * n
<1>1. IsFiniteSet(SetsOf(app)) /\ IsFiniteSet(Managers) BY SetsOfFinite, FiniteAssumption
<1>2. IsFiniteSet(1..n) /\ Cardinality(1..n) = n BY FS_Interval
<1>3. /\ IsFiniteSet(SetsOf(app) \X (1..n))
      /\ Cardinality(SetsOf(app) \X (1..n)) = Cardinality(SetsOf(app)) * n
  BY <1>1, <1>2, FS_Product
<1>4. /\ IsFiniteSet(Tokens(app, n))
      /\ Cardinality(Tokens(app, n)) = Cardinality(Managers) * (Cardinality(SetsOf(app)) * n)
  BY <1>1, <1>3, FS_Product DEF Tokens
<1>5. Cardinality(SetsOf(app)) \in Nat /\ Cardinality(Managers) \in Nat
  BY <1>1, FS_CardinalityType
<1>6. \A a, b \in Nat : a * (b * n) = a * b * n OBVIOUS
<1> QED BY <1>4, <1>5, <1>6

\* The last p tokens of a manager for a set.
LastTokens(k, x, p, n) == {k} \X ({x} \X ((n - p + 1)..n))

LEMMA BlockSize ==
  ASSUME NEW k, NEW x, NEW p \in Nat, NEW n \in Nat, p < n
  PROVE  Cardinality(LastTokens(k, x, p, n)) = p
<1> DEFINE I == (n - p + 1)..n
<1>1. IsFiniteSet(I) /\ Cardinality(I) = p
  <2>1. n - p + 1 \in Int /\ n \in Int OBVIOUS
  <2>2. IsFiniteSet(I) /\ Cardinality(I) = IF n - p + 1 > n THEN 0 ELSE n - (n - p + 1) + 1
    BY <2>1, FS_Interval
  <2> QED BY <2>2
<1> HIDE DEF I
<1>2. IsFiniteSet({k}) /\ Cardinality({k}) = 1 /\ IsFiniteSet({x}) /\ Cardinality({x}) = 1
  BY FS_Singleton
<1>3. IsFiniteSet({x} \X I) /\ Cardinality({x} \X I) = 1 * p
  BY <1>1, <1>2, FS_Product
<1>4. Cardinality({k} \X ({x} \X I)) = 1 * (1 * p)
  BY <1>2, <1>3, FS_Product
<1>5. Cardinality({k} \X ({x} \X I)) = p BY <1>4
<1> QED BY <1>5 DEF LastTokens, I

-----------------------------------------------------------------------------
(***************************************************************************)
(* Claims.                                                                 *)
(***************************************************************************)
ClaimsOK ==
  \A k \in Managers : /\ growing[k].count \in Nat
                       /\ \A x \in Sets : Claimed(k, x) \in Nat

LEMMA ClaimsAreNumbers == Types => ClaimsOK
<1> SUFFICES ASSUME Types, NEW k \in Managers
             PROVE  growing[k].count \in Nat /\ \A x \in Sets : Claimed(k, x) \in Nat
  BY DEF ClaimsOK
<1>1. growing[k].count \in Nat BY DEF Types, TypeOK, SetControllerOK, NoJob
<1>2. \A x \in Sets : x \in setsLeft[k] => Shortfall(k, x) \in Nat BY Counts DEF Types, Listed
<1> QED BY <1>1, <1>2 DEF Claimed

LEMMA NextClaimsAreNumbers == Types' => ClaimsOK'
BY ClaimsAreNumbers, PTL

\* A set never lacks more pods than it asks for.
LEMMA ShortfallBounded ==
  ASSUME Types, NEW n \in Nat, \A r \in Replicas \ {Unset} : r <= n,
         NEW k \in Managers, NEW x \in Sets, rss[k][x] # Absent
  PROVE  Shortfall(k, x) \in Nat /\ Shortfall(k, x) <= n
<1>1. Shortfall(k, x) \in Nat /\ Cardinality(Owned(k, x)) \in Nat BY Counts
<1>2. CASE rss[k][x] = Unset BY <1>1, <1>2 DEF Shortfall
<1>3. CASE rss[k][x] # Unset
  <2>1. rss[k][x] \in Replicas \ {Unset}
    BY <1>3 DEF Types, TypeOK, SetControllerOK, Objects
  <2>2. rss[k][x] \in Nat /\ rss[k][x] <= n BY <2>1, ReplicasAreNumbers
  <2> QED BY <1>1, <2>2 DEF Shortfall
<1> QED BY <1>2, <1>3

\* What a manager does not touch keeps its claims.
LEMMA SameClaim ==
  ASSUME NEW k, NEW x, rss'[k] = rss[k], allPods'[k] = allPods[k],
         growing'[k] = growing[k], setsLeft'[k] = setsLeft[k]
  PROVE  Claimed(k, x)' = Claimed(k, x)
BY DEF Claimed, Shortfall, Owned, Matching

-----------------------------------------------------------------------------
(***************************************************************************)
(* Loads.                                                                  *)
(***************************************************************************)
LoadsOK ==
  /\ errors \in Nat
  /\ \A app \in Apps :
       /\ IsFiniteSet(Matching(pods, app)) /\ Cardinality(Matching(pods, app)) \in Nat
       /\ IsFiniteSet(Posts(app)) /\ Cardinality(Posts(app)) \in Nat
       /\ Load(app) \in Nat

LEMMA LoadsAreNumbers == Types => LoadsOK
<1> SUFFICES ASSUME Types PROVE LoadsOK OBVIOUS
<1>1. errors \in Nat BY DEF Types, TypeOK, BoundsOK
<1>2. \A app : IsFiniteSet(Matching(pods, app)) /\ IsFiniteSet(Posts(app))
  BY FS_Subset DEF Types, Counted, Stored, Matching, Posts
<1>3. \A app : Cardinality(Matching(pods, app)) \in Nat /\ Cardinality(Posts(app)) \in Nat
  BY <1>2, FS_CardinalityType
<1> QED BY <1>1, <1>2, <1>3 DEF LoadsOK, Load

LEMMA NextLoadsAreNumbers == Types' => LoadsOK'
BY LoadsAreNumbers, PTL

\* A step that adds no more to the load of an application than a failure allows.
Calm(app) ==
  /\ Load(app)' + errors <= Load(app) + errors'
  /\ Cardinality(Posts(app)') + errors <= Cardinality(Posts(app)) + errors'

LEMMA FewerIsCalm ==
  ASSUME Types, Types', NEW app \in Apps, Matching(pods', app) \subseteq Matching(pods, app),
         late' \subseteq late, errors' >= errors
  PROVE  Calm(app)
<1>1. LoadsOK /\ LoadsOK' BY LoadsAreNumbers, NextLoadsAreNumbers
<1>2. Posts(app)' \subseteq Posts(app) BY DEF Posts
<1>3. /\ Cardinality(Posts(app)') <= Cardinality(Posts(app))
      /\ Cardinality(Matching(pods', app)) <= Cardinality(Matching(pods, app))
  BY <1>1, <1>2, FS_Subset DEF LoadsOK
<1>4. /\ errors \in Nat /\ errors' \in Nat
      /\ Cardinality(Matching(pods, app)) \in Nat /\ Cardinality(Matching(pods', app)) \in Nat
      /\ Cardinality(Posts(app)) \in Nat /\ Cardinality(Posts(app)') \in Nat
  BY <1>1 DEF LoadsOK
<1>5. Load(app)' = Cardinality(Matching(pods', app)) + Cardinality(Posts(app)')
  BY DEF Load, Matching
<1> QED BY <1>3, <1>4, <1>5 DEF Calm, Load

LEMMA SameIsCalm ==
  ASSUME Types, Types', UNCHANGED <<pods, late, errors>>, NEW app \in Apps
  PROVE  Calm(app)
<1>1. errors \in Nat BY LoadsAreNumbers DEF LoadsOK
<1>2. Matching(pods', app) \subseteq Matching(pods, app) OBVIOUS
<1> QED BY <1>1, <1>2, FewerIsCalm

LEMMA OneMore ==
  ASSUME NEW S, NEW T, NEW q, IsFiniteSet(S), T \subseteq S \cup {q}
  PROVE  IsFiniteSet(T) /\ Cardinality(T) <= Cardinality(S) + 1
<1>1. Cardinality(S) \in Nat BY FS_CardinalityType
<1>2. IsFiniteSet(S \cup {q}) /\ Cardinality(S \cup {q}) <= Cardinality(S) + 1
  <2>1. CASE q \in S
    <3>1. S \cup {q} = S BY <2>1
    <3> QED BY <1>1, <3>1
  <2>2. CASE q \notin S
    <3>1. IsFiniteSet(S \cup {q}) /\ Cardinality(S \cup {q}) = Cardinality(S) + 1
      BY <2>2, FS_AddElement
    <3> QED BY <1>1, <3>1
  <2> QED BY <2>1, <2>2
<1>3. IsFiniteSet(T) /\ Cardinality(T) <= Cardinality(S \cup {q}) BY <1>2, FS_Subset
<1>4. Cardinality(T) \in Nat /\ Cardinality(S \cup {q}) \in Nat
  BY <1>2, <1>3, FS_CardinalityType
<1> QED BY <1>1, <1>2, <1>3, <1>4

\* The calls that a failure leaves may make one pod.
LEMMA LeftIsCalm ==
  ASSUME Types, Types', NEW calls, NEW post, Left(calls),
         \A c \in calls : \A app : IsPost(c, app) => c = post,
         NEW app \in Apps
  PROVE  Calm(app)
<1>1. LoadsOK /\ LoadsOK' BY LoadsAreNumbers, NextLoadsAreNumbers
<1>2. pods' = pods /\ errors' = errors + 1 BY DEF Left, Fails
<1>3. Posts(app)' \subseteq Posts(app) \cup {<<errors, post>>}
  <2> SUFFICES ASSUME NEW c \in late', IsPost(c[2], app), c \notin late
               PROVE  c = <<errors, post>>
    BY DEF Posts
  <2>1. c \in {errors} \X calls BY DEF Left
  <2>2. c = <<errors, c[2]>> /\ c[2] \in calls BY <2>1
  <2> QED BY <2>2
<1>4. Cardinality(Posts(app)') <= Cardinality(Posts(app)) + 1
  BY <1>1, <1>3, OneMore DEF LoadsOK
<1>5. /\ errors \in Nat /\ Cardinality(Matching(pods, app)) \in Nat
      /\ Cardinality(Posts(app)) \in Nat /\ Cardinality(Posts(app)') \in Nat
  BY <1>1 DEF LoadsOK
<1>6. Load(app)' = Cardinality(Matching(pods, app)) + Cardinality(Posts(app)')
  BY <1>2 DEF Load, Matching
<1> QED BY <1>2, <1>4, <1>5, <1>6 DEF Calm, Load

\* A call that is served changes what the selector of an application matches by
\* the pod it is about.
LEMMA ServedPods ==
  ASSUME NEW call, Serve(call), NEW app
  PROVE  /\ ~IsPost(call, app) => Matching(pods', app) \subseteq Matching(pods, app)
         /\ Matching(pods', app) \subseteq Matching(pods, app) \cup {call.pod}
BY DEF Serve, IsPost, Matching

\* A call that no one waits for takes its pod from those in flight.
LEMMA ServeLateIsCalm ==
  ASSUME Types, Types', ServeLate, NEW app \in Apps
  PROVE  Calm(app)
<1>1. LoadsOK /\ LoadsOK' BY LoadsAreNumbers, NextLoadsAreNumbers
<1>2. PICK call \in late : Serve(call[2]) /\ late' = late \ {call} BY DEF ServeLate
<1>3. errors' = errors BY DEF ServeLate
<1>4. CASE ~IsPost(call[2], app)
  <2>1. Matching(pods', app) \subseteq Matching(pods, app) BY <1>2, <1>4, ServedPods
  <2>2. late' \subseteq late BY <1>2
  <2>3. errors' >= errors BY <1>1, <1>3 DEF LoadsOK
  <2> QED BY <2>1, <2>2, <2>3, FewerIsCalm
<1>5. CASE IsPost(call[2], app)
  <2>1. Matching(pods', app) \subseteq Matching(pods, app) \cup {call[2].pod}
    BY <1>2, ServedPods
  <2>2. Cardinality(Matching(pods', app)) <= Cardinality(Matching(pods, app)) + 1
    BY <1>1, <2>1, OneMore DEF LoadsOK
  <2>3. Posts(app)' = Posts(app) \ {call} /\ call \in Posts(app)
    BY <1>2, <1>5 DEF Posts, IsPost
  <2>4. Cardinality(Posts(app)') = Cardinality(Posts(app)) - 1
    BY <1>1, <2>3, FS_RemoveElement DEF LoadsOK
  <2>5. /\ errors \in Nat /\ Cardinality(Matching(pods, app)) \in Nat
        /\ Cardinality(Matching(pods', app)) \in Nat
        /\ Cardinality(Posts(app)) \in Nat /\ Cardinality(Posts(app)') \in Nat
    BY <1>1 DEF LoadsOK
  <2>6. Load(app)' = Cardinality(Matching(pods', app)) + Cardinality(Posts(app)')
    BY DEF Load, Matching
  <2> QED BY <1>3, <2>2, <2>4, <2>5, <2>6 DEF Calm, Load
<1> QED BY <1>4, <1>5

-----------------------------------------------------------------------------
(***************************************************************************)
(* The steps.                                                              *)
(***************************************************************************)
\* Who claims no more leaves the tokens free that were.
LEMMA FreeKept ==
  ASSUME Types, Types', NEW n \in Nat, NEW app \in Apps,
         \A k \in Managers, x \in SetsOf(app) : Claimed(k, x)' <= Claimed(k, x)
  PROVE  /\ IsFiniteSet(Free(app, n)) /\ IsFiniteSet(Free(app, n)')
         /\ Cardinality(Free(app, n)) \in Nat /\ Cardinality(Free(app, n)') \in Nat
         /\ Free(app, n) \subseteq Free(app, n)'
         /\ Cardinality(Free(app, n)) <= Cardinality(Free(app, n)')
<1>1. IsFiniteSet(Free(app, n)) /\ IsFiniteSet(Free(app, n)')
  <2>1. Free(app, n) \subseteq Tokens(app, n) /\ Free(app, n)' \subseteq Tokens(app, n)
    BY DEF Free, Tokens
  <2> QED BY <2>1, TokensFinite, FS_Subset DEF Apps
<1>2. Free(app, n) \subseteq Free(app, n)'
  <2> SUFFICES ASSUME NEW t \in Free(app, n) PROVE t \in Free(app, n)' OBVIOUS
  <2>1. /\ t \in Tokens(app, n) /\ t[1] \in Managers /\ t[2][1] \in SetsOf(app)
        /\ t[2][1] \in Sets /\ t[2][2] \in Nat
    BY DEF Free, Tokens, SetsOf
  <2>2. Claimed(t[1], t[2][1]) \in Nat /\ Claimed(t[1], t[2][1])' \in Nat
    BY <2>1, ClaimsAreNumbers, NextClaimsAreNumbers DEF ClaimsOK
  <2>3. t[2][2] > Claimed(t[1], t[2][1]) BY DEF Free
  <2>4. t[2][2] > Claimed(t[1], t[2][1])' BY <2>1, <2>2, <2>3
  <2>5. t \in Tokens(app, n)' BY <2>1 DEF Tokens, SetsOf
  <2> QED BY <2>4, <2>5 DEF Free
<1> QED BY <1>1, <1>2, FS_Subset, FS_CardinalityType

\* A calm step that claims no more leaves room.
LEMMA RoomKept ==
  ASSUME Types, Types', NEW n \in Nat, Room(n), NEW app \in Apps, Calm(app),
         \A k \in Managers, x \in SetsOf(app) : Claimed(k, x)' <= Claimed(k, x)
  PROVE  Load(app)' <= Cardinality(Free(app, n)') + errors'
<1>1. LoadsOK /\ LoadsOK' BY LoadsAreNumbers, NextLoadsAreNumbers
<1>2. Load(app) <= Cardinality(Free(app, n)) + errors BY DEF Room
<1>3. Load(app)' + errors <= Load(app) + errors' BY DEF Calm
<1>4. /\ Cardinality(Free(app, n)) \in Nat /\ Cardinality(Free(app, n)') \in Nat
      /\ Cardinality(Free(app, n)) <= Cardinality(Free(app, n)')
  BY FreeKept
<1>5. Load(app) \in Nat /\ Load(app)' \in Nat /\ errors \in Nat /\ errors' \in Nat
  BY <1>1 DEF LoadsOK
<1> QED BY <1>2, <1>3, <1>4, <1>5

LEMMA FewPostsKept ==
  ASSUME Types, Types', FewPosts, \A app \in Apps : Calm(app)
  PROVE  FewPosts'
<1> SUFFICES ASSUME NEW app \in Apps PROVE Cardinality(Posts(app)') <= errors'
  BY DEF FewPosts, Apps
<1>1. LoadsOK /\ LoadsOK' BY LoadsAreNumbers, NextLoadsAreNumbers
<1>2. Cardinality(Posts(app)) <= errors BY DEF FewPosts
<1>3. Cardinality(Posts(app)') + errors <= Cardinality(Posts(app)) + errors' BY DEF Calm
<1>4. /\ Cardinality(Posts(app)) \in Nat /\ Cardinality(Posts(app)') \in Nat
      /\ errors \in Nat /\ errors' \in Nat
  BY <1>1 DEF LoadsOK, Apps
<1> QED BY <1>2, <1>3, <1>4

\* A calm step that leaves each manager the claims it had or none.
LEMMA QuietStep ==
  ASSUME NEW n \in Nat, Types, Types', Jobs(n), Room(n), FewPosts, \A app \in Apps : Calm(app),
         \A j \in Managers :
           \/ /\ rss'[j] = rss[j] /\ allPods'[j] = allPods[j] /\ stage'[j] = stage[j]
              /\ growing'[j] = growing[j] /\ setsLeft'[j] = setsLeft[j]
           \/ growing'[j].count = 0 /\ setsLeft'[j] = {}
  PROVE  Jobs(n)' /\ Room(n)' /\ FewPosts'
<1>1. Jobs(n)' BY DEF Jobs
<1>2. \A j \in Managers, x \in Sets : Claimed(j, x)' <= Claimed(j, x)
  <2> SUFFICES ASSUME NEW j \in Managers, NEW x \in Sets PROVE Claimed(j, x)' <= Claimed(j, x)
    OBVIOUS
  <2>1. Claimed(j, x) \in Nat BY ClaimsAreNumbers DEF ClaimsOK
  <2>2. CASE /\ rss'[j] = rss[j] /\ allPods'[j] = allPods[j]
             /\ growing'[j] = growing[j] /\ setsLeft'[j] = setsLeft[j]
    <3>1. Claimed(j, x)' = Claimed(j, x) BY <2>2, SameClaim
    <3> QED BY <2>1, <3>1
  <2>3. CASE growing'[j].count = 0 /\ setsLeft'[j] = {}
    <3>1. Claimed(j, x)' = 0 BY <2>3 DEF Claimed
    <3> QED BY <2>1, <3>1
  <2> QED BY <2>2, <2>3
<1>3. \A app \in Apps : Load(app)' <= Cardinality(Free(app, n)') + errors'
  BY <1>2, RoomKept DEF SetsOf
<1>4. Room(n)' BY <1>3 DEF Room, Apps
<1> QED BY <1>1, <1>4, FewPostsKept

\* reconcileRS turns what a set lacks into a job, which claims as much.
LEMMA ReconcileStep ==
  ASSUME NEW n \in Nat, \A r \in Replicas \ {Unset} : r <= n,
         Types, Types', Jobs(n), Room(n), FewPosts,
         NEW k \in Managers, NEW x \in Sets, ReconcileRS(k, x)
  PROVE  Jobs(n)' /\ Room(n)' /\ FewPosts'
<1>1. x \in setsLeft[k] /\ rss[k][x] # Absent BY DEF ReconcileRS, Types, Listed
<1>2. Shortfall(k, x) \in Nat /\ Shortfall(k, x) <= n BY <1>1, ShortfallBounded
<1>3. UNCHANGED <<pods, late, errors, stage, rss, allPods>> BY DEF ReconcileRS, objects
<1>4. /\ setsLeft'[k] = setsLeft[k] \ {x}
      /\ growing'[k] = IF Shortfall(k, x) = 0 THEN NoJob
                                              ELSE [set |-> x, count |-> Shortfall(k, x)]
      /\ \A j \in Managers : j # k => growing'[j] = growing[j] /\ setsLeft'[j] = setsLeft[j]
  BY DEF ReconcileRS, Types, TypeOK, SetControllerOK
<1>5. Jobs(n)'
  <2>1. growing'[k].count <= n BY <1>2, <1>4 DEF NoJob
  <2>2. growing'[k].count > 0 => stage'[k] = "loop" /\ growing'[k].set \notin setsLeft'[k]
    BY <1>2, <1>3, <1>4 DEF NoJob, ReconcileRS
  <2> QED BY <1>3, <1>4, <2>1, <2>2 DEF Jobs
<1>6. \A j \in Managers, y \in Sets : Claimed(j, y)' <= Claimed(j, y)
  <2> SUFFICES ASSUME NEW j \in Managers, NEW y \in Sets PROVE Claimed(j, y)' <= Claimed(j, y)
    OBVIOUS
  <2>1. Claimed(j, y) \in Nat BY ClaimsAreNumbers DEF ClaimsOK
  <2>2. CASE j # k
    <3>1. Claimed(j, y)' = Claimed(j, y) BY <1>3, <1>4, <2>2, SameClaim
    <3> QED BY <2>1, <3>1
  <2>3. CASE j = k
    <3>1. growing[k].count = 0 BY DEF ReconcileRS, SetDone
    <3>2. Claimed(k, y) = IF y \in setsLeft[k] THEN Shortfall(k, y) ELSE 0
      BY <3>1 DEF Claimed
    <3>3. Shortfall(k, y)' = Shortfall(k, y) BY <1>3 DEF Shortfall, Owned, Matching
    <3>4. CASE y = x
      <4>1. Claimed(k, y)' = Shortfall(k, x)
        BY <1>2, <1>4, <3>4 DEF Claimed, NoJob
      <4> QED BY <1>1, <2>1, <2>3, <3>2, <3>4, <4>1
    <3>5. CASE y # x
      <4>1. Claimed(k, y)' = IF y \in setsLeft[k] THEN Shortfall(k, y) ELSE 0
        BY <1>4, <3>3, <3>5 DEF Claimed, NoJob
      <4> QED BY <2>1, <2>3, <3>2, <4>1
    <3> QED BY <3>4, <3>5
  <2> QED BY <2>2, <2>3
<1>7. \A app \in Apps : Calm(app) BY <1>3, SameIsCalm
<1>8. \A app \in Apps : Load(app)' <= Cardinality(Free(app, n)') + errors'
  BY <1>6, <1>7, RoomKept DEF SetsOf
<1>9. Room(n)' BY <1>8 DEF Room, Apps
<1> QED BY <1>5, <1>7, <1>9, FewPostsKept

\* The list of pods gives a manager claims that leave room for the pods it lists.
LEMMA ListPodsStep ==
  ASSUME NEW n \in Nat, \A r \in Replicas \ {Unset} : r <= n,
         Types, Types', Jobs(n), Room(n), FewPosts,
         NEW k \in Managers, ListPods(k)
  PROVE  Jobs(n)' /\ Room(n)' /\ FewPosts'
<1>0. UNCHANGED <<late, errors>> BY DEF ListPods, objects
<1>1. UNCHANGED <<pods, rss, growing>> /\ stage[k] = "sets" BY DEF ListPods, objects
<1>2. /\ allPods'[k] = pods
      /\ setsLeft'[k] = {x \in Sets : rss[k][x] # Absent}
      /\ stage'[k] = "loop"
      /\ \A j \in Managers : j # k =>
           allPods'[j] = allPods[j] /\ setsLeft'[j] = setsLeft[j] /\ stage'[j] = stage[j]
  BY DEF ListPods, Types, TypeOK, SetControllerOK
<1>3. growing[k].count = 0 /\ setsLeft[k] = {}
  <2>1. growing[k].count \in Nat BY ClaimsAreNumbers DEF ClaimsOK
  <2> QED BY <1>1, <2>1 DEF Jobs, Types, Listed
<1>4. Jobs(n)' BY <1>1, <1>2, <1>3 DEF Jobs
<1>5. \A app \in Apps : Calm(app) BY <1>0, <1>1, SameIsCalm
<1>6. ASSUME NEW app \in Apps
      PROVE  Load(app)' <= Cardinality(Free(app, n)') + errors'
  <2> DEFINE p == Cardinality(Matching(pods, app))
  <2>1. IsFiniteSet(Matching(pods, app)) BY LoadsAreNumbers DEF LoadsOK
  <2>2. p \in Nat BY <2>1, FS_CardinalityType
  <2>3. ASSUME NEW x \in SetsOf(app)
        PROVE  Claimed(k, x)' = 0 \/ Claimed(k, x)' <= n - p
    <3>1. x \in Sets /\ x.app = app BY DEF SetsOf
    <3>2. CASE x \notin setsLeft'[k] BY <1>1, <1>3, <3>2 DEF Claimed
    <3>3. CASE x \in setsLeft'[k]
      <4>1. Claimed(k, x)' = Shortfall(k, x)' BY <1>1, <1>3, <3>3 DEF Claimed
      <4>2. rss[k][x] # Absent BY <1>2, <3>3
      <4>3. Owned(k, x)' = Matching(pods, app) BY <1>2, <3>1 DEF Owned
      <4>4. Shortfall(k, x)' = IF rss[k][x] = Unset \/ rss[k][x] <= p THEN 0 ELSE rss[k][x] - p
        BY <1>1, <4>3 DEF Shortfall
      <4>5. CASE rss[k][x] = Unset BY <4>1, <4>4, <4>5
      <4>6. CASE rss[k][x] # Unset
        <5>1. rss[k][x] \in Replicas \ {Unset}
          BY <3>1, <4>2, <4>6 DEF Types, TypeOK, SetControllerOK, Objects
        <5>2. rss[k][x] \in Nat /\ rss[k][x] <= n BY <5>1, ReplicasAreNumbers
        <5> QED BY <2>2, <4>1, <4>4, <5>2
      <4> QED BY <4>5, <4>6
    <3> QED BY <3>2, <3>3
  <2>4. CASE p < n /\ \E x \in SetsOf(app) : TRUE
    <3>1. PICK x \in SetsOf(app) : TRUE BY <2>4
    <3> DEFINE Own == LastTokens(k, x, p, n)
    <3>2. Own \subseteq Free(app, n)'
      <4> SUFFICES ASSUME NEW i \in (n - p + 1)..n PROVE <<k, <<x, i>>>> \in Free(app, n)'
        BY DEF LastTokens
      <4>1. i \in 1..n /\ i > n - p /\ i > 0 BY <2>2, <2>4
      <4>2. Claimed(k, x)' \in Nat BY NextClaimsAreNumbers DEF ClaimsOK, SetsOf
      <4>3. i > Claimed(k, x)' BY <2>2, <2>3, <4>1, <4>2
      <4>4. <<k, <<x, i>>>> \in Tokens(app, n)' BY <4>1 DEF Tokens, SetsOf
      <4> QED BY <4>3, <4>4 DEF Free
    <3>3. Cardinality(Own) = p
      <4> HIDE DEF p
      <4> QED BY <2>2, <2>4, BlockSize
    <3>4. IsFiniteSet(Free(app, n)')
      <4>1. Free(app, n)' \subseteq Tokens(app, n) BY DEF Free, Tokens
      <4> QED BY <4>1, TokensFinite, FS_Subset DEF Apps
    <3>5. Cardinality(Own) <= Cardinality(Free(app, n)') /\ Cardinality(Free(app, n)') \in Nat
      BY <3>2, <3>4, FS_Subset, FS_CardinalityType
    <3>6. Load(app)' = p + Cardinality(Posts(app)) BY <1>0, <1>1 DEF Load, Matching, Posts
    <3>7. /\ Cardinality(Posts(app)) <= errors
          /\ Cardinality(Posts(app)) \in Nat /\ errors \in Nat
      BY LoadsAreNumbers DEF FewPosts, LoadsOK
    <3> HIDE DEF p, Own
    <3> QED BY <1>0, <2>2, <3>3, <3>5, <3>6, <3>7
  <2>5. CASE p >= n \/ SetsOf(app) = {}
    <3>1. \A j \in Managers, x \in SetsOf(app) : Claimed(j, x)' <= Claimed(j, x)
      <4> SUFFICES ASSUME NEW j \in Managers, NEW x \in SetsOf(app)
                   PROVE  Claimed(j, x)' <= Claimed(j, x)
        OBVIOUS
      <4>1. Claimed(j, x) \in Nat /\ Claimed(j, x)' \in Nat
        BY ClaimsAreNumbers, NextClaimsAreNumbers DEF ClaimsOK, SetsOf
      <4>2. CASE j # k
        <5>1. Claimed(j, x)' = Claimed(j, x) BY <1>1, <1>2, <4>2, SameClaim
        <5> QED BY <4>1, <5>1
      <4>3. CASE j = k
        <5>1. Claimed(k, x)' = 0 BY <2>2, <2>3, <2>5, <4>1, <4>3
        <5> QED BY <4>1, <4>3, <5>1
      <4> QED BY <4>2, <4>3
    <3> QED BY <1>5, <3>1, RoomKept
  <2> QED BY <2>2, <2>4, <2>5
<1>7. Room(n)' BY <1>6 DEF Room, Apps
<1> QED BY <1>4, <1>5, <1>7, FewPostsKept

\* A pod that is created takes the place of the claim given up for it.
LEMMA CreatePodStep ==
  ASSUME NEW n \in Nat, Types, Types', Jobs(n), Room(n), FewPosts,
         NEW k \in Managers, CreatePod(k)
  PROVE  Jobs(n)' /\ Room(n)' /\ FewPosts'
<1>0. growing[k] \in [set : Sets, count : Nat]
  BY DEF CreatePod, Types, TypeOK, SetControllerOK, NoJob
<1>1. PICK x \in Sets, c \in Nat \ {0} :
        /\ growing[k].set = x /\ growing[k].count = c
        /\ c <= n /\ x \notin setsLeft[k] /\ stage[k] = "loop"
  BY <1>0 DEF CreatePod, Jobs
<1>2. UNCHANGED <<stage, rss, allPods, setsLeft>> BY DEF CreatePod
<1>3. /\ growing'[k] = IF c = 1 THEN NoJob ELSE [set |-> x, count |-> c - 1]
      /\ \A j \in Managers : j # k => growing'[j] = growing[j]
  BY <1>1 DEF CreatePod, Types, TypeOK, SetControllerOK
<1>4. Jobs(n)'
  <2>1. growing'[k].count <= n BY <1>1, <1>3 DEF NoJob
  <2>2. growing'[k].count > 0 => stage'[k] = "loop" /\ growing'[k].set \notin setsLeft'[k]
    BY <1>1, <1>2, <1>3 DEF NoJob
  <2> QED BY <1>2, <1>3, <2>1, <2>2 DEF Jobs
<1>5. Claimed(k, x) = c /\ Claimed(k, x)' = c - 1
  BY <1>1, <1>2, <1>3 DEF Claimed, NoJob
<1>6. \A j \in Managers, y \in Sets : j # k \/ y # x => Claimed(j, y)' = Claimed(j, y)
  <2> SUFFICES ASSUME NEW j \in Managers, NEW y \in Sets, j # k \/ y # x
               PROVE  Claimed(j, y)' = Claimed(j, y)
    OBVIOUS
  <2>1. CASE j # k BY <1>2, <1>3, <2>1, SameClaim
  <2>2. CASE j = k /\ y # x
    <3>1. Shortfall(k, y)' = Shortfall(k, y) BY <1>2 DEF Shortfall, Owned, Matching
    <3>2. Claimed(k, y) = IF y \in setsLeft[k] THEN Shortfall(k, y) ELSE 0
      BY <1>1, <2>2 DEF Claimed
    <3>3. Claimed(k, y)' = IF y \in setsLeft[k] THEN Shortfall(k, y) ELSE 0
      BY <1>1, <1>2, <1>3, <2>2, <3>1 DEF Claimed, NoJob
    <3> QED BY <2>2, <3>2, <3>3
  <2> QED BY <2>1, <2>2
<1>7. \A j \in Managers, y \in Sets : Claimed(j, y)' <= Claimed(j, y)
  <2> SUFFICES ASSUME NEW j \in Managers, NEW y \in Sets PROVE Claimed(j, y)' <= Claimed(j, y)
    OBVIOUS
  <2>1. Claimed(j, y) \in Nat BY ClaimsAreNumbers DEF ClaimsOK
  <2>2. CASE j # k \/ y # x BY <1>6, <2>1, <2>2
  <2>3. CASE j = k /\ y = x BY <1>1, <1>5, <2>3
  <2> QED BY <2>2, <2>3
<1>8. PICK f \in Suffixes : Send(PostPod(x, f)) BY <1>1 DEF CreatePod
<1> DEFINE post == PostPod(x, f)
<1>9. post.pod.set = x /\ \A app : IsPost(post, app) => x.app = app BY DEF PostPod, IsPost
<1> HIDE DEF post
<1>10. CASE Left({post})
  <2>1. \A app \in Apps : Calm(app) BY <1>10, LeftIsCalm
  <2>2. \A app \in Apps : Load(app)' <= Cardinality(Free(app, n)') + errors'
    BY <1>7, <2>1, RoomKept DEF SetsOf
  <2>3. Room(n)' BY <2>2 DEF Room, Apps
  <2> QED BY <1>4, <2>1, <2>3, FewPostsKept
<1>11. CASE Serve(post) /\ UNCHANGED <<late, errors>>
  <2>1. FewPosts' BY <1>11 DEF FewPosts, Posts, Apps
  <2>2. ASSUME NEW app \in Apps
        PROVE  Load(app)' <= Cardinality(Free(app, n)') + errors'
    <3>1. CASE x.app # app
      <4>1. Matching(pods', app) \subseteq Matching(pods, app)
        BY <1>9, <1>11, <3>1, ServedPods
      <4>2. errors \in Nat BY LoadsAreNumbers DEF LoadsOK
      <4>3. Calm(app) BY <1>11, <4>1, <4>2, FewerIsCalm
      <4> QED BY <1>7, <4>3, RoomKept DEF SetsOf
    <3>2. CASE x.app = app
      <4> DEFINE t == <<k, <<x, c>>>>
      <4>1. /\ IsFiniteSet(Free(app, n)) /\ IsFiniteSet(Free(app, n)')
            /\ Cardinality(Free(app, n)) \in Nat /\ Cardinality(Free(app, n)') \in Nat
            /\ Free(app, n) \subseteq Free(app, n)'
        BY <1>7, FreeKept DEF SetsOf
      <4>2. t \in Tokens(app, n) BY <1>1, <3>2 DEF Tokens, SetsOf
      <4>3. t \notin Free(app, n) BY <1>1, <1>5 DEF Free
      <4>4. t \in Free(app, n)'
        <5>1. c > Claimed(k, x)' BY <1>1, <1>5
        <5> QED BY <4>2, <5>1 DEF Free, Tokens
      <4> HIDE DEF t
      <4>5. Free(app, n) \cup {t} \subseteq Free(app, n)' BY <4>1, <4>4
      <4>6. Cardinality(Free(app, n) \cup {t}) = Cardinality(Free(app, n)) + 1
        BY <4>1, <4>3, FS_AddElement
      <4>7. Cardinality(Free(app, n) \cup {t}) <= Cardinality(Free(app, n)')
        BY <4>1, <4>5, FS_Subset
      <4>8. Matching(pods', app) \subseteq Matching(pods, app) \cup {post.pod}
        BY <1>11, ServedPods
      <4>9. LoadsOK /\ LoadsOK' BY LoadsAreNumbers, NextLoadsAreNumbers
      <4>10. Cardinality(Matching(pods', app)) <= Cardinality(Matching(pods, app)) + 1
        BY <4>8, <4>9, OneMore DEF LoadsOK
      <4>11. Load(app)' = Cardinality(Matching(pods', app)) + Cardinality(Posts(app))
        BY <1>11 DEF Load, Matching, Posts
      <4>12. Load(app) <= Cardinality(Free(app, n)) + errors BY DEF Room
      <4>13. /\ errors \in Nat /\ Cardinality(Matching(pods, app)) \in Nat
             /\ Cardinality(Matching(pods', app)) \in Nat /\ Cardinality(Posts(app)) \in Nat
        BY <4>9 DEF LoadsOK
      <4> QED BY <1>11, <4>1, <4>6, <4>7, <4>10, <4>11, <4>12, <4>13 DEF Load
    <3> QED BY <3>1, <3>2
  <2>3. Room(n)' BY <2>2 DEF Room, Apps
  <2> QED BY <1>4, <2>1, <2>3
<1> QED BY <1>8, <1>10, <1>11 DEF Send, post

\* Calls about ReplicaSets make no pods.
LEMMA DepStepIsCalm ==
  ASSUME Types, Types', NEW k \in Managers, DepStep(k), NEW app \in Apps
  PROVE  Calm(app)
<1>1. ASSUME NEW call, "pod" \notin DOMAIN call, Send(call) PROVE Calm(app)
  <2>1. ~IsPost(call, app) BY <1>1 DEF IsPost
  <2>2. CASE Left({call})
    <3>1. \A c \in {call} : \A a : IsPost(c, a) => c = call OBVIOUS
    <3> QED BY <2>2, <3>1, LeftIsCalm
  <2>3. CASE Serve(call) /\ UNCHANGED <<late, errors>>
    <3>1. pods' = pods BY <1>1, <2>3 DEF Serve
    <3> QED BY <2>3, <3>1, SameIsCalm
  <2> QED BY <1>1, <2>2, <2>3 DEF Send
<1>2. \A x, n : "pod" \notin DOMAIN PutSet(x, n) /\ "pod" \notin DOMAIN PostSet(x, n)
  BY DEF PutSet, PostSet
<1>3. ASSUME UNCHANGED <<objects, errors>> PROVE Calm(app) BY <1>3, SameIsCalm DEF objects
<1>4. CASE CreateReplicaSet(k)
  <2> DEFINE new == NewSet(syncing[k], listed[k][syncing[k]])
             call == PostSet(new, Initial(listed[k][syncing[k]]))
  <2>1. Send(call) \/ UNCHANGED <<objects, errors>> BY <1>4 DEF CreateReplicaSet, Send
  <2>2. "pod" \notin DOMAIN call BY <1>2
  <2> HIDE DEF call
  <2> QED BY <1>1, <1>3, <2>1, <2>2
<1>5. CASE ScaleNew(k)
  <2> DEFINE call == PutSet(NewSet(syncing[k], listed[k][syncing[k]]), raise[k])
  <2>1. Send(call) BY <1>5 DEF ScaleNew
  <2>2. "pod" \notin DOMAIN call BY <1>2
  <2> HIDE DEF call
  <2> QED BY <1>1, <2>1, <2>2
<1>6. CASE ScaleOld(k)
  <2>1. PICK x \in lower[k] : Send(PutSet(x, 0)) BY <1>6 DEF ScaleOld
  <2> QED BY <1>1, <1>2, <2>1
<1>7. CASE ListDeployments(k) BY <1>3, <1>7 DEF ListDeployments
<1>8. CASE DepWaitTick(k) BY <1>3, <1>8 DEF DepWaitTick
<1>9. CASE \E d \in Deployments : SyncDeployment(k, d) BY <1>3, <1>9 DEF SyncDeployment
<1> QED BY <1>4, <1>5, <1>6, <1>7, <1>8, <1>9 DEF DepStep

\* A manager that ends leaves at most one POST of a pod.
LEMMA RestartIsCalm ==
  ASSUME Types, Types', NEW k \in Managers, Restart(k), NEW app \in Apps
  PROVE  Calm(app)
<1>1. PICK s \in AtMostOne(SetCalls(k)), d \in AtMostOne(DepCalls(k)) : Left(s \cup d)
  BY DEF Restart
<1>2. \A c \in d : "pod" \notin DOMAIN c
  <2>1. d \subseteq DepCalls(k) BY DEF AtMostOne
  <2>2. \A x, n : "pod" \notin DOMAIN PutSet(x, n) /\ "pod" \notin DOMAIN PostSet(x, n)
    BY DEF PutSet, PostSet
  <2>3. \A c \in DepCalls(k) : \E x, n : c = PutSet(x, n) \/ c = PostSet(x, n)
    BY DEF DepCalls
  <2> QED BY <2>1, <2>2, <2>3
<1>3. PICK post : s \subseteq {post} BY DEF AtMostOne
<1>4. \A c \in s \cup d : \A a : IsPost(c, a) => c = post BY <1>2, <1>3 DEF IsPost
<1> QED BY <1>1, <1>4, LeftIsCalm

LEMMA BoundedStep ==
  ASSUME NEW n \in Nat, \A r \in Replicas \ {Unset} : r <= n
  PROVE  Bounded(n) /\ [Next]_vars => Bounded(n)'
<1> SUFFICES ASSUME Bounded(n), [Next]_vars PROVE Bounded(n)' OBVIOUS
<1>1. Types /\ Planned /\ Jobs(n) /\ Room(n) /\ FewPosts BY DEF Bounded
<1>2. Types' /\ Planned' BY <1>1, NextTypes, PlannedStep
<1>e. errors \in Nat BY <1>1, LoadsAreNumbers DEF LoadsOK
<1> DEFINE Goal == Jobs(n)' /\ Room(n)' /\ FewPosts'
<1>3. ASSUME UNCHANGED setController, \A app \in Apps : Calm(app) PROVE Goal
  BY <1>1, <1>2, <1>3, QuietStep DEF setController
<1>c. ASSUME pods' \subseteq pods, late' \subseteq late, errors' \in {errors, errors + 1}
      PROVE  \A app \in Apps : Calm(app)
  <2> SUFFICES ASSUME NEW app \in Apps PROVE Calm(app) OBVIOUS
  <2>1. Matching(pods', app) \subseteq Matching(pods, app) BY <1>c DEF Matching
  <2>2. errors' >= errors BY <1>c, <1>e
  <2> QED BY <1>1, <1>2, <1>c, <2>1, <2>2, FewerIsCalm
<1>4. ASSUME NEW k \in Managers, NEW next \in {"idle", "ended"}, EndPass(k, next), \A app \in Apps : Calm(app) PROVE Goal
  <2>1. growing'[k].count = 0 /\ setsLeft'[k] = {}
    BY <1>1, <1>4 DEF EndPass, Types, TypeOK, SetControllerOK, NoJob
  <2>2. \A j \in Managers : j # k =>
          /\ rss'[j] = rss[j] /\ allPods'[j] = allPods[j] /\ stage'[j] = stage[j]
          /\ growing'[j] = growing[j] /\ setsLeft'[j] = setsLeft[j]
    BY <1>1, <1>4 DEF EndPass, Types, TypeOK, SetControllerOK
  <2> QED BY <1>1, <1>2, <1>4, <2>1, <2>2, QuietStep
<1>5. ASSUME NEW k \in Managers, ListReplicaSets(k) PROVE Goal
  <2>1. growing'[k].count = 0 /\ setsLeft'[k] = {}
    <3>1. growing[k].count \in Nat BY <1>1, ClaimsAreNumbers DEF ClaimsOK
    <3> QED BY <1>1, <1>5, <3>1 DEF ListReplicaSets, Types, Listed, Jobs
  <2>2. \A j \in Managers : j # k =>
          /\ rss'[j] = rss[j] /\ allPods'[j] = allPods[j] /\ stage'[j] = stage[j]
          /\ growing'[j] = growing[j] /\ setsLeft'[j] = setsLeft[j]
    BY <1>1, <1>5 DEF ListReplicaSets, Types, TypeOK, SetControllerOK
  <2>3. \A app \in Apps : Calm(app) BY <1>5, <1>c DEF ListReplicaSets, objects
  <2> QED BY <1>1, <1>2, <2>1, <2>2, <2>3, QuietStep
<1>6. ASSUME NEW k \in Managers, DeletePod(k) PROVE Goal
  <2>1. PICK p \in doomed[k] : Send(DropPod(p)) BY <1>6 DEF DeletePod
  <2>2. \A app : ~IsPost(DropPod(p), app) BY DEF IsPost, DropPod
  <2>3. ASSUME NEW app \in Apps PROVE Calm(app)
    <3>1. CASE Left({DropPod(p)}) BY <1>1, <1>2, <2>2, <3>1, LeftIsCalm
    <3>2. CASE Serve(DropPod(p)) /\ UNCHANGED <<late, errors>>
      <4>1. Matching(pods', app) \subseteq Matching(pods, app) BY <2>2, <3>2, ServedPods
      <4> QED BY <1>1, <1>2, <1>e, <3>2, <4>1, FewerIsCalm
    <3> QED BY <2>1, <3>1, <3>2 DEF Send
  <2>4. UNCHANGED <<stage, rss, allPods, setsLeft, growing>> BY <1>6 DEF DeletePod
  <2> QED BY <1>1, <1>2, <2>3, <2>4, QuietStep
<1>7. ASSUME NEW k \in Managers, SetStep(k) PROVE Goal
  <2>1. CASE ListPods(k) BY <1>1, <1>2, <2>1, ListPodsStep
  <2>2. CASE CreatePod(k) BY <1>1, <1>2, <2>2, CreatePodStep
  <2>3. CASE WaitTick(k)
    <3>1. \A app \in Apps : Calm(app) BY <1>c, <2>3 DEF WaitTick, objects
    <3> QED BY <1>4, <2>3, <3>1 DEF WaitTick
  <2>4. ASSUME NEW x \in Sets, ReconcileRS(k, x) PROVE Goal
    BY <1>1, <1>2, <2>4, ReconcileStep
  <2> QED BY <1>5, <1>6, <1>7, <2>1, <2>2, <2>3, <2>4 DEF SetStep
<1>8. ASSUME NEW k \in Managers, DepStep(k) PROVE Goal
  <2>1. UNCHANGED setController
    BY <1>8
    DEF DepStep, ListDeployments, CreateReplicaSet, ScaleNew, ScaleOld, DepWaitTick, SyncDeployment
  <2> QED BY <1>1, <1>2, <1>3, <1>8, <2>1, DepStepIsCalm
<1>9. ASSUME NEW k \in Managers, ListFails(k) \/ Restart(k) PROVE Goal
  <2>1. CASE ListFails(k)
    <3>1. \A app \in Apps : Calm(app) BY <1>c, <2>1 DEF ListFails, Lost, Fails, objects
    <3> QED BY <1>4, <2>1, <3>1 DEF ListFails
  <2>2. CASE Restart(k)
    <3>1. \A app \in Apps : Calm(app) BY <1>1, <1>2, <2>2, RestartIsCalm
    <3> QED BY <1>4, <2>2, <3>1 DEF Restart
  <2> QED BY <1>9, <2>1, <2>2
<1>s. ASSUME NEW k \in Managers, StopLeading(k) PROVE Goal
  <2>1. \A app \in Apps : Calm(app) BY <1>c, <1>s DEF StopLeading, objects
  <2> QED BY <1>4, <1>s, <2>1 DEF StopLeading
<1>10. ASSUME NEW k \in Managers, NEW d \in Deployments, SyncFails(k, d) PROVE Goal
  BY <1>3, <1>c, <1>10 DEF SyncFails, Lost, Fails, objects
<1>11. ASSUME \/ \E d \in Deployments : ApplyDeployment(d)
              \/ \E x \in Sets : ApplyReplicaSet(x)
              \/ \E p \in PodNames : RemovePod(p)
       PROVE  Goal
  BY <1>3, <1>c, <1>11 DEF ApplyDeployment, ApplyReplicaSet, RemovePod, Change
<1>12. ASSUME ServeLate PROVE Goal
  <2>1. \A app \in Apps : Calm(app) BY <1>1, <1>2, <1>12, ServeLateIsCalm
  <2>2. UNCHANGED setController BY <1>12 DEF ServeLate
  <2> QED BY <1>3, <2>1, <2>2
<1>13. ASSUME UNCHANGED vars PROVE Goal BY <1>3, <1>c, <1>13 DEF vars, objects
<1>14. Goal
  <2> HIDE DEF Goal
  <2> QED BY <1>7, <1>8, <1>9, <1>10, <1>11, <1>12, <1>13, <1>s DEF Next
<1> QED BY <1>2, <1>14 DEF Bounded

LEMMA InitBounded ==
  ASSUME NEW n \in Nat
  PROVE  Init => Bounded(n)
<1> SUFFICES ASSUME Init PROVE Bounded(n) OBVIOUS
<1>1. Types /\ Planned BY InitTypes, InitPlanned
<1>2. Jobs(n) BY DEF Init, Jobs, NoJob
<1>3. ASSUME NEW app \in Apps
      PROVE  /\ Load(app) <= Cardinality(Free(app, n)) + errors
             /\ Cardinality(Posts(app)) <= errors
  <2>1. Matching(pods, app) = {} /\ Posts(app) = {} /\ errors = 0
    BY DEF Init, Matching, Posts
  <2>2. IsFiniteSet(Free(app, n))
    <3>1. Free(app, n) \subseteq Tokens(app, n) BY DEF Free
    <3> QED BY <3>1, TokensFinite, FS_Subset DEF Apps
  <2>3. Cardinality(Free(app, n)) \in Nat BY <2>2, FS_CardinalityType
  <2> QED BY <2>1, <2>3, FS_EmptySet DEF Load
<1> QED BY <1>1, <1>2, <1>3 DEF Bounded, Room, FewPosts

LEMMA RoomBounds ==
  ASSUME NEW n \in Replicas \ {Unset}
  PROVE  Bounded(n) => NoOvershoot
<1> SUFFICES ASSUME Bounded(n), NEW app \in Deployments \cup Singles
             PROVE  Cardinality(Matching(pods, app))
                      <= Cardinality(Managers) * Cardinality(SetsOf(app)) * n + errors
  BY DEF NoOvershoot
<1>1. n \in Nat BY ReplicasAreNumbers
<1>2. Free(app, n) \subseteq Tokens(app, n) BY DEF Free
<1>3. /\ IsFiniteSet(Tokens(app, n))
      /\ Cardinality(Tokens(app, n)) = Cardinality(Managers) * Cardinality(SetsOf(app)) * n
  BY <1>1, TokensFinite
<1>4. IsFiniteSet(Free(app, n)) /\ Cardinality(Free(app, n)) <= Cardinality(Tokens(app, n))
  BY <1>2, <1>3, FS_Subset
<1>5. Load(app) <= Cardinality(Free(app, n)) + errors BY DEF Bounded, Room, Apps
<1>6. /\ Cardinality(Matching(pods, app)) \in Nat /\ Cardinality(Posts(app)) \in Nat
      /\ errors \in Nat
  BY LoadsAreNumbers DEF Bounded, LoadsOK, Apps
<1>7. Cardinality(Free(app, n)) \in Nat /\ Cardinality(Tokens(app, n)) \in Nat
  BY <1>3, <1>4, FS_CardinalityType
<1>8. Cardinality(Matching(pods, app)) <= Cardinality(Tokens(app, n)) + errors
  BY <1>4, <1>5, <1>6, <1>7 DEF Load
<1> QED BY <1>3, <1>8

\* However many managers run at once, and whatever they have listed, fails or
\* ends, an application never has more pods than each of them may make, and one
\* for each call that failed and was served later.
THEOREM PodsAreBounded == Spec => []NoOvershoot
<1>1. PICK n \in Replicas \ {Unset} : \A r \in Replicas \ {Unset} : r <= n
  BY HighestReplicas
<1>2. n \in Nat BY ReplicasAreNumbers
<1>3. Init => Bounded(n) BY <1>2, InitBounded
<1>4. Bounded(n) /\ [Next]_vars => Bounded(n)' BY <1>1, <1>2, BoundedStep
<1>5. Bounded(n) => NoOvershoot BY RoomBounds
<1> QED BY <1>3, <1>4, <1>5, PTL DEF Spec
=============================================================================
