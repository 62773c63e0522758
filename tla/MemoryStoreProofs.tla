-------------------------- MODULE MemoryStoreProofs -------------------------
(***************************************************************************)
(* What holds of the API server and its store for every set of clients,    *)
(* keys, objects and watchers, every channel capacity and every number of  *)
(* requests and crashes.                                                   *)
(***************************************************************************)
EXTENDS MemoryStore, SequenceTheorems, TLAPS

-----------------------------------------------------------------------------
\* Every answer of a handler has the type of an answer.
LEMMA ReplyType ==
  \A status \in Statuses \cup {"none"} : Reply(status) \in Answers
BY DEF Reply, Answers

\* So has the part of the map a read shows.
LEMMA ShownType ==
  ASSUME NEW K \in SUBSET Keys, data \in Maps
  PROVE  [status |-> "ok", body |-> [k \in K |-> data[k]]] \in Answers
BY DEF Answers, Statuses, Maps

\* The initial state.
LEMMA InitInv == Init => Inv
<1> SUFFICES ASSUME Init PROVE Inv
  OBVIOUS
<1> USE DEF Init
<1>1. NoReply \in Answers
  BY ReplyType DEF NoReply
<1>2. Empty \in Maps /\ Empty \in [Keys -> Objects \cup {NoObj, Unknown}]
  BY DEF Empty, Maps
<1>3. wkind \in [Watchers -> Kinds]
  BY RegistryAssumption
<1>4. TypeOK
  <2>1. CoreOK
    BY <1>2 DEF CoreOK
  <2>2. RequestsOK
    BY <1>1 DEF RequestsOK, Stages
  <2>3. PublicationOK
    BY DEF PublicationOK
  <2>6. HistoryOK
    <3>1. acked \in [Keys -> Objects \cup {NoObj, Unknown}]
      BY <1>2
    <3>2. wiped \in BOOLEAN
      OBVIOUS
    <3>3. log \in [Kinds -> Seq(Events)]
      OBVIOUS
    <3> QED
      BY <3>1, <3>2, <3>3 DEF HistoryOK
  <2>4. StreamsOK
    BY <1>3 DEF StreamsOK
  <2>5. BoundsOK
    BY StoreAssumption DEF BoundsOK
  <2> QED
    BY <2>1, <2>2, <2>3, <2>4, <2>5, <2>6 DEF TypeOK
<1>5. WriterExclusion /\ RequestShape /\ EventShape /\ DownIsIdle
  BY StoreAssumption DEF WriterExclusion, RequestShape, EventShape, DownIsIdle, Locked
<1> QED
  BY <1>4, <1>5 DEF Inv

-----------------------------------------------------------------------------
(***************************************************************************)
(* The steps of a request keep the invariant.                              *)
(***************************************************************************)
\* A store call that returns without having changed anything.
LEMMA ReturnInv ==
  ASSUME Inv, NEW c \in Clients, stage[c] = "called", NEW reply \in Answers,
         Return(c, reply)
  PROVE  Inv'
<1> USE DEF Return, core, publication, streams, history, bounds
<1>1. CoreOK' /\ PublicationOK'
  BY DEF Inv, TypeOK, CoreOK, PublicationOK
<1>2. RequestsOK'
  BY DEF Inv, TypeOK, RequestsOK, Stages
<1>3. StreamsOK'
  BY DEF Inv, TypeOK, StreamsOK
<1>4. HistoryOK' /\ BoundsOK'
  BY DEF Inv, TypeOK, HistoryOK, BoundsOK
<1>5. WriterExclusion'
  BY DEF Inv, TypeOK, RequestsOK, WriterExclusion, Locked
<1>6. RequestShape' /\ EventShape' /\ DownIsIdle'
  BY DEF Inv, TypeOK, RequestsOK, RequestShape, EventShape, DownIsIdle, Locked
<1> QED
  BY <1>1, <1>2, <1>3, <1>4, <1>5, <1>6 DEF Inv, TypeOK

\* A mutation takes the lock, changes the map and starts to publish.
LEMMA CommitInv ==
  ASSUME Inv, NEW c \in Clients, stage[c] = "called",
         req[c].op \in Mutations, req[c].obj # Malformed,
         NEW obj \in Objects \cup {NoObj}, NEW shown \in Objects,
         Commit(c, obj, shown)
  PROVE  Inv'
<1> DEFINE e == [type |-> EventType(req[c].op), key |-> req[c].key, obj |-> shown]
<1>1. req[c] \in Requests /\ req[c].key \in Keys
  BY DEF Inv, RequestShape, Requests
<1>2. e \in Events
  BY <1>1 DEF Events, EventType, Mutations
<1>3. CoreOK'
  BY <1>1 DEF Inv, TypeOK, CoreOK, Commit, Maps
<1>4. RequestsOK'
  BY DEF Inv, TypeOK, RequestsOK, Commit, Stages
<1>5. PublicationOK'
  BY <1>2 DEF Inv, TypeOK, PublicationOK, Commit
<1>6. StreamsOK' /\ BoundsOK'
  BY DEF Inv, TypeOK, StreamsOK, BoundsOK, Commit, streams, bounds
<1>7. HistoryOK'
  <2> DEFINE kind == KindOf[req[c].key]
  <2>1. kind \in Kinds
    BY <1>1, RegistryAssumption
  <2>2. log \in [Kinds -> Seq(Events)]
    BY DEF Inv, TypeOK, HistoryOK
  <2>3. Append(log[kind], e) \in Seq(Events)
    BY <1>2, <2>1, <2>2, AppendProperties
  <2>4. log' = [log EXCEPT ![kind] = Append(log[kind], e)]
    BY DEF Commit
  <2>5. log' \in [Kinds -> Seq(Events)]
    BY <2>1, <2>2, <2>3, <2>4
  <2> QED
    BY <1>1, <2>5 DEF Inv, TypeOK, HistoryOK, Commit
<1>8. WriterExclusion'
  BY StoreAssumption DEF Inv, TypeOK, RequestsOK, WriterExclusion, Commit, Locked
<1>9. RequestShape'
  BY <1>1 DEF Inv, TypeOK, RequestsOK, RequestShape, Commit, Locked
<1>10. EventShape'
  BY <1>2, StoreAssumption
  DEF Inv, TypeOK, RequestsOK, WriterExclusion, EventShape, Commit, Locked
<1>11. DownIsIdle'
  BY DEF Inv, TypeOK, RequestsOK, DownIsIdle, Commit, streams
<1> QED
  BY <1>3, <1>4, <1>5, <1>6, <1>7, <1>8, <1>9, <1>10, <1>11 DEF Inv, TypeOK

\* The store call of the lock holder returns.
LEMMA ReleaseInv ==
  ASSUME Inv, NEW c \in Clients, stage[c] \in Locked, NEW reply \in Answers,
         NEW ack \in Objects \cup {NoObj, Unknown},
         Release(c, reply, ack), file' \in Maps \cup {Torn}
  PROVE  Inv'
<1>1. req[c] \in Requests /\ req[c].key \in Keys
  BY DEF Inv, RequestShape, Requests, Locked
<1>2. holder = c /\ up = TRUE
  BY DEF Inv, TypeOK, CoreOK, WriterExclusion, DownIsIdle, Locked
<1>3. CoreOK'
  BY DEF Inv, TypeOK, CoreOK, Release
<1>4. RequestsOK'
  BY DEF Inv, TypeOK, RequestsOK, Release, Stages
<1>5. PublicationOK'
  BY DEF Inv, TypeOK, PublicationOK, Release
<1>6. StreamsOK' /\ BoundsOK'
  BY DEF Inv, TypeOK, StreamsOK, BoundsOK, Release, streams, bounds
<1>7. HistoryOK'
  BY <1>1 DEF Inv, TypeOK, HistoryOK, Release
<1>8. WriterExclusion'
  BY <1>2, StoreAssumption
  DEF Inv, TypeOK, RequestsOK, WriterExclusion, Release, Locked
<1>9. RequestShape'
  BY <1>1 DEF Inv, TypeOK, RequestsOK, RequestShape, Release, Locked
<1>10. EventShape'
  BY <1>2 DEF Inv, TypeOK, RequestsOK, WriterExclusion, EventShape, Release, Locked
<1>11. DownIsIdle'
  BY <1>2 DEF DownIsIdle, Release
<1> QED
  BY <1>3, <1>4, <1>5, <1>6, <1>7, <1>8, <1>9, <1>10, <1>11 DEF Inv, TypeOK

\* The steps of a request that take the lock.
LEMMA EnterInv == ASSUME Inv, NEW c \in Clients, Enter(c) PROVE Inv'
<1>1. stage[c] = "called"
  BY DEF Enter, Get, List, Refuse, Create, Update, Delete
<1>2. req[c] \in Requests /\ req[c].key \in Keys
  BY <1>1 DEF Inv, RequestShape, Requests
<1>3. data \in Maps
  BY DEF Inv, TypeOK, CoreOK
<1>4. CASE Get(c)
  <2>1. {req[c].key} \in SUBSET Keys
    BY <1>2
  <2>2. PICK reply \in Answers : Return(c, reply)
    BY <1>3, <1>4, <2>1, ReplyType, ShownType DEF Get, Statuses
  <2> QED
    BY <1>1, <2>2, ReturnInv
<1>5. CASE List(c)
  <2>1. KeysOf(KindOf[req[c].key]) \in SUBSET Keys
    BY DEF KeysOf
  <2>2. PICK reply \in Answers : Return(c, reply)
    BY <1>3, <1>5, <2>1, ShownType DEF List
  <2> QED
    BY <1>1, <2>2, ReturnInv
<1>6. CASE Refuse(c)
  <2>1. PICK reply \in Answers : Return(c, reply)
    BY <1>6, ReplyType DEF Refuse, Statuses
  <2> QED
    BY <1>1, <2>1, ReturnInv
<1>7. CASE Create(c) \/ Update(c)
  <2>1. req[c].obj \in Objects /\ req[c].op \in Mutations
    BY <1>2, <1>7 DEF Create, Update, Requests, Mutations
  <2> QED
    BY <1>1, <1>7, <2>1, CommitInv DEF Create, Update
<1>8. CASE Delete(c)
  <2>1. data[req[c].key] \in Objects
    BY <1>2, <1>3, <1>8 DEF Delete, Maps
  <2>2. req[c].obj # Malformed /\ req[c].op \in Mutations
    BY <1>2, <1>8, RegistryAssumption DEF Delete, Requests, Mutations
  <2> QED
    BY <1>1, <1>8, <2>1, <2>2, CommitInv DEF Delete
<1> QED
  BY <1>4, <1>5, <1>6, <1>7, <1>8 DEF Enter

\* The steps of the lock holder that publish its event.
LEMMA PublishInv == ASSUME Inv, NEW c \in Clients, Publish(c) PROVE Inv'
<1> USE DEF core, requests, history, bounds
<1>1. CASE Notify(c)
  <2>1. event \in Events
    BY <1>1 DEF Notify, Inv, EventShape
  <2>2. CoreOK' /\ RequestsOK'
    BY <1>1 DEF Notify, Inv, TypeOK, CoreOK, RequestsOK
  <2>3. PublicationOK'
    BY <1>1 DEF Notify, Inv, TypeOK, PublicationOK
  <2>4. watchers[at] \in Watchers
    BY <1>1, ElementOfSeq DEF Notify, Inv, TypeOK, StreamsOK, PublicationOK
  <2>5. chan' \in [Watchers -> Seq(Events)]
    <3> DEFINE w == watchers[at]
    <3>1. chan[w] \in Seq(Events) /\ Append(chan[w], event) \in Seq(Events)
      BY <2>1, <2>4, AppendProperties DEF Inv, TypeOK, StreamsOK
    <3>2. chan' = [chan EXCEPT ![w] = Append(chan[w], event)] \/ chan' = chan
      BY <1>1 DEF Notify
    <3> HIDE DEF w
    <3> QED
      BY <3>1, <3>2 DEF Inv, TypeOK, StreamsOK
  <2>6. StreamsOK'
    BY <1>1, <2>5 DEF Notify, Inv, TypeOK, StreamsOK
  <2>7. HistoryOK' /\ BoundsOK'
    BY <1>1 DEF Notify, Inv, TypeOK, HistoryOK, BoundsOK
  <2>8. WriterExclusion' /\ RequestShape' /\ EventShape' /\ DownIsIdle'
    BY <1>1
    DEF Notify, Inv, WriterExclusion, RequestShape, EventShape, DownIsIdle
  <2> QED
    BY <2>2, <2>3, <2>6, <2>7, <2>8 DEF Inv, TypeOK
<1>2. CASE NotifyDone(c)
  <2> USE <1>2 DEF NotifyDone, publication, streams
  <2>1. CoreOK' /\ PublicationOK' /\ StreamsOK'
    BY DEF Inv, TypeOK, CoreOK, PublicationOK, StreamsOK
  <2>2. RequestsOK'
    BY DEF Inv, TypeOK, RequestsOK, Stages
  <2>3. HistoryOK' /\ BoundsOK'
    BY DEF Inv, TypeOK, HistoryOK, BoundsOK
  <2>4. WriterExclusion' /\ RequestShape'
    BY DEF Inv, TypeOK, RequestsOK, WriterExclusion, RequestShape, Locked
  <2>5. EventShape' /\ DownIsIdle'
    BY DEF Inv, TypeOK, RequestsOK, EventShape, DownIsIdle
  <2> QED
    BY <2>1, <2>2, <2>3, <2>4, <2>5 DEF Inv, TypeOK
<1> QED
  BY <1>1, <1>2 DEF Publish

\* The steps of the lock holder that save the map.
LEMMA SyncInv == ASSUME Inv, NEW c \in Clients, Sync(c) PROVE Inv'
<1>1. stage[c] \in Locked /\ req[c].key \in Keys
  BY DEF Sync, SyncOpen, SyncOpenFails, SyncWrite, SyncWriteFails, Locked,
         Inv, RequestShape, Requests
<1>2. data \in Maps /\ file \in Maps \cup {Torn}
  BY DEF Inv, TypeOK, CoreOK
<1>3. data[req[c].key] \in Objects \cup {NoObj, Unknown}
  BY <1>1, <1>2 DEF Maps
<1>4. CASE SyncOpen(c)
  <2> USE <1>4 DEF SyncOpen, publication, streams, history, bounds
  <2>1. CoreOK' /\ PublicationOK' /\ StreamsOK'
    BY DEF Inv, TypeOK, CoreOK, PublicationOK, StreamsOK
  <2>2. RequestsOK'
    BY DEF Inv, TypeOK, RequestsOK, Stages
  <2>3. HistoryOK' /\ BoundsOK'
    BY DEF Inv, TypeOK, HistoryOK, BoundsOK
  <2>4. WriterExclusion' /\ RequestShape'
    BY DEF Inv, TypeOK, RequestsOK, WriterExclusion, RequestShape, Locked
  <2>5. EventShape' /\ DownIsIdle'
    BY DEF Inv, TypeOK, RequestsOK, EventShape, DownIsIdle
  <2> QED
    BY <2>1, <2>2, <2>3, <2>4, <2>5 DEF Inv, TypeOK
<1>5. CASE SyncOpenFails(c) \/ SyncWriteFails(c)
  BY <1>1, <1>2, <1>5, ReplyType, ReleaseInv
  DEF SyncOpenFails, SyncWriteFails, Statuses
<1>6. CASE SyncWrite(c)
  <2>1. Reply(IF req[c].op = "create" THEN "created" ELSE "ok") \in Answers
    BY ReplyType DEF Statuses
  <2> QED
    BY <1>1, <1>2, <1>3, <1>6, <2>1, ReleaseInv DEF SyncWrite
<1> QED
  BY <1>4, <1>5, <1>6 DEF Sync

\* A request arrives and an answer leaves.
LEMMA ReceiveInv ==
  ASSUME Inv, NEW c \in Clients, NEW r \in Requests, Receive(c, r) PROVE Inv'
<1> USE DEF Receive, core, publication, streams, history
<1>1. CoreOK' /\ PublicationOK' /\ StreamsOK' /\ HistoryOK'
  BY DEF Inv, TypeOK, CoreOK, PublicationOK, StreamsOK, HistoryOK
<1>2. RequestsOK'
  BY DEF Inv, TypeOK, RequestsOK, Stages
<1>3. BoundsOK'
  BY StoreAssumption DEF Inv, TypeOK, BoundsOK
<1>4. WriterExclusion' /\ RequestShape'
  BY DEF Inv, TypeOK, RequestsOK, WriterExclusion, RequestShape, Locked
<1>5. EventShape' /\ DownIsIdle'
  BY DEF Inv, TypeOK, RequestsOK, EventShape, DownIsIdle
<1> QED
  BY <1>1, <1>2, <1>3, <1>4, <1>5 DEF Inv, TypeOK

LEMMA RespondInv == ASSUME Inv, NEW c \in Clients, Respond(c) PROVE Inv'
<1> USE DEF Respond, core, publication, streams, history, bounds
<1>1. CoreOK' /\ PublicationOK' /\ StreamsOK'
  BY DEF Inv, TypeOK, CoreOK, PublicationOK, StreamsOK
<1>2. HistoryOK' /\ BoundsOK'
  BY DEF Inv, TypeOK, HistoryOK, BoundsOK
<1>3. RequestsOK'
  BY ReplyType DEF Inv, TypeOK, RequestsOK, Stages, NoReply
<1>4. WriterExclusion' /\ RequestShape'
  BY DEF Inv, TypeOK, RequestsOK, WriterExclusion, RequestShape, Locked
<1>5. EventShape' /\ DownIsIdle'
  BY DEF Inv, TypeOK, RequestsOK, EventShape, DownIsIdle
<1> QED
  BY <1>1, <1>2, <1>3, <1>4, <1>5 DEF Inv, TypeOK

\* The steps of the handlers that do not wait for the lock.
LEMMA HandleInv == ASSUME Inv, NEW c \in Clients, Handle(c) PROVE Inv'
<1>1. ASSUME Reject(c) PROVE Inv'
  BY <1>1, ReplyType, ReturnInv DEF Reject, Statuses
<1> QED
  BY <1>1, PublishInv, SyncInv, RespondInv DEF Handle

-----------------------------------------------------------------------------
\* What is left of a list when the element at i is removed.
LEMMA RemoveOne ==
  ASSUME NEW S, NEW s \in Seq(S), NEW i \in 1..Len(s)
  PROVE  LET t == SubSeq(s, 1, i - 1) \o SubSeq(s, i + 1, Len(s))
         IN  /\ t \in Seq(S)
             /\ Len(t) = Len(s) - 1
             /\ \A j \in 1..Len(t) : t[j] = IF j < i THEN s[j] ELSE s[j + 1]
<1> DEFINE p == SubSeq(s, 1, i - 1)
           q == SubSeq(s, i + 1, Len(s))
<1>1. Len(s) \in Nat /\ i \in Nat /\ \A j \in 1..Len(s) : s[j] \in S
  BY LenProperties, ElementOfSeq
<1>2. /\ p \in Seq(S)
      /\ Len(p) = i - 1
      /\ \A j \in 1..(i - 1) : p[j] = s[j]
  <2>1. \A j \in 1..(i - 1) : s[j] \in S
    BY <1>1
  <2>2. 1 \in Int /\ i - 1 \in Int
    BY <1>1
  <2> QED
    BY <1>1, <2>1, <2>2, SubSeqProperties
<1>3. /\ q \in Seq(S)
      /\ Len(q) = Len(s) - i
      /\ \A j \in 1..(Len(s) - i) : q[j] = s[i + j]
  <2>1. \A j \in (i + 1)..Len(s) : s[j] \in S
    BY <1>1
  <2>2. i + 1 \in Int /\ Len(s) \in Int
    BY <1>1
  <2>3. /\ q \in Seq(S)
        /\ Len(q) = IF i + 1 <= Len(s) THEN Len(s) - (i + 1) + 1 ELSE 0
        /\ \A j \in 1..(Len(s) - (i + 1) + 1) : q[j] = s[(i + 1) + j - 1]
    BY <2>1, <2>2, SubSeqProperties
  <2> QED
    BY <1>1, <2>3
<1> HIDE DEF p, q
<1>4. /\ p \o q \in Seq(S)
      /\ Len(p \o q) = Len(p) + Len(q)
      /\ \A j \in 1..(Len(p) + Len(q)) :
           (p \o q)[j] = IF j <= Len(p) THEN p[j] ELSE q[j - Len(p)]
  BY <1>2, <1>3, ConcatProperties
<1>5. Len(p \o q) = Len(s) - 1
  BY <1>1, <1>2, <1>3, <1>4
<1>6. ASSUME NEW j \in 1..(Len(s) - 1)
      PROVE  (p \o q)[j] = IF j < i THEN s[j] ELSE s[j + 1]
  <2>1. CASE j < i
    <3>1. j \in 1..(i - 1) /\ j \in 1..(Len(p) + Len(q)) /\ j <= Len(p)
      BY <1>1, <1>2, <1>3, <2>1
    <3> QED
      BY <1>2, <1>4, <2>1, <3>1
  <2>2. CASE j >= i
    <3>1. /\ j \in 1..(Len(p) + Len(q)) /\ ~(j <= Len(p)) /\ ~(j < i)
          /\ j - Len(p) \in 1..(Len(s) - i) /\ i + (j - Len(p)) = j + 1
      BY <1>1, <1>2, <1>3, <2>2
    <3>2. (p \o q)[j] = q[j - Len(p)] /\ q[j - Len(p)] = s[i + (j - Len(p))]
      BY <1>3, <1>4, <3>1
    <3> QED
      BY <3>1, <3>2
  <2>3. j < i \/ j >= i
    BY <1>1
  <2> QED
    BY <2>1, <2>2, <2>3
<1> QED
  BY <1>4, <1>5, <1>6 DEF p, q

\* A connection registers, streams, breaks or leaves the list.
LEMMA ConnectionInv ==
  ASSUME Inv, NEW w \in Watchers,
         (\E kind \in Kinds : Watch(w, kind)) \/ Stream(w) \/ Disconnect(w) \/ Stop(w)
  PROVE  Inv'
<1> DEFINE Registered == \E kind \in Kinds : Watch(w, kind)
<1>1. UNCHANGED <<core, requests, publication, history, bounds>>
  BY DEF Watch, Stream, Take, Encode, Disconnect, Stop, Unregister
<1>2. CoreOK' /\ RequestsOK' /\ PublicationOK' /\ HistoryOK' /\ BoundsOK'
  BY <1>1 DEF core, requests, publication, history, bounds, Inv, TypeOK, CoreOK,
              RequestsOK, PublicationOK, HistoryOK, BoundsOK
<1>3. WriterExclusion' /\ RequestShape' /\ EventShape'
  BY <1>1 DEF core, requests, publication, Inv, WriterExclusion, RequestShape, EventShape
<1>4. up
  BY DEF Inv, TypeOK, CoreOK, DownIsIdle, Watch, Stream, Take, Encode, Disconnect,
         Stop, Unregister
<1>5. DownIsIdle'
  BY <1>1, <1>4 DEF DownIsIdle, core
<1>6. StreamsOK'
  <2> USE DEF Inv, TypeOK, StreamsOK
  <2>1. CASE Registered
    <3>1. \A kind \in Kinds : Len(log[kind]) \in Nat
      BY LenProperties DEF HistoryOK
    <3>2. Append(watchers, w) \in Seq(Watchers)
      BY AppendProperties
    <3> QED
      BY <2>1, <3>1, <3>2 DEF Watch
  <2>2. CASE Take(w)
    <3>1. /\ chan[w] \in Seq(Events) /\ Tail(chan[w]) \in Seq(Events)
          /\ <<Head(chan[w])>> \in Seq(Events)
      BY <2>2, HeadTailProperties DEF Take
    <3> QED
      BY <2>2, <3>1 DEF Take
  <2>3. CASE Encode(w)
    <3>1. got[w] \o hand[w] \in Seq(Events)
      BY ConcatProperties
    <3> QED
      BY <2>3, <3>1 DEF Encode
  <2>4. CASE Disconnect(w)
    BY <2>4 DEF Disconnect
  <2>5. CASE Stop(w)
    <3>1. PICK i \in 1..Len(watchers) :
            watchers' = SubSeq(watchers, 1, i - 1)
                          \o SubSeq(watchers, i + 1, Len(watchers))
      BY <2>5 DEF Stop, Unregister
    <3>3. watchers' \in Seq(Watchers)
      BY <3>1, RemoveOne
    <3>4. /\ wstage' = [wstage EXCEPT ![w] = "off"]
          /\ chan' = [chan EXCEPT ![w] = <<>>]
          /\ got' = [got EXCEPT ![w] = <<>>]
          /\ since' = [since EXCEPT ![w] = 0]
          /\ wkind' = wkind /\ hand' = hand
      BY <2>5 DEF Stop, Unregister
    <3> QED
      BY <3>3, <3>4
  <2> QED
    BY <2>1, <2>2, <2>3, <2>4, <2>5 DEF Stream
<1> QED
  BY <1>2, <1>3, <1>5, <1>6 DEF Inv, TypeOK

\* A crash and a start.
LEMMA ProcessInv == ASSUME Inv, Crash \/ Restart \/ LoadFails PROVE Inv'
<1>1. CASE Crash
  <2> USE <1>1 DEF Crash
  <2>1. CoreOK'
    BY DEF Inv, TypeOK, CoreOK, Empty, Maps
  <2>2. RequestsOK'
    BY ReplyType DEF RequestsOK, Stages, NoReply
  <2>3. PublicationOK'
    BY DEF PublicationOK
  <2>4. HistoryOK'
    <3>1. acked' = acked /\ wiped' = wiped
      OBVIOUS
    <3>2. log' \in [Kinds -> Seq(Events)]
      OBVIOUS
    <3> QED
      BY <3>1, <3>2 DEF Inv, TypeOK, HistoryOK
  <2>5. StreamsOK'
    BY DEF Inv, TypeOK, StreamsOK
  <2>6. BoundsOK'
    BY StoreAssumption DEF Inv, TypeOK, BoundsOK
  <2>7. WriterExclusion' /\ RequestShape' /\ EventShape' /\ DownIsIdle'
    BY StoreAssumption
    DEF WriterExclusion, RequestShape, EventShape, DownIsIdle, Locked
  <2> QED
    BY <2>1, <2>2, <2>3, <2>4, <2>5, <2>6, <2>7 DEF Inv, TypeOK
<1>2. CASE Restart \/ LoadFails
  <2> USE <1>2 DEF Restart, LoadFails, Start, requests, publication, streams, bounds
  <2>1. CoreOK'
    BY DEF Inv, TypeOK, CoreOK, Loaded, Empty, Maps
  <2>2. RequestsOK' /\ PublicationOK' /\ StreamsOK'
    BY DEF Inv, TypeOK, RequestsOK, PublicationOK, StreamsOK
  <2>3. HistoryOK'
    BY DEF Inv, TypeOK, HistoryOK
  <2>4. BoundsOK'
    BY DEF Inv, TypeOK, BoundsOK
  <2>5. WriterExclusion' /\ RequestShape' /\ EventShape' /\ DownIsIdle'
    BY DEF Inv, WriterExclusion, RequestShape, EventShape, DownIsIdle
  <2> QED
    BY <2>1, <2>2, <2>3, <2>4, <2>5 DEF Inv, TypeOK
<1> QED
  BY <1>1, <1>2

LEMMA StepInv == Inv /\ [Next]_vars => Inv'
<1> SUFFICES ASSUME Inv, [Next]_vars PROVE Inv'
  OBVIOUS
<1>1. CASE Next
  BY <1>1, ReceiveInv, EnterInv, HandleInv, ConnectionInv, ProcessInv DEF Next
<1>2. CASE UNCHANGED vars
  <2> USE <1>2 DEF vars, core, requests, publication, streams, history, bounds
  <2>1. CoreOK' /\ RequestsOK' /\ PublicationOK'
    BY DEF Inv, TypeOK, CoreOK, RequestsOK, PublicationOK
  <2>2. StreamsOK' /\ HistoryOK' /\ BoundsOK'
    BY DEF Inv, TypeOK, StreamsOK, HistoryOK, BoundsOK
  <2>3. WriterExclusion' /\ RequestShape' /\ EventShape' /\ DownIsIdle'
    BY DEF Inv, WriterExclusion, RequestShape, EventShape, DownIsIdle
  <2> QED
    BY <2>1, <2>2, <2>3 DEF Inv, TypeOK
<1> QED
  BY <1>1, <1>2

-----------------------------------------------------------------------------
\* The inductive invariant holds in every reachable state.
THEOREM InvHolds == Spec => []Inv
BY InitInv, StepInv, PTL DEF Spec

\* Every variable of the server keeps its type.
THEOREM TypeCorrect == Spec => []TypeOK
BY InvHolds, PTL DEF Inv

\* The lock admits one writer at a time, from its existence check to the
\* return of sync.
THEOREM OneWriter == Spec => []WriterExclusion
BY InvHolds, PTL DEF Inv

-----------------------------------------------------------------------------
(***************************************************************************)
(* Acknowledged values.                                                    *)
(***************************************************************************)
\* A step keeps what was acknowledged: either it forgets the acknowledgement
\* of the key it changes, or it gives one for what is in the map and the file.
LEMMA StepAcked == Inv /\ Inv' /\ AckedKept /\ [Next]_vars => AckedKept'
<1> SUFFICES ASSUME Inv, Inv', AckedKept, [Next]_vars PROVE AckedKept'
  OBVIOUS
<1>1. data \in Maps /\ file \in Maps \cup {Torn} /\ Torn \notin Maps
  BY StoreAssumption DEF Inv, TypeOK, CoreOK
<1>2. acked \in [Keys -> Objects \cup {NoObj, Unknown}]
  BY DEF Inv, TypeOK, HistoryOK
<1>3. ASSUME UNCHANGED <<core, acked, wiped>> PROVE AckedKept'
  BY <1>3 DEF AckedKept, core
<1>4. ASSUME NEW c \in Clients, Create(c) \/ Update(c) \/ Delete(c)
      PROVE  AckedKept'
  <2>1. PICK obj : data' = [data EXCEPT ![req[c].key] = obj]
    BY <1>4 DEF Create, Update, Delete, Commit
  <2>2. acked' = [acked EXCEPT ![req[c].key] = Unknown]
    BY <1>4 DEF Create, Update, Delete, Commit
  <2>3. UNCHANGED <<up, file, wiped>>
    BY <1>4 DEF Create, Update, Delete, Commit
  <2> QED
    BY <1>1, <1>2, <2>1, <2>2, <2>3 DEF AckedKept, Maps
<1>5. ASSUME NEW c \in Clients, SyncOpen(c) PROVE AckedKept'
  BY <1>5 DEF AckedKept, SyncOpen, history
<1>6. ASSUME NEW c \in Clients, SyncOpenFails(c) \/ SyncWriteFails(c)
      PROVE  AckedKept'
  <2>1. acked' = [acked EXCEPT ![req[c].key] = Unknown]
    BY <1>6 DEF SyncOpenFails, SyncWriteFails, Release
  <2>2. UNCHANGED <<up, data, file, wiped>>
    BY <1>6 DEF SyncOpenFails, SyncWriteFails, Release
  <2> QED
    BY <1>2, <2>1, <2>2 DEF AckedKept
<1>7. ASSUME NEW c \in Clients, SyncWrite(c) PROVE AckedKept'
  <2>1. acked' = [acked EXCEPT ![req[c].key] = data[req[c].key]]
    BY <1>7 DEF SyncWrite, Release
  <2>2. file' = data /\ UNCHANGED <<up, data, wiped>>
    BY <1>7 DEF SyncWrite, Release
  <2>3. up = TRUE
    BY <1>7 DEF SyncWrite, Inv, TypeOK, CoreOK, DownIsIdle
  <2> QED
    BY <1>2, <2>1, <2>2, <2>3 DEF AckedKept
<1>8. ASSUME Crash PROVE AckedKept'
  BY <1>8 DEF AckedKept, Crash
<1>9. ASSUME Restart \/ LoadFails PROVE AckedKept'
  BY <1>9 DEF AckedKept, Restart, LoadFails, Start, Loaded
<1>10. CASE Next
  <2>1. ASSUME NEW c \in Clients, NEW r \in Requests, Receive(c, r)
        PROVE  AckedKept'
    BY <1>3, <2>1 DEF Receive, history
  <2>2. ASSUME NEW c \in Clients, Enter(c) PROVE AckedKept'
    BY <1>3, <1>4, <2>2 DEF Enter, Get, List, Refuse, Return, history
  <2>3. ASSUME NEW c \in Clients, Handle(c) PROVE AckedKept'
    BY <1>3, <1>5, <1>6, <1>7, <2>3
    DEF Handle, Reject, Return, Publish, Notify, NotifyDone, Sync, Respond, history
  <2>4. ASSUME NEW w \in Watchers,
               \/ \E kind \in Kinds : Watch(w, kind)
               \/ Stream(w) \/ Disconnect(w) \/ Stop(w)
        PROVE  AckedKept'
    BY <1>3, <2>4
    DEF Watch, Stream, Take, Encode, Disconnect, Stop, Unregister, history
  <2> QED
    BY <1>8, <1>9, <1>10, <2>1, <2>2, <2>3, <2>4 DEF Next
<1>11. CASE UNCHANGED vars
  BY <1>3, <1>11 DEF vars, history
<1> QED
  BY <1>10, <1>11

\* As long as every start of the server had the use of its file, every acknowledged value
\* is served and is in every readable file, for any number of crashes.
THEOREM AcknowledgedKept == Spec => []AckedKept
<1>1. Init => AckedKept
  BY DEF Init, AckedKept
<1> QED
  BY <1>1, StepAcked, InvHolds, PTL DEF Spec

-----------------------------------------------------------------------------
(***************************************************************************)
(* The server implements the registry.                                     *)
(***************************************************************************)
\* The registry and the server speak of the same requests and answers.
LEMMA SameData ==
  /\ R!Reads = Reads /\ R!Mutations = Mutations /\ R!Requests = Requests
  /\ R!Empty = Empty /\ R!NoReply = NoReply /\ R!NoRequest = NoRequest
  /\ \A status : R!Reply(status) = Reply(status)
  /\ \A kind : R!KeysOf(kind) = KeysOf(kind)
BY DEF R!Reads, Reads, R!Mutations, Mutations, R!Requests, Requests, R!Empty, Empty,
       R!NoReply, NoReply, R!NoRequest, NoRequest, R!Reply, Reply, R!KeysOf, KeysOf

LEMMA InitRefines == Init => R!Init
<1>1. Torn # Empty
  BY StoreAssumption DEF Empty, Maps
<1> QED
  BY <1>1, SameData DEF Init, R!Init, savedBar, phaseBar, Loaded, Locked

\* A step that changes neither what is served and saved nor a request.
LEMMA StutterRefines ==
  ASSUME UNCHANGED <<core, requests>> PROVE UNCHANGED R!vars
BY DEF core, requests, R!vars, savedBar, phaseBar

\* While nobody holds the lock no mutation is under way.
LEMMA QuietWhenFree == ASSUME Inv, holder = None PROVE R!Quiet
<1>1. stage \in [Clients -> Stages]
  BY DEF Inv, TypeOK, RequestsOK
<1>2. \A c \in Clients : stage[c] \notin Locked
  BY StoreAssumption DEF Inv, WriterExclusion
<1> QED
  BY <1>1, <1>2 DEF R!Quiet, phaseBar, Stages

\* A store call without an effect is an answer.
LEMMA ReturnRefines ==
  ASSUME Inv, NEW c \in Clients, stage[c] = "called", NEW reply, Return(c, reply)
  PROVE  /\ phaseBar[c] = "called"
         /\ phaseBar' = [phaseBar EXCEPT ![c] = "returned"]
         /\ resp' = [resp EXCEPT ![c] = reply]
         /\ UNCHANGED <<up, data, savedBar, req>>
<1>1. stage \in [Clients -> Stages]
  BY DEF Inv, TypeOK, RequestsOK
<1> QED
  BY <1>1 DEF Return, core, phaseBar, savedBar, Locked

\* A mutation that has passed its check takes effect in the step that takes
\* the lock.
LEMMA CommitRefines ==
  ASSUME Inv, NEW c \in Clients, stage[c] = "called",
         req[c].op \in Mutations, req[c].obj # Malformed,
         R!Admitted(data, req[c]), NEW shown, Commit(c, req[c].obj, shown)
  PROVE  R!Apply(c)
<1>1. stage \in [Clients -> Stages] /\ up = TRUE
  BY DEF Inv, TypeOK, CoreOK, RequestsOK, DownIsIdle
<1>2. R!Quiet
  BY QuietWhenFree DEF Commit
<1>3. data' = R!After(data, req[c]) /\ UNCHANGED up
  BY DEF Commit, R!After
<1>4. phaseBar[c] = "called" /\ phaseBar' = [phaseBar EXCEPT ![c] = "applied"]
  BY <1>1 DEF Commit, phaseBar, Locked
<1>5. UNCHANGED <<savedBar, req, resp>>
  BY DEF Commit, savedBar
<1> QED
  BY <1>2, <1>3, <1>4, <1>5, SameData DEF R!Apply

\* The return of the lock holder ends the mutation.
LEMMA ReleaseRefines ==
  ASSUME Inv, NEW c \in Clients, stage[c] \in Locked,
         NEW reply, NEW ack, Release(c, reply, ack)
  PROVE  /\ up = TRUE
         /\ phaseBar[c] = "applied"
         /\ phaseBar' = [phaseBar EXCEPT ![c] = "returned"]
         /\ resp' = [resp EXCEPT ![c] = reply]
         /\ UNCHANGED <<up, data, req>>
<1>1. stage \in [Clients -> Stages] /\ up = TRUE
  BY DEF Inv, TypeOK, CoreOK, RequestsOK, DownIsIdle, Locked
<1> QED
  BY <1>1 DEF Release, phaseBar, Locked

LEMMA EnterRefines == ASSUME Inv, NEW c \in Clients, Enter(c) PROVE R!Next
<1>1. stage[c] = "called" /\ holder = None
  BY DEF Enter, Get, List, Refuse, Create, Update, Delete, Commit
<1>2. R!Quiet
  BY <1>1, QuietWhenFree
<1>3. req[c] \in Requests
  BY <1>1 DEF Inv, RequestShape
<1>4. CASE Get(c)
  <2>1. Return(c, R!ReadReply(data, req[c])) /\ req[c].op \in Reads
    BY <1>4, SameData DEF Get, R!ReadReply, R!Exists, R!Footprint, Reads
  <2> QED
    BY <1>1, <1>2, <2>1, ReturnRefines, SameData DEF R!Next, R!Answer
<1>5. CASE List(c)
  <2>1. Return(c, R!ReadReply(data, req[c])) /\ req[c].op \in Reads
    BY <1>5, SameData DEF List, R!ReadReply, R!Footprint, Reads
  <2> QED
    BY <1>1, <1>2, <2>1, ReturnRefines, SameData DEF R!Next, R!Answer
<1>6. CASE Refuse(c)
  <2>1. Return(c, R!Refusal(data, req[c]))
    BY <1>6, SameData DEF Refuse, R!Refusal
  <2>2. /\ req[c].op \in Mutations /\ req[c].obj # Malformed
        /\ ~R!Admitted(data, req[c])
    BY <1>6 DEF Refuse, Mutations, R!Admitted, R!Exists
  <2> QED
    BY <1>1, <1>2, <2>1, <2>2, ReturnRefines, SameData DEF R!Next, R!Answer
<1>7. CASE Create(c) \/ Update(c)
  <2>1. req[c].op \in Mutations /\ R!Admitted(data, req[c])
    BY <1>7 DEF Create, Update, Mutations, R!Admitted, R!Exists
  <2>2. R!Apply(c)
    BY <1>1, <1>7, <2>1, CommitRefines DEF Create, Update
  <2> QED
    BY <2>2 DEF R!Next
<1>8. CASE Delete(c)
  <2>1. req[c].op \in Mutations /\ R!Admitted(data, req[c])
    BY <1>8 DEF Delete, Mutations, R!Admitted, R!Exists
  <2>2. req[c].obj = NoObj /\ req[c].obj # Malformed
    BY <1>3, <1>8, RegistryAssumption DEF Delete, Requests
  <2>3. R!Apply(c)
    BY <1>1, <1>8, <2>1, <2>2, CommitRefines DEF Delete
  <2> QED
    BY <2>3 DEF R!Next
<1> QED
  BY <1>4, <1>5, <1>6, <1>7, <1>8 DEF Enter

LEMMA HandleRefines ==
  ASSUME Inv, NEW c \in Clients, Handle(c) PROVE R!Next \/ UNCHANGED R!vars
<1>1. stage \in [Clients -> Stages]
  BY DEF Inv, TypeOK, RequestsOK
<1>2. CASE Reject(c)
  <2>1. R!Answer(c)
    BY <1>2, ReturnRefines, SameData DEF Reject, R!Answer
  <2> QED
    BY <2>1 DEF R!Next
<1>3. CASE Publish(c)
  <2>1. UNCHANGED core /\ UNCHANGED <<req, resp>> /\ UNCHANGED phaseBar
    BY <1>1, <1>3 DEF Publish, Notify, NotifyDone, requests, phaseBar, Locked
  <2> QED
    BY <2>1 DEF core, R!vars, savedBar
<1>4. CASE SyncOpen(c)
  <2>1. phaseBar[c] = "applied" /\ UNCHANGED phaseBar
    BY <1>1, <1>4 DEF SyncOpen, phaseBar, Locked
  <2>2. savedBar' = Empty /\ UNCHANGED <<up, data, req, resp>>
    BY <1>4 DEF SyncOpen, savedBar, Loaded
  <2> QED
    BY <2>1, <2>2, SameData DEF R!Next, R!Truncate
<1>5. CASE SyncOpenFails(c) \/ SyncWriteFails(c)
  <2>1. stage[c] \in Locked /\ Release(c, Reply("internal"), Unknown) /\ file' = file
    BY <1>5 DEF SyncOpenFails, SyncWriteFails, Locked
  <2>2. UNCHANGED <<up, data, savedBar>>
    BY <2>1 DEF Release, savedBar
  <2>3. R!Fail(c)
    BY <2>1, <2>2, ReleaseRefines, SameData DEF R!Fail
  <2> QED
    BY <2>3 DEF R!Next
<1>6. CASE SyncWrite(c)
  <2>1. stage[c] \in Locked /\ file' = data /\ Release(c, R!Success(req[c]), data[req[c].key])
    BY <1>6, SameData DEF SyncWrite, Locked, R!Success
  <2>2. data # Torn
    BY StoreAssumption DEF Inv, TypeOK, CoreOK
  <2>3. savedBar' = data /\ UNCHANGED <<up, data>>
    BY <2>1, <2>2, ReleaseRefines DEF savedBar, Loaded
  <2>4. R!Commit(c)
    BY <2>1, <2>3, ReleaseRefines DEF R!Commit
  <2> QED
    BY <2>4 DEF R!Next
<1>7. CASE Respond(c)
  <2>1. /\ phaseBar[c] = "returned"
        /\ phaseBar' = [phaseBar EXCEPT ![c] = "idle"]
    BY <1>1, <1>7 DEF Respond, phaseBar, Locked
  <2>2. R!Respond(c)
    BY <1>7, <2>1, SameData DEF Respond, R!Respond, core, savedBar
  <2> QED
    BY <2>2 DEF R!Next
<1> QED
  BY <1>2, <1>3, <1>4, <1>5, <1>6, <1>7 DEF Handle, Sync

\* Every step of the server is a step of the registry or changes nothing of it.
LEMMA StepRefines == Inv /\ [Next]_vars => [R!Next]_R!vars
<1> SUFFICES ASSUME Inv, [Next]_vars PROVE R!Next \/ UNCHANGED R!vars
  OBVIOUS
<1>1. stage \in [Clients -> Stages]
  BY DEF Inv, TypeOK, RequestsOK
<1>2. ASSUME NEW c \in Clients, NEW r \in Requests, Receive(c, r) PROVE R!Next
  <2>1. phaseBar[c] = "idle" /\ phaseBar' = [phaseBar EXCEPT ![c] = "called"]
    BY <1>1, <1>2 DEF Receive, phaseBar, Locked
  <2>2. R!Call(c, r)
    BY <1>2, <2>1 DEF Receive, R!Call, core, savedBar
  <2> QED
    BY <2>2, SameData DEF R!Next
<1>3. ASSUME NEW w \in Watchers,
             \/ \E kind \in Kinds : Watch(w, kind)
             \/ Stream(w) \/ Disconnect(w) \/ Stop(w)
      PROVE  UNCHANGED R!vars
  BY <1>3, StutterRefines
  DEF Watch, Stream, Take, Encode, Disconnect, Stop, Unregister
<1>4. CASE Crash
  <2>1. phaseBar' = [c \in Clients |-> "idle"]
    BY <1>4 DEF Crash, phaseBar, Locked
  <2>2. R!Crash
    BY <1>4, <2>1, SameData DEF Crash, R!Crash, savedBar
  <2> QED
    BY <2>2 DEF R!Next
<1>5. CASE Restart \/ LoadFails
  <2>1. /\ ~up /\ up' = TRUE /\ data' \in {savedBar, R!Empty}
        /\ UNCHANGED <<savedBar, phaseBar, req, resp>>
    BY <1>5, SameData DEF Restart, LoadFails, Start, requests, savedBar, phaseBar
  <2>2. R!Start
    BY <2>1 DEF R!Start
  <2> QED
    BY <2>2 DEF R!Next
<1>6. CASE UNCHANGED vars
  BY <1>6, StutterRefines DEF vars
<1> QED
  BY <1>2, <1>3, <1>4, <1>5, <1>6, EnterRefines, HandleRefines DEF Next

\* The server with its store implements the contract of the registry.
THEOREM RefinesRegistry == Spec => ImplementsRegistry
BY InitRefines, StepRefines, InvHolds, PTL DEF Spec, ImplementsRegistry, R!Spec
=============================================================================
