---------------------------- MODULE StreamProofs ----------------------------
(***************************************************************************)
(* What a watch client of MemoryStore receives, for every set of clients,  *)
(* watchers, keys and resources, every channel capacity and every number   *)
(* of requests and crashes.                                                *)
(***************************************************************************)
EXTENDS MemoryStoreProofs

-----------------------------------------------------------------------------
(***************************************************************************)
(* The inductive invariant.                                                *)
(***************************************************************************)
Registered(w) == \E i \in 1..Len(watchers) : watchers[i] = w

\* The list holds the connections that are not off, each once; a connection
\* that is off has no events, and only one that encodes has one in hand.
StreamShape ==
  /\ \A i, j \in 1..Len(watchers) : watchers[i] = watchers[j] => i = j
  /\ \A w \in Watchers :
       /\ wstage[w] # "off" <=> Registered(w)
       /\ since[w] <= Len(log[wkind[w]])
       /\ wstage[w] = "off" => got[w] = <<>> /\ chan[w] = <<>>
       /\ IF wstage[w] = "encoding" THEN Len(hand[w]) = 1 ELSE hand[w] = <<>>

StreamInv == Inv /\ StreamShape /\ StreamExact

-----------------------------------------------------------------------------
(***************************************************************************)
(* Sequences.                                                              *)
(***************************************************************************)
LEMMA HeadOfRest ==
  ASSUME NEW S, NEW s \in Seq(S), s # <<>>
  PROVE  <<Head(s)>> \o Tail(s) = s
<1>1. /\ Head(s) \in S /\ Tail(s) \in Seq(S) /\ Len(s) \in Nat /\ Len(s) # 0
      /\ Len(Tail(s)) = Len(s) - 1
      /\ \A i \in 1..Len(Tail(s)) : Tail(s)[i] = s[i + 1]
      /\ Head(s) = s[1]
  BY HeadTailProperties, LenProperties, EmptySeq
<1>2. <<Head(s)>> \in Seq(S) /\ Len(<<Head(s)>>) = 1 /\ <<Head(s)>>[1] = Head(s)
  BY <1>1
<1>3. /\ <<Head(s)>> \o Tail(s) \in Seq(S)
      /\ Len(<<Head(s)>> \o Tail(s)) = Len(s)
      /\ \A i \in 1..Len(s) : (<<Head(s)>> \o Tail(s))[i] =
                                IF i <= 1 THEN <<Head(s)>>[i] ELSE Tail(s)[i - 1]
  BY <1>1, <1>2, ConcatProperties
<1>4. ASSUME NEW i \in 1..Len(s) PROVE (<<Head(s)>> \o Tail(s))[i] = s[i]
  <2>1. CASE i = 1
    BY <1>1, <1>2, <1>3, <2>1
  <2>2. CASE i # 1
    <3>1. i - 1 \in 1..Len(Tail(s)) /\ (i - 1) + 1 = i /\ ~(i <= 1)
      BY <1>1, <2>2
    <3> QED
      BY <1>1, <1>3, <3>1
  <2> QED
    BY <2>1, <2>2
<1> QED
  BY <1>3, <1>4, SeqEqual

\* An element moves from behind a list to its end.
LEMMA MoveToEnd ==
  ASSUME NEW S, NEW s \in Seq(S), NEW t \in Seq(S), NEW e \in S
  PROVE  s \o Append(t, e) \o <<>> = s \o t \o <<e>>
<1>1. <<e>> \in Seq(S) /\ Append(t, e) = t \o <<e>>
  BY AppendIsConcat
<1>2. s \o Append(t, e) \in Seq(S)
  BY AppendProperties, ConcatProperties
<1>3. s \o Append(t, e) \o <<>> = s \o Append(t, e)
  BY <1>2, ConcatEmptySeq
<1>4. s \o (t \o <<e>>) = s \o t \o <<e>>
  <2>1. PICK u \in Seq(S) : u = <<e>>
    BY <1>1
  <2>2. s \o (t \o u) = s \o t \o u
    BY ConcatAssociative
  <2> QED
    BY <2>1, <2>2
<1> QED
  BY <1>1, <1>3, <1>4

\* What follows the first n elements.
Rest(s, n) == SubSeq(s, n + 1, Len(s))

LEMMA RestOfAppend ==
  ASSUME NEW S, NEW s \in Seq(S), NEW e \in S, NEW n \in 0..Len(s)
  PROVE  Rest(Append(s, e), n) = Rest(s, n) \o <<e>>
<1> DEFINE t == Append(s, e)
<1>1. /\ Len(s) \in Nat /\ t \in Seq(S) /\ Len(t) = Len(s) + 1
      /\ \A i \in 1..Len(s) : t[i] = s[i] /\ s[i] \in S
      /\ t[Len(s) + 1] = e
  BY LenProperties, ElementOfSeq, AppendProperties
<1> HIDE DEF t
<1>2. SubSeq(t, n + 1, Len(t)) = SubSeq(t, n + 1, Len(t) - 1) \o <<t[Len(t)]>>
  <2>1. n + 1 \in 1..Len(t) /\ Len(t) \in (n + 1)..Len(t)
    BY <1>1
  <2> QED
    BY <1>1, <2>1, SubSeqRecursiveSecond
<1>3. Len(t) - 1 = Len(s) /\ t[Len(t)] = e
  BY <1>1
<1>4. SubSeq(t, n + 1, Len(s)) = SubSeq(s, n + 1, Len(s))
  <2>1. CASE n = Len(s)
    <3>1. n + 1 \in Int /\ Len(s) \in Int /\ Len(s) < n + 1
      BY <1>1, <2>1
    <3> QED
      BY <3>1, SubSeqEmpty
  <2>2. CASE n # Len(s)
    <3>1. /\ n + 1 \in Int /\ Len(s) \in Int /\ n + 1 <= Len(s)
          /\ \A i \in (n + 1)..Len(s) : t[i] = s[i] /\ s[i] \in S
      BY <1>1, <2>2
    <3>2. /\ SubSeq(t, n + 1, Len(s)) \in Seq(S)
          /\ Len(SubSeq(t, n + 1, Len(s))) = Len(s) - (n + 1) + 1
          /\ \A i \in 1..(Len(s) - (n + 1) + 1) : SubSeq(t, n + 1, Len(s))[i] = t[(n + 1) + i - 1]
      BY <3>1, SubSeqProperties
    <3>3. /\ SubSeq(s, n + 1, Len(s)) \in Seq(S)
          /\ Len(SubSeq(s, n + 1, Len(s))) = Len(s) - (n + 1) + 1
          /\ \A i \in 1..(Len(s) - (n + 1) + 1) : SubSeq(s, n + 1, Len(s))[i] = s[(n + 1) + i - 1]
      BY <3>1, SubSeqProperties
    <3>4. \A i \in 1..(Len(s) - (n + 1) + 1) : (n + 1) + i - 1 \in (n + 1)..Len(s)
      BY <1>1
    <3> QED
      BY <3>1, <3>2, <3>3, <3>4, SeqEqual
  <2> QED
    BY <2>1, <2>2
<1>5. SubSeq(t, n + 1, Len(t)) = SubSeq(s, n + 1, Len(s)) \o <<e>>
  BY <1>2, <1>3, <1>4
<1> QED
  BY <1>5 DEF t, Rest

-----------------------------------------------------------------------------
(***************************************************************************)
(* Events on their way.                                                    *)
(***************************************************************************)
\* No event is on its way while nobody publishes.
LEMMA NothingPending ==
  ASSUME \A c \in Clients : stage[c] # "notify", NEW w PROVE Pending(w) = <<>>
BY DEF Pending

LEMMA NextNothingPending ==
  ASSUME \A c \in Clients : stage'[c] # "notify", NEW w PROVE Pending(w)' = <<>>
BY DEF Pending

LEMMA FreeMeansSilent ==
  ASSUME Inv, holder = None PROVE \A c \in Clients : stage[c] # "notify"
BY StoreAssumption DEF Inv, WriterExclusion, Locked

\* The events of w are sequences of events, and so is the log of its resource.
LEMMA StreamTypes ==
  ASSUME Inv, NEW w \in Watchers
  PROVE  /\ wkind[w] \in Kinds
         /\ got[w] \in Seq(Events) /\ hand[w] \in Seq(Events) /\ chan[w] \in Seq(Events)
         /\ Pending(w) \in Seq(Events)
         /\ log[wkind[w]] \in Seq(Events)
         /\ Len(log[wkind[w]]) \in Nat /\ since[w] \in Nat
<1>1. /\ wkind[w] \in Kinds /\ since[w] \in Nat
      /\ got[w] \in Seq(Events) /\ hand[w] \in Seq(Events) /\ chan[w] \in Seq(Events)
  BY DEF Inv, TypeOK, StreamsOK
<1>2. log[wkind[w]] \in Seq(Events)
  BY <1>1 DEF Inv, TypeOK, HistoryOK
<1>3. Len(log[wkind[w]]) \in Nat
  BY <1>2, LenProperties
<1>4. Pending(w) \in Seq(Events)
  <2>1. (\E c \in Clients : stage[c] = "notify") => event \in Events
    BY DEF Inv, EventShape
  <2> QED
    BY <2>1 DEF Pending
<1> QED
  BY <1>1, <1>2, <1>3, <1>4

\* A step that touches neither a stream, nor a log, nor an event on its way.
LEMMA StreamKept ==
  ASSUME StreamShape, StreamExact, UNCHANGED <<streams, log>>,
         \A w \in Watchers : Pending(w)' = Pending(w)
  PROVE  StreamShape' /\ StreamExact'
<1>1. StreamShape'
  BY DEF StreamShape, Registered, streams
<1>2. StreamExact'
  BY DEF StreamExact, Connected, Expected, streams
<1> QED
  BY <1>1, <1>2

-----------------------------------------------------------------------------
(***************************************************************************)
(* The steps of a request.                                                 *)
(***************************************************************************)
\* A mutation appends its event to the log and owes it to each watcher of its
\* resource.
LEMMA CommitStream ==
  ASSUME StreamInv, Inv', NEW c \in Clients, stage[c] = "called",
         req[c].op \in Mutations, NEW obj, NEW shown \in Objects, Commit(c, obj, shown)
  PROVE  StreamShape' /\ StreamExact'
<1> DEFINE e == [type |-> EventType(req[c].op), key |-> req[c].key, obj |-> shown]
<1>1. Inv /\ StreamShape /\ StreamExact
  BY DEF StreamInv
<1>2. req[c].key \in Keys
  BY <1>1 DEF Inv, RequestShape, Requests
<1>3. PICK k \in Kinds : k = KindOf[req[c].key]
  BY <1>2, RegistryAssumption
<1>4. PICK ev \in Events : ev = e
  BY <1>2 DEF Events, EventType, Mutations
<1>5. /\ event' = ev /\ at' = 1 /\ stage'[c] = "notify" /\ KindOf[ev.key] = k
      /\ UNCHANGED <<watchers, wstage, wkind, chan, hand, since, got>>
  BY <1>1, <1>3, <1>4 DEF Commit, streams, Inv, TypeOK, RequestsOK
<1>6. /\ log' = [log EXCEPT ![k] = Append(log[k], ev)]
      /\ log \in [Kinds -> Seq(Events)]
  BY <1>1, <1>3, <1>4 DEF Commit, Inv, TypeOK, HistoryOK
<1>7. Len(Append(log[k], ev)) = Len(log[k]) + 1 /\ Len(log[k]) \in Nat
  BY <1>6, LenProperties, AppendProperties
<1> HIDE DEF e
<1>8. StreamShape'
  <2>1. ASSUME NEW w \in Watchers PROVE since'[w] <= Len(log'[wkind'[w]])
    <3>1. since[w] <= Len(log[wkind[w]]) /\ since[w] \in Nat /\ wkind[w] \in Kinds
          /\ Len(log[wkind[w]]) \in Nat
      BY <1>1, StreamTypes DEF StreamShape
    <3>2. CASE wkind[w] = k
      BY <1>5, <1>6, <1>7, <3>1, <3>2
    <3>3. CASE wkind[w] # k
      BY <1>5, <1>6, <3>1, <3>3
    <3> QED
      BY <3>2, <3>3
  <2> QED
    BY <1>1, <1>5, <2>1 DEF StreamShape, Registered
<1>9. ASSUME NEW w \in Watchers, Connected(w)'
      PROVE  (got[w] \o hand[w] \o chan[w] \o Pending(w))' = Expected(w)'
  <2>1. Connected(w) /\ Registered(w)
    BY <1>1, <1>5, <1>9 DEF Connected, StreamShape
  <2>2. Pending(w) = <<>>
    BY <1>1, FreeMeansSilent, NothingPending DEF Commit
  <2>3. /\ got[w] \in Seq(Events) /\ hand[w] \in Seq(Events) /\ chan[w] \in Seq(Events)
        /\ wkind[w] \in Kinds
    BY <1>1, StreamTypes
  <2>4. got[w] \o hand[w] \in Seq(Events) /\ got[w] \o hand[w] \o chan[w] \in Seq(Events)
    BY <2>3, ConcatProperties
  <2>5. got[w] \o hand[w] \o chan[w] = Expected(w)
    BY <1>1, <2>1, <2>2, <2>4, ConcatEmptySeq DEF StreamExact
  <2>6. CASE wkind[w] = k
    <3>1. Pending(w)' = <<ev>>
      <4>1. \E i \in at'..Len(watchers') : watchers'[i] = w
        BY <1>5, <2>1 DEF Registered
      <4>2. \E d \in Clients : stage'[d] = "notify"
        BY <1>5
      <4>3. KindOf[event'.key] = wkind'[w]
        BY <1>5, <2>6
      <4> QED
        BY <1>5, <4>1, <4>2, <4>3 DEF Pending
    <3>2. Expected(w)' = Rest(Append(log[k], ev), since[w]) /\ Expected(w) = Rest(log[k], since[w])
      BY <1>5, <1>6, <2>6 DEF Expected, Rest
    <3>3. since[w] \in 0..Len(log[k])
      BY <1>1, <1>7, <2>6, StreamTypes DEF StreamShape
    <3>4. Expected(w)' = Expected(w) \o <<ev>>
      BY <1>6, <3>2, <3>3, RestOfAppend
    <3> QED
      BY <1>5, <2>5, <3>1, <3>4
  <2>7. CASE wkind[w] # k
    <3>1. Pending(w)' = <<>>
      BY <1>5, <2>7 DEF Pending
    <3>2. Expected(w)' = Expected(w)
      BY <1>5, <1>6, <2>3, <2>7 DEF Expected
    <3> QED
      BY <1>5, <2>4, <2>5, <3>1, <3>2, ConcatEmptySeq
  <2> QED
    BY <2>6, <2>7
<1>10. StreamExact'
  BY <1>9 DEF StreamExact
<1> QED
  BY <1>8, <1>10

LEMMA EnterStream ==
  ASSUME StreamInv, Inv', NEW c \in Clients, Enter(c) PROVE StreamShape' /\ StreamExact'
<1>1. stage[c] = "called" /\ Inv /\ StreamShape /\ StreamExact
  BY DEF Enter, Get, List, Refuse, Create, Update, Delete, StreamInv
<1>2. req[c] \in Requests /\ req[c].key \in Keys /\ data \in Maps
  BY <1>1 DEF Inv, TypeOK, CoreOK, RequestShape, Requests
<1>3. ASSUME NEW reply, Return(c, reply) PROVE StreamShape' /\ StreamExact'
  <2>1. UNCHANGED <<streams, log, publication>>
    BY <1>3 DEF Return, history
  <2>2. (\E d \in Clients : stage'[d] = "notify") <=> (\E d \in Clients : stage[d] = "notify")
    BY <1>1, <1>3 DEF Return, Inv, TypeOK, RequestsOK
  <2>3. \A w \in Watchers : Pending(w)' = Pending(w)
    BY <2>1, <2>2 DEF Pending, streams, publication
  <2> QED
    BY <1>1, <2>1, <2>3, StreamKept
<1>4. CASE Get(c) \/ List(c) \/ Refuse(c)
  BY <1>3, <1>4 DEF Get, List, Refuse
<1>5. CASE Create(c) \/ Update(c)
  <2>1. req[c].obj \in Objects /\ req[c].op \in Mutations
    BY <1>2, <1>5 DEF Create, Update, Requests, Mutations
  <2> QED
    BY <1>1, <1>5, <2>1, CommitStream DEF Create, Update
<1>6. CASE Delete(c)
  <2>1. data[req[c].key] \in Objects /\ req[c].op \in Mutations
    BY <1>2, <1>6 DEF Delete, Maps, Mutations
  <2> QED
    BY <1>1, <1>6, <2>1, CommitStream DEF Delete
<1> QED
  BY <1>4, <1>5, <1>6 DEF Enter

\* The event on its way to the watcher at `at' goes to the end of its channel.
LEMMA NotifyStream ==
  ASSUME StreamInv, NEW c \in Clients, Notify(c) PROVE StreamShape' /\ StreamExact'
<1>1. /\ Inv /\ StreamShape /\ StreamExact
      /\ UNCHANGED <<stage, event, watchers, wstage, wkind, hand, since, got, log>>
      /\ at' = at + 1 /\ stage[c] = "notify"
  BY DEF StreamInv, Notify, requests, history
<1>2. PICK v \in Watchers : v = watchers[at]
  BY <1>1, ElementOfSeq DEF Notify, Inv, TypeOK, StreamsOK, PublicationOK
<1>3. at \in 1..Len(watchers) /\ at \in Nat /\ Len(watchers) \in Nat
  BY <1>1, LenProperties DEF Notify, Inv, TypeOK, StreamsOK, PublicationOK
<1>4. IF wkind[v] = KindOf[event.key]
        THEN chan' = [chan EXCEPT ![v] = Append(chan[v], event)]
        ELSE chan' = chan
  BY <1>2 DEF Notify
<1>5. event \in Events
  BY <1>1 DEF Inv, EventShape
<1>6. chan \in [Watchers -> Seq(Events)]
  BY <1>1 DEF Inv, TypeOK, StreamsOK
<1>7. StreamShape'
  <2>1. \A w \in Watchers : wstage[w] = "off" => chan'[w] = chan[w]
    <3>1. wstage[v] # "off"
      BY <1>1, <1>2, <1>3 DEF StreamShape, Registered
    <3> QED
      BY <1>4, <1>6, <3>1
  <2> QED
    BY <1>1, <2>1 DEF StreamShape, Registered
<1>8. ASSUME NEW w \in Watchers, Connected(w)'
      PROVE  (got[w] \o hand[w] \o chan[w] \o Pending(w))' = Expected(w)'
  <2>1. got[w] \o hand[w] \o chan[w] \o Pending(w) = Expected(w) /\ Expected(w)' = Expected(w)
    BY <1>1, <1>8 DEF StreamExact, Connected, Expected
  <2>2. CASE w = v /\ wkind[w] = KindOf[event.key]
    <3>1. Pending(w) = <<event>>
      BY <1>1, <1>2, <1>3, <2>2 DEF Pending
    <3>2. Pending(w)' = <<>>
      <4>1. ~ \E i \in (at + 1)..Len(watchers) : watchers[i] = w
        BY <1>1, <1>2, <1>3, <2>2 DEF StreamShape
      <4> QED
        BY <1>1, <4>1 DEF Pending
    <3>3. chan'[w] = Append(chan[w], event)
      BY <1>4, <1>6, <2>2
    <3>4. got[w] \o hand[w] \in Seq(Events) /\ chan[w] \in Seq(Events)
      BY <1>1, StreamTypes, ConcatProperties
    <3>5. (got[w] \o hand[w]) \o Append(chan[w], event) \o <<>>
            = (got[w] \o hand[w]) \o chan[w] \o <<event>>
      <4>1. PICK s \in Seq(Events) : s = got[w] \o hand[w]
        BY <3>4
      <4>2. s \o Append(chan[w], event) \o <<>> = s \o chan[w] \o <<event>>
        BY <1>5, <3>4, MoveToEnd
      <4> QED
        BY <4>1, <4>2
    <3> QED
      BY <1>1, <2>1, <3>1, <3>2, <3>3, <3>5
  <2>3. CASE ~(w = v /\ wkind[w] = KindOf[event.key])
    <3>1. Pending(w)' = Pending(w)
      <4>1. CASE wkind[w] # KindOf[event.key]
        BY <1>1, <4>1 DEF Pending
      <4>2. CASE w # v
        <5>1. (\E i \in (at + 1)..Len(watchers) : watchers[i] = w)
                <=> (\E i \in at..Len(watchers) : watchers[i] = w)
          BY <1>2, <1>3, <4>2
        <5> QED
          BY <1>1, <5>1 DEF Pending
      <4> QED
        BY <2>3, <4>1, <4>2
    <3>2. chan'[w] = chan[w]
      BY <1>4, <1>6, <2>3
    <3> QED
      BY <1>1, <2>1, <3>1, <3>2
  <2> QED
    BY <2>2, <2>3
<1>9. StreamExact'
  BY <1>8 DEF StreamExact
<1> QED
  BY <1>7, <1>9

\* The other steps of a handler leave what is on its way alone.
LEMMA HandleStream ==
  ASSUME StreamInv, Inv', NEW c \in Clients,
         Handle(c) \/ \E r \in Requests : Receive(c, r)
  PROVE  StreamShape' /\ StreamExact'
<1>1. Inv /\ StreamShape /\ StreamExact /\ stage \in [Clients -> Stages]
  BY DEF StreamInv, Inv, TypeOK, RequestsOK
<1>2. ASSUME UNCHANGED <<streams, log, publication>>,
             NEW s, stage' = [stage EXCEPT ![c] = s], s # "notify", stage[c] # "notify"
      PROVE  StreamShape' /\ StreamExact'
  <2>1. (\E d \in Clients : stage'[d] = "notify") <=> (\E d \in Clients : stage[d] = "notify")
    BY <1>1, <1>2
  <2>2. \A w \in Watchers : Pending(w)' = Pending(w)
    BY <1>2, <2>1 DEF Pending, streams, publication
  <2> QED
    BY <1>1, <1>2, <2>2, StreamKept
<1>3. CASE \E r \in Requests : Receive(c, r)
  BY <1>2, <1>3 DEF Receive, history
<1>4. CASE Reject(c)
  BY <1>2, <1>4 DEF Reject, Return, history
<1>5. CASE Respond(c)
  BY <1>2, <1>5 DEF Respond, history
<1>6. CASE SyncOpen(c)
  BY <1>2, <1>6 DEF SyncOpen, history
<1>7. ASSUME NEW reply, NEW ack, stage[c] \in {"sync", "write"}, Release(c, reply, ack)
      PROVE  StreamShape' /\ StreamExact'
  <2>1. \A d \in Clients : stage[d] # "notify"
    BY <1>1, <1>7 DEF Inv, WriterExclusion, Locked
  <2>2. \A d \in Clients : stage'[d] # "notify"
    BY <1>1, <1>7, <2>1 DEF Release
  <2>3. \A w \in Watchers : Pending(w)' = Pending(w)
    BY <2>1, <2>2, NothingPending, NextNothingPending
  <2> QED
    BY <1>1, <1>7, <2>3, StreamKept DEF Release
<1>8. CASE NotifyDone(c)
  <2>1. \A d \in Clients : stage'[d] # "notify"
    BY <1>1, <1>8 DEF NotifyDone, Inv, WriterExclusion, Locked
  <2>2. \A w \in Watchers : Pending(w) = <<>>
    <3>1. at > Len(watchers) /\ at \in Nat /\ Len(watchers) \in Nat
      BY <1>1, <1>8, LenProperties DEF NotifyDone, Inv, TypeOK, PublicationOK, StreamsOK
    <3> QED
      BY <3>1 DEF Pending
  <2>3. \A w \in Watchers : Pending(w)' = Pending(w)
    BY <2>1, <2>2, NextNothingPending
  <2> QED
    BY <1>1, <1>8, <2>3, StreamKept DEF NotifyDone, history
<1> QED
  BY <1>3, <1>4, <1>5, <1>6, <1>7, <1>8, NotifyStream
  DEF Handle, Publish, Sync, SyncOpenFails, SyncWrite, SyncWriteFails

-----------------------------------------------------------------------------
(***************************************************************************)
(* The steps of a connection.                                              *)
(***************************************************************************)
\* A connection that registers joins the list at its end, and owes nothing.
LEMMA WatchStream ==
  ASSUME StreamInv, Inv', NEW w \in Watchers, NEW kind \in Kinds, Watch(w, kind)
  PROVE  StreamShape' /\ StreamExact'
<1>1. /\ Inv /\ StreamShape /\ StreamExact
      /\ UNCHANGED <<stage, chan, hand, got, log>>
      /\ wstage[w] = "off" /\ watchers' = Append(watchers, w)
  BY DEF StreamInv, Watch, requests, history
<1>2. /\ wstage'[w] = "streaming" /\ wkind'[w] = kind /\ since'[w] = Len(log[kind])
      /\ \A v \in Watchers : v # w =>
           wstage'[v] = wstage[v] /\ wkind'[v] = wkind[v] /\ since'[v] = since[v]
  BY <1>1 DEF Watch, Inv, TypeOK, StreamsOK
<1>3. /\ watchers \in Seq(Watchers) /\ Len(watchers) \in Nat
      /\ Len(watchers') = Len(watchers) + 1
      /\ \A i \in 1..Len(watchers) : watchers'[i] = watchers[i]
      /\ watchers'[Len(watchers) + 1] = w
  BY <1>1, LenProperties, AppendProperties DEF Inv, TypeOK, StreamsOK
<1>4. log[kind] \in Seq(Events) /\ Len(log[kind]) \in Nat
  BY <1>1, LenProperties DEF Inv, TypeOK, HistoryOK
<1>5. ~Registered(w) /\ got[w] = <<>> /\ chan[w] = <<>> /\ hand[w] = <<>>
  BY <1>1 DEF StreamShape
<1>6. \A v \in Watchers : Pending(v) = <<>> /\ Pending(v)' = <<>>
  BY <1>1, FreeMeansSilent, NothingPending, NextNothingPending DEF Watch
<1>7. StreamShape'
  <2>1. ASSUME NEW i \in 1..Len(watchers'), NEW j \in 1..Len(watchers'), watchers'[i] = watchers'[j]
        PROVE  i = j
    BY <1>1, <1>3, <1>5, <2>1 DEF StreamShape, Registered
  <2>2. ASSUME NEW v \in Watchers PROVE wstage'[v] # "off" <=> Registered(v)'
    <3>1. CASE v = w
      BY <1>2, <1>3, <3>1 DEF Registered
    <3>2. CASE v # w
      <4>1. Registered(v)' <=> Registered(v)
        BY <1>3, <3>2 DEF Registered
      <4> QED
        BY <1>1, <1>2, <3>2, <4>1 DEF StreamShape
    <3> QED
      BY <3>1, <3>2
  <2>3. ASSUME NEW v \in Watchers PROVE since'[v] <= Len(log'[wkind'[v]])
    BY <1>1, <1>2, <1>4 DEF StreamShape
  <2>4. ASSUME NEW v \in Watchers
        PROVE  /\ wstage'[v] = "off" => got'[v] = <<>> /\ chan'[v] = <<>>
               /\ IF wstage'[v] = "encoding" THEN Len(hand'[v]) = 1 ELSE hand'[v] = <<>>
    BY <1>1, <1>2, <1>5 DEF StreamShape
  <2> QED
    BY <2>1, <2>2, <2>3, <2>4 DEF StreamShape
<1>8. ASSUME NEW v \in Watchers, Connected(v)'
      PROVE  (got[v] \o hand[v] \o chan[v] \o Pending(v))' = Expected(v)'
  <2>1. CASE v = w
    <3>1. Expected(v)' = SubSeq(log[kind], Len(log[kind]) + 1, Len(log[kind]))
      BY <1>1, <1>2, <2>1 DEF Expected
    <3>2. Expected(v)' = <<>>
      BY <1>4, <3>1, SubSeqEmpty
    <3> QED
      BY <1>1, <1>5, <1>6, <2>1, <3>2
  <2>2. CASE v # w
    BY <1>1, <1>2, <1>6, <1>8, <2>2 DEF StreamExact, Connected, Expected
  <2> QED
    BY <2>1, <2>2
<1>9. StreamExact'
  BY <1>8 DEF StreamExact
<1> QED
  BY <1>7, <1>9

\* Events move from the channel to the hand and on to the client in order.
LEMMA StreamStream ==
  ASSUME StreamInv, NEW w \in Watchers, Stream(w) PROVE StreamShape' /\ StreamExact'
<1>1. /\ Inv /\ StreamShape /\ StreamExact
      /\ UNCHANGED <<stage, publication, watchers, wkind, since, log>>
      /\ wstage \in [Watchers -> {"off", "streaming", "encoding", "stopping"}]
      /\ chan \in [Watchers -> Seq(Events)] /\ hand \in [Watchers -> Seq(Events)]
      /\ got \in [Watchers -> Seq(Events)]
  BY DEF StreamInv, Stream, Take, Encode, requests, history, Inv, TypeOK, StreamsOK
<1>2. \A v \in Watchers : Pending(v)' = Pending(v) /\ Expected(v)' = Expected(v)
  BY <1>1 DEF Pending, Expected, publication
<1>3. /\ Connected(w) /\ Connected(w)'
      /\ \A v \in Watchers : v # w =>
           wstage'[v] = wstage[v] /\ chan'[v] = chan[v] /\ hand'[v] = hand[v] /\ got'[v] = got[v]
  BY <1>1 DEF Stream, Take, Encode, Connected
<1>4. got[w] \o hand[w] \o chan[w] \o Pending(w) = Expected(w)
  BY <1>1, <1>3 DEF StreamExact
<1>5. ASSUME wstage'[w] \in {"streaming", "encoding"},
             IF wstage'[w] = "encoding" THEN Len(hand'[w]) = 1 ELSE hand'[w] = <<>>,
             got'[w] \o hand'[w] \o chan'[w] = got[w] \o hand[w] \o chan[w]
      PROVE  StreamShape' /\ StreamExact'
  <2>1. wstage[w] # "off"
    BY <1>3 DEF Connected
  <2>2. \A v \in Watchers : wstage'[v] # "off" <=> Registered(v)'
    BY <1>1, <1>3, <1>5, <2>1 DEF StreamShape, Registered
  <2>3. StreamShape'
    BY <1>1, <1>3, <1>5, <2>2 DEF StreamShape
  <2>4. ASSUME NEW v \in Watchers, Connected(v)'
        PROVE  (got[v] \o hand[v] \o chan[v] \o Pending(v))' = Expected(v)'
    <3>1. CASE v = w
      BY <1>2, <1>4, <1>5, <3>1
    <3>2. CASE v # w
      BY <1>1, <1>2, <1>3, <2>4, <3>2 DEF StreamExact, Connected
    <3> QED
      BY <3>1, <3>2
  <2> QED
    BY <2>3, <2>4 DEF StreamExact
<1>6. CASE Take(w)
  <2>1. /\ hand[w] = <<>> /\ chan[w] # <<>>
        /\ wstage'[w] = "encoding" /\ hand'[w] = <<Head(chan[w])>>
        /\ chan'[w] = Tail(chan[w]) /\ got'[w] = got[w]
    BY <1>1, <1>6 DEF Take, StreamShape
  <2>2. PICK g \in Seq(Events), h \in Seq(Events), t \in Seq(Events) :
          g = got[w] /\ h = <<Head(chan[w])>> /\ t = Tail(chan[w]) /\ Len(h) = 1
    <3>1. Head(chan[w]) \in Events /\ Tail(chan[w]) \in Seq(Events)
      BY <1>1, <2>1, HeadTailProperties
    <3>2. <<Head(chan[w])>> \in Seq(Events) /\ Len(<<Head(chan[w])>>) = 1
      BY <3>1
    <3> QED
      BY <1>1, <3>1, <3>2
  <2>3. h \o t = chan[w]
    BY <1>1, <2>1, <2>2, HeadOfRest
  <2>4. g \o h \o t = g \o (h \o t)
    BY ConcatAssociative
  <2>5. g \o <<>> = g
    BY ConcatEmptySeq
  <2> QED
    BY <1>5, <2>1, <2>2, <2>3, <2>4, <2>5
<1>7. CASE Encode(w)
  <2>1. /\ wstage'[w] = "streaming" /\ hand'[w] = <<>> /\ chan'[w] = chan[w]
        /\ got'[w] = got[w] \o hand[w]
    BY <1>1, <1>7 DEF Encode
  <2>2. PICK g \in Seq(Events) : g = got[w] \o hand[w]
    BY <1>1, ConcatProperties
  <2>3. g \o <<>> = g
    BY ConcatEmptySeq
  <2> QED
    BY <1>5, <2>1, <2>2, <2>3
<1> QED
  BY <1>6, <1>7 DEF Stream

LEMMA DisconnectStream ==
  ASSUME StreamInv, NEW w \in Watchers, Disconnect(w) PROVE StreamShape' /\ StreamExact'
<1>1. /\ Inv /\ StreamShape /\ StreamExact
      /\ UNCHANGED <<stage, publication, watchers, wkind, chan, since, got, log>>
      /\ wstage[w] # "off" /\ wstage'[w] = "stopping" /\ hand'[w] = <<>>
      /\ \A v \in Watchers : v # w => wstage'[v] = wstage[v] /\ hand'[v] = hand[v]
  BY DEF StreamInv, Disconnect, requests, history, Inv, TypeOK, StreamsOK
<1>2. \A v \in Watchers : Pending(v)' = Pending(v) /\ Expected(v)' = Expected(v)
  BY <1>1 DEF Pending, Expected, publication
<1>3. \A v \in Watchers : wstage'[v] # "off" <=> Registered(v)'
  BY <1>1 DEF StreamShape, Registered
<1>4. StreamShape'
  BY <1>1, <1>3 DEF StreamShape
<1>5. StreamExact'
  BY <1>1, <1>2 DEF StreamExact, Connected
<1> QED
  BY <1>4, <1>5

\* A connection that leaves the list takes nothing from the others: nothing is
\* on its way while it does.
LEMMA StopStream ==
  ASSUME StreamInv, NEW w \in Watchers, Stop(w) PROVE StreamShape' /\ StreamExact'
<1>1. /\ Inv /\ StreamShape /\ StreamExact
      /\ UNCHANGED <<stage, wkind, hand, log>>
      /\ wstage[w] = "stopping"
  BY DEF StreamInv, Stop, Unregister, requests, history
<1>2. /\ wstage'[w] = "off" /\ chan'[w] = <<>> /\ got'[w] = <<>> /\ since'[w] = 0
      /\ \A v \in Watchers : v # w =>
           wstage'[v] = wstage[v] /\ chan'[v] = chan[v] /\ got'[v] = got[v] /\ since'[v] = since[v]
  BY <1>1 DEF Stop, Unregister, Inv, TypeOK, StreamsOK
<1>3. PICK i \in 1..Len(watchers) :
        /\ watchers[i] = w
        /\ watchers' = SubSeq(watchers, 1, i - 1) \o SubSeq(watchers, i + 1, Len(watchers))
  BY DEF Stop, Unregister
<1>4. watchers \in Seq(Watchers) /\ Len(watchers) \in Nat
  BY <1>1, LenProperties DEF Inv, TypeOK, StreamsOK
<1>5. /\ Len(watchers') = Len(watchers) - 1
      /\ \A j \in 1..Len(watchers') :
           watchers'[j] = IF j < i THEN watchers[j] ELSE watchers[j + 1]
  BY <1>3, <1>4, RemoveOne
<1>6. \A v \in Watchers : Pending(v) = <<>> /\ Pending(v)' = <<>>
  BY <1>1, FreeMeansSilent, NothingPending, NextNothingPending DEF Stop
<1>7. StreamShape'
  <2> DEFINE old(j) == IF j < i THEN j ELSE j + 1
  <2>1. \A j \in 1..Len(watchers') :
          /\ old(j) \in 1..Len(watchers) /\ old(j) # i /\ watchers'[j] = watchers[old(j)]
    BY <1>4, <1>5
  <2>2. ASSUME NEW j \in 1..Len(watchers'), NEW k \in 1..Len(watchers'), watchers'[j] = watchers'[k]
        PROVE  j = k
    <3>1. old(j) = old(k)
      BY <1>1, <2>1, <2>2 DEF StreamShape
    <3> QED
      BY <3>1
  <2>3. ASSUME NEW v \in Watchers PROVE wstage'[v] # "off" <=> Registered(v)'
    <3>1. CASE v = w
      <4>1. \A j \in 1..Len(watchers) : watchers[j] = w => j = i
        BY <1>1, <1>3 DEF StreamShape
      <4>2. ~Registered(w)'
        BY <2>1, <4>1 DEF Registered
      <4> QED
        BY <1>2, <3>1, <4>2
    <3>2. CASE v # w
      <4>1. Registered(v)' => Registered(v)
        BY <2>1 DEF Registered
      <4>2. Registered(v) => Registered(v)'
        <5>1. SUFFICES ASSUME NEW k \in 1..Len(watchers), watchers[k] = v
                       PROVE  \E j \in 1..Len(watchers') : watchers'[j] = v
          BY DEF Registered
        <5>2. k # i
          BY <1>3, <3>2, <5>1
        <5>3. CASE k < i
          <6>1. k \in 1..Len(watchers') /\ watchers'[k] = v
            BY <1>4, <1>5, <5>1, <5>3
          <6> QED
            BY <6>1
        <5>4. CASE k > i
          <6>1. /\ k - 1 \in 1..Len(watchers') /\ ~(k - 1 < i) /\ (k - 1) + 1 = k
            BY <1>4, <1>5, <5>4
          <6>2. watchers'[k - 1] = v
            BY <1>5, <5>1, <6>1
          <6> QED
            BY <6>1, <6>2
        <5> QED
          BY <1>4, <5>2, <5>3, <5>4
      <4> QED
        BY <1>1, <1>2, <3>2, <4>1, <4>2 DEF StreamShape
    <3> QED
      BY <3>1, <3>2
  <2>4. ASSUME NEW v \in Watchers PROVE since'[v] <= Len(log'[wkind'[v]])
    <3>1. Len(log[wkind[v]]) \in Nat /\ since[v] <= Len(log[wkind[v]])
      BY <1>1, StreamTypes DEF StreamShape
    <3> QED
      BY <1>1, <1>2, <3>1
  <2>5. ASSUME NEW v \in Watchers
        PROVE  /\ wstage'[v] = "off" => got'[v] = <<>> /\ chan'[v] = <<>>
               /\ IF wstage'[v] = "encoding" THEN Len(hand'[v]) = 1 ELSE hand'[v] = <<>>
    BY <1>1, <1>2 DEF StreamShape
  <2> HIDE DEF old
  <2> QED
    BY <2>2, <2>3, <2>4, <2>5 DEF StreamShape
<1>8. StreamExact'
  BY <1>1, <1>2, <1>6 DEF StreamExact, Connected, Expected
<1> QED
  BY <1>7, <1>8

-----------------------------------------------------------------------------
(***************************************************************************)
(* The process.                                                            *)
(***************************************************************************)
LEMMA ProcessStream ==
  ASSUME StreamInv, Inv', Crash \/ Restart \/ LoadFails
  PROVE  StreamShape' /\ StreamExact'
<1>1. Inv /\ StreamShape /\ StreamExact
  BY DEF StreamInv
<1>2. CASE Crash
  <2>1. StreamExact'
    BY <1>2 DEF Crash, StreamExact, Connected
  <2>2. \A w \in Watchers : since'[w] <= Len(log'[wkind'[w]])
    BY <1>1, <1>2 DEF Crash, Inv, TypeOK, StreamsOK
  <2>3. StreamShape'
    BY <1>2, <2>2 DEF Crash, StreamShape, Registered
  <2> QED
    BY <2>1, <2>3
<1>3. CASE Restart \/ LoadFails
  <2>1. \A w \in Watchers : Pending(w)' = Pending(w)
    BY <1>3 DEF Restart, LoadFails, Start, requests, publication, streams, Pending
  <2> QED
    BY <1>1, <1>3, <2>1, StreamKept DEF Restart, LoadFails, Start
<1> QED
  BY <1>2, <1>3

LEMMA InitStream == Init => StreamInv
<1> SUFFICES ASSUME Init PROVE StreamShape /\ StreamExact
  BY InitInv DEF StreamInv
<1>1. \A w \in Watchers : wkind[w] \in Kinds
  BY InitInv DEF Inv, TypeOK, StreamsOK
<1>2. StreamShape
  BY <1>1 DEF Init, StreamShape, Registered
<1>3. StreamExact
  BY DEF Init, StreamExact, Connected
<1> QED
  BY <1>2, <1>3

LEMMA StreamStep == StreamInv /\ [Next]_vars => StreamInv'
<1> SUFFICES ASSUME StreamInv, [Next]_vars PROVE StreamShape' /\ StreamExact'
  BY StepInv DEF StreamInv
<1>1. Inv'
  BY StepInv DEF StreamInv
<1>2. CASE UNCHANGED vars
  <2>1. \A w \in Watchers : Pending(w)' = Pending(w)
    BY <1>2 DEF vars, requests, publication, streams, Pending
  <2> QED
    BY <1>2, <2>1, StreamKept DEF vars, history, StreamInv
<1> QED
  BY <1>1, <1>2, EnterStream, HandleStream, WatchStream, StreamStream, DisconnectStream,
     StopStream, ProcessStream DEF Next

LEMMA StreamInvHolds == Spec => []StreamInv
BY InitStream, StreamStep, PTL DEF Spec

\* A connected watch client receives exactly the events of its resource since
\* it registered, each once and in order, whoever else joins or leaves.
THEOREM WatchersSeeEveryEvent == Spec => []StreamExact
BY StreamInvHolds, PTL DEF StreamInv
-----------------------------------------------------------------------------
(***************************************************************************)
(* A client that has received everything has what the server has.          *)
(***************************************************************************)
\* The last event of a log about a key tells what is under that key; a server
\* that is down has no log.
LogTells ==
  \A kind \in Kinds :
    /\ up = FALSE => log[kind] = <<>>
    /\ \A i \in 1..Len(log[kind]) :
         /\ KindOf[log[kind][i].key] = kind
         /\ \/ \E j \in (i + 1)..Len(log[kind]) : log[kind][j].key = log[kind][i].key
            \/ data[log[kind][i].key] = Told(log[kind][i])

LEMMA CommitTells ==
  ASSUME Inv, LogTells, NEW c \in Clients, stage[c] = "called", req[c].op \in Mutations,
         NEW obj, NEW shown \in Objects, Commit(c, obj, shown),
         obj = IF req[c].op = "delete" THEN NoObj ELSE shown
  PROVE  LogTells'
<1>1. req[c].key \in Keys /\ up = TRUE /\ up' = up
  BY DEF Inv, RequestShape, Requests, TypeOK, CoreOK, DownIsIdle, Commit
<1>2. PICK k \in Kinds : k = KindOf[req[c].key]
  BY <1>1, RegistryAssumption
<1>3. PICK ev \in Events :
        ev = [type |-> EventType(req[c].op), key |-> req[c].key, obj |-> shown]
  BY <1>1 DEF Events, EventType, Mutations
<1>4. obj = Told(ev) /\ KindOf[ev.key] = k /\ ev.key \in Keys
  BY <1>1, <1>2, <1>3 DEF Told, EventType, Mutations
<1>5. PICK s \in Seq(Events) : s = log[k]
  BY <1>2 DEF Inv, TypeOK, HistoryOK
<1>6. /\ log' = [log EXCEPT ![k] = Append(s, ev)]
      /\ data' = [data EXCEPT ![ev.key] = obj]
      /\ log \in [Kinds -> Seq(Events)] /\ data \in Maps
  BY <1>2, <1>3, <1>5 DEF Commit, Inv, TypeOK, HistoryOK, CoreOK
<1>7. /\ Len(s) \in Nat /\ Len(Append(s, ev)) = Len(s) + 1
      /\ \A i \in 1..Len(s) : Append(s, ev)[i] = s[i] /\ s[i] \in Events
      /\ Append(s, ev)[Len(s) + 1] = ev
  BY LenProperties, ElementOfSeq, AppendProperties
<1>8. data'[ev.key] = Told(ev) /\ \A key \in Keys : key # ev.key => data'[key] = data[key]
  BY <1>4, <1>6 DEF Maps
<1>9. ASSUME NEW kind \in Kinds, NEW i \in 1..Len(log'[kind])
      PROVE  /\ KindOf[log'[kind][i].key] = kind
             /\ \/ \E j \in (i + 1)..Len(log'[kind]) : log'[kind][j].key = log'[kind][i].key
                \/ data'[log'[kind][i].key] = Told(log'[kind][i])
  <2>1. CASE kind # k
    <3>1. log'[kind] = log[kind] /\ log[kind] \in Seq(Events)
      BY <1>6, <2>1
    <3>2. log[kind][i] \in Events
      BY <3>1, ElementOfSeq
    <3>3. log[kind][i].key \in Keys /\ log[kind][i].key # ev.key
      BY <1>4, <2>1, <3>1, <3>2 DEF LogTells, Events
    <3> QED
      BY <1>8, <3>1, <3>3 DEF LogTells
  <2>2. CASE kind = k /\ i = Len(s) + 1
    BY <1>4, <1>6, <1>7, <1>8, <2>2
  <2>3. CASE kind = k /\ i # Len(s) + 1
    <3>1. i \in 1..Len(s) /\ log'[kind] = Append(s, ev) /\ log'[kind][i] = s[i]
      BY <1>6, <1>7, <2>3
    <3>2. s[i].key \in Keys
      BY <1>7, <3>1 DEF Events
    <3>3. KindOf[s[i].key] = kind
      BY <1>5, <2>3, <3>1 DEF LogTells
    <3>4. CASE s[i].key = ev.key
      <4>1. Len(s) + 1 \in (i + 1)..Len(log'[kind]) /\ log'[kind][Len(s) + 1] = ev
        BY <1>7, <3>1
      <4> QED
        BY <3>1, <3>3, <3>4, <4>1
    <3>5. CASE s[i].key # ev.key
      <4>1. CASE \E j \in (i + 1)..Len(s) : s[j].key = s[i].key
        <5>1. PICK j \in (i + 1)..Len(s) : s[j].key = s[i].key
          BY <4>1
        <5>2. j \in (i + 1)..Len(log'[kind]) /\ log'[kind][j] = s[j]
          BY <1>7, <3>1
        <5> QED
          BY <3>1, <3>3, <5>1, <5>2
      <4>2. CASE data[s[i].key] = Told(s[i])
        BY <1>8, <3>1, <3>2, <3>3, <3>5, <4>2
      <4> QED
        BY <1>5, <2>3, <3>1, <4>1, <4>2 DEF LogTells
    <3> QED
      BY <3>4, <3>5
  <2> QED
    BY <2>1, <2>2, <2>3
<1> QED
  BY <1>1, <1>9 DEF LogTells

LEMMA LogTellsKept ==
  ASSUME LogTells, UNCHANGED <<up, data, log>> PROVE LogTells'
BY DEF LogTells

LEMMA StepTells == Inv /\ LogTells /\ [Next]_vars => LogTells'
<1> SUFFICES ASSUME Inv, LogTells, [Next]_vars PROVE LogTells'
  OBVIOUS
<1>1. ASSUME NEW c \in Clients, Enter(c) PROVE LogTells'
  <2>1. stage[c] = "called"
    BY <1>1 DEF Enter, Get, List, Refuse, Create, Update, Delete
  <2>2. req[c] \in Requests /\ req[c].key \in Keys /\ data \in Maps
    BY <2>1 DEF Inv, TypeOK, CoreOK, RequestShape, Requests
  <2>3. CASE Get(c) \/ List(c) \/ Refuse(c)
    BY <2>3, LogTellsKept DEF Get, List, Refuse, Return, core, history
  <2>4. CASE Create(c) \/ Update(c)
    <3>1. req[c].obj \in Objects /\ req[c].op \in Mutations /\ req[c].op # "delete"
      BY <2>2, <2>4 DEF Create, Update, Requests, Mutations
    <3> QED
      BY <2>1, <2>4, <3>1, CommitTells DEF Create, Update
  <2>5. CASE Delete(c)
    <3>1. data[req[c].key] \in Objects /\ req[c].op \in Mutations /\ req[c].op = "delete"
      BY <2>2, <2>5 DEF Delete, Maps, Mutations
    <3> QED
      BY <2>1, <2>5, <3>1, CommitTells DEF Delete
  <2> QED
    BY <1>1, <2>3, <2>4, <2>5 DEF Enter
<1>2. ASSUME NEW c \in Clients, (\E r \in Requests : Receive(c, r)) \/ Handle(c) PROVE LogTells'
  BY <1>2, LogTellsKept
  DEF Receive, Handle, Reject, Return, Publish, Notify, NotifyDone, Sync, SyncOpen,
      SyncOpenFails, SyncWrite, SyncWriteFails, Release, Respond, core, history
<1>3. ASSUME NEW w \in Watchers,
             \/ \E kind \in Kinds : Watch(w, kind)
             \/ Stream(w) \/ Disconnect(w) \/ Stop(w)
      PROVE  LogTells'
  BY <1>3, LogTellsKept
  DEF Watch, Stream, Take, Encode, Disconnect, Stop, Unregister, core, history
<1>4. CASE Crash
  <2>1. \A kind \in Kinds : log'[kind] = <<>> /\ Len(log'[kind]) = 0
    BY <1>4, EmptySeq DEF Crash
  <2> QED
    BY <2>1 DEF LogTells
<1>5. CASE Restart \/ LoadFails
  <2>1. \A kind \in Kinds : log'[kind] = <<>> /\ Len(log'[kind]) = 0
    BY <1>5, EmptySeq DEF Restart, LoadFails, Start, LogTells, Inv, TypeOK, CoreOK
  <2> QED
    BY <2>1 DEF LogTells
<1>6. CASE UNCHANGED vars
  BY <1>6, LogTellsKept DEF vars, core, history
<1> QED
  BY <1>1, <1>2, <1>3, <1>4, <1>5, <1>6 DEF Next

LEMMA LogTellsHolds == Spec => []LogTells
<1>1. Init => LogTells
  <2>1. Init => \A kind \in Kinds : log[kind] = <<>> /\ Len(log[kind]) = 0
    BY EmptySeq DEF Init
  <2> QED
    BY <2>1 DEF LogTells
<1> QED
  BY <1>1, StepTells, InvHolds, PTL DEF Spec

\* What w received is the end of its log.
LEMMA GotIsTheEnd ==
  ASSUME StreamInv, NEW w \in Watchers, Connected(w),
         hand[w] = <<>>, chan[w] = <<>>, Pending(w) = <<>>
  PROVE  /\ Len(log[wkind[w]]) = since[w] + Len(got[w])
         /\ \A i \in 1..Len(got[w]) : got[w][i] = log[wkind[w]][since[w] + i]
<1>1. PICK s \in Seq(Events), g \in Seq(Events), n \in Nat :
        s = log[wkind[w]] /\ g = got[w] /\ n = since[w] /\ n <= Len(s)
  BY StreamTypes DEF StreamInv, StreamShape
<1>2. g \o <<>> \o <<>> \o <<>> = g
  BY ConcatEmptySeq
<1>3. g = Rest(s, n)
  BY <1>1, <1>2 DEF StreamInv, StreamExact, Expected, Rest
<1>4. Len(s) \in Nat
  BY LenProperties
<1>5. CASE n = Len(s)
  <2>1. g = <<>>
    BY <1>3, <1>4, <1>5, SubSeqEmpty DEF Rest
  <2>2. Len(g) = 0
    BY <2>1, EmptySeq
  <2> QED
    BY <1>1, <1>4, <1>5, <2>2
<1>6. CASE n # Len(s)
  <2>1. \A i \in (n + 1)..Len(s) : s[i] \in Events
    BY <1>1, <1>4, ElementOfSeq
  <2>2. n + 1 \in Int /\ Len(s) \in Int /\ n + 1 <= Len(s)
    BY <1>1, <1>4, <1>6
  <2>3. /\ Len(SubSeq(s, n + 1, Len(s))) = Len(s) - (n + 1) + 1
        /\ \A i \in 1..(Len(s) - (n + 1) + 1) : SubSeq(s, n + 1, Len(s))[i] = s[(n + 1) + i - 1]
    BY <2>1, <2>2, SubSeqProperties
  <2>4. /\ Len(s) - (n + 1) + 1 = Len(s) - n
        /\ \A i \in 1..(Len(s) - n) : (n + 1) + i - 1 = n + i
    BY <1>1, <1>4
  <2>5. Len(g) = Len(s) - n /\ \A i \in 1..(Len(s) - n) : g[i] = s[n + i]
    BY <1>3, <2>3, <2>4 DEF Rest
  <2>6. Len(s) = n + Len(g)
    BY <1>1, <1>4, <2>5
  <2> QED
    BY <1>1, <2>5, <2>6
<1> QED
  BY <1>5, <1>6

\* A connected watch client that nothing is on its way to, and that goes by the
\* last event it received of each key, has what the server has.
THEOREM IdleClientsAreCurrent == Spec => []CaughtUp
<1>1. ASSUME StreamInv, LogTells, NEW w \in Watchers, Connected(w),
             hand[w] = <<>>, chan[w] = <<>>, Pending(w) = <<>>, NEW i \in 1..Len(got[w])
      PROVE  \/ \E j \in (i + 1)..Len(got[w]) : got[w][j].key = got[w][i].key
             \/ data[got[w][i].key] = Told(got[w][i])
  <2>1. PICK s \in Seq(Events), g \in Seq(Events), n \in Nat, k \in Kinds :
          /\ k = wkind[w] /\ s = log[k] /\ g = got[w] /\ n = since[w]
          /\ Len(s) = n + Len(g) /\ \A l \in 1..Len(g) : g[l] = s[n + l]
    BY <1>1, GotIsTheEnd, StreamTypes DEF StreamInv
  <2>2. Len(g) \in Nat
    BY LenProperties
  <2>3. n + i \in 1..Len(s) /\ g[i] = s[n + i]
    BY <1>1, <2>1, <2>2
  <2>4. CASE \E j \in (n + i + 1)..Len(s) : s[j].key = s[n + i].key
    <3>1. PICK j \in (n + i + 1)..Len(s) : s[j].key = s[n + i].key
      BY <2>4
    <3>2. j - n \in (i + 1)..Len(g) /\ j - n \in 1..Len(g) /\ n + (j - n) = j
      BY <1>1, <2>1, <2>2, <3>1
    <3>3. g[j - n].key = g[i].key
      BY <2>1, <2>3, <3>1, <3>2
    <3> QED
      BY <2>1, <3>2, <3>3
  <2>5. CASE data[s[n + i].key] = Told(s[n + i])
    BY <2>1, <2>3, <2>5
  <2>6. \/ \E j \in (n + i + 1)..Len(s) : s[j].key = s[n + i].key
        \/ data[s[n + i].key] = Told(s[n + i])
    <3>1. \A l \in 1..Len(s) : \/ \E j \in (l + 1)..Len(s) : s[j].key = s[l].key
                               \/ data[s[l].key] = Told(s[l])
      <4>1. /\ k \in Kinds /\ s = log[k]
            /\ \A l \in 1..Len(log[k]) :
                 \/ \E j \in (l + 1)..Len(log[k]) : log[k][j].key = log[k][l].key
                 \/ data[log[k][l].key] = Told(log[k][l])
        <5>1. \A kind \in Kinds : \A l \in 1..Len(log[kind]) :
                \/ \E j \in (l + 1)..Len(log[kind]) : log[kind][j].key = log[kind][l].key
                \/ data[log[kind][l].key] = Told(log[kind][l])
          BY <1>1 DEF LogTells
        <5> QED
          BY <2>1, <5>1
      <4> QED
        BY <4>1
    <3>2. PICK l \in 1..Len(s) : l = n + i
      BY <2>3
    <3> QED
      BY <3>1, <3>2
  <2> QED
    BY <2>4, <2>5, <2>6
<1>2. StreamInv /\ LogTells => CaughtUp
  BY <1>1 DEF CaughtUp
<1> QED
  BY <1>2, StreamInvHolds, LogTellsHolds, PTL

-----------------------------------------------------------------------------
(***************************************************************************)
(* The server implements the feed.                                         *)
(***************************************************************************)
\* What is left of s behind n elements is g, one element, and t.
Splits(s, n, g, h, t) == Len(h) = 1 /\ g \o h \o t = Rest(s, n)

\* The element that follows g in what is left of s.
LEMMA NextOfRest ==
  ASSUME NEW S, NEW s \in Seq(S), NEW n \in 0..Len(s),
         NEW g \in Seq(S), NEW h \in Seq(S), NEW t \in Seq(S),
         Splits(s, n, g, h, t)
  PROVE  /\ n + Len(g) + 1 \in 1..Len(s)
         /\ g \o h = Append(g, s[n + Len(g) + 1])
<1>1. Len(s) \in Nat /\ Len(g) \in Nat /\ Len(t) \in Nat
  BY LenProperties
<1>2. PICK gh \in Seq(S) : gh = g \o h
  BY ConcatProperties
<1>3. /\ Len(gh) = Len(g) + 1
      /\ \A i \in 1..(Len(g) + 1) : gh[i] = IF i <= Len(g) THEN g[i] ELSE h[i - Len(g)]
  <2>1. /\ Len(g \o h) = Len(g) + Len(h)
        /\ \A i \in 1..(Len(g) + Len(h)) : (g \o h)[i] = IF i <= Len(g) THEN g[i] ELSE h[i - Len(g)]
    BY ConcatProperties
  <2>2. Len(h) = 1
    BY DEF Splits
  <2> QED
    BY <1>2, <2>1, <2>2
<1>4. /\ Len(gh \o t) = Len(g) + 1 + Len(t)
      /\ (gh \o t)[Len(g) + 1] = h[1]
  <2>1. /\ Len(gh \o t) = Len(gh) + Len(t)
        /\ \A i \in 1..(Len(gh) + Len(t)) : (gh \o t)[i] = IF i <= Len(gh) THEN gh[i] ELSE t[i - Len(gh)]
    BY ConcatProperties
  <2>2. /\ Len(g) + 1 \in 1..(Len(gh) + Len(t)) /\ Len(g) + 1 <= Len(gh)
        /\ Len(g) + 1 \in 1..(Len(g) + 1) /\ ~(Len(g) + 1 <= Len(g)) /\ (Len(g) + 1) - Len(g) = 1
    BY <1>1, <1>3
  <2> QED
    BY <1>3, <2>1, <2>2
<1>5. n + 1 <= Len(s)
  <2>1. CASE n = Len(s)
    <3>1. Rest(s, n) = <<>>
      BY <1>1, <2>1, SubSeqEmpty DEF Rest
    <3>2. Len(gh \o t) = 0
      BY <1>2, <3>1, EmptySeq DEF Splits
    <3> QED
      BY <1>1, <1>4, <3>2
  <2> QED
    BY <1>1, <2>1
<1>6. /\ Len(Rest(s, n)) = Len(s) - n
      /\ \A i \in 1..(Len(s) - n) : Rest(s, n)[i] = s[n + i]
  <2>1. \A i \in (n + 1)..Len(s) : s[i] \in S
    BY <1>1, ElementOfSeq
  <2>2. /\ n + 1 \in Int /\ Len(s) \in Int
        /\ Len(s) - (n + 1) + 1 = Len(s) - n
        /\ \A i \in 1..(Len(s) - n) : (n + 1) + i - 1 = n + i
    BY <1>1
  <2>3. /\ Len(SubSeq(s, n + 1, Len(s))) = Len(s) - (n + 1) + 1
        /\ \A i \in 1..(Len(s) - (n + 1) + 1) : SubSeq(s, n + 1, Len(s))[i] = s[(n + 1) + i - 1]
    BY <1>5, <2>1, <2>2, SubSeqProperties
  <2> QED
    BY <2>2, <2>3 DEF Rest
<1>7. gh \o t = Rest(s, n)
  BY <1>2 DEF Splits
<1>8. /\ n + (Len(g) + 1) = n + Len(g) + 1 /\ n + Len(g) + 1 \in 1..Len(s)
      /\ Len(g) + 1 \in 1..(Len(s) - n)
  BY <1>1, <1>4, <1>6, <1>7
<1>9. h[1] = s[n + Len(g) + 1]
  BY <1>4, <1>6, <1>7, <1>8
<1>10. gh = Append(g, h[1])
  <2>1. h[1] \in S
    <3>1. 1 \in 1..Len(h)
      BY DEF Splits
    <3> QED
      BY <3>1, ElementOfSeq
  <2>2. /\ Append(g, h[1]) \in Seq(S) /\ Len(Append(g, h[1])) = Len(g) + 1
        /\ \A i \in 1..Len(g) : Append(g, h[1])[i] = g[i]
        /\ Append(g, h[1])[Len(g) + 1] = h[1]
    BY <2>1, AppendProperties
  <2>3. ASSUME NEW i \in 1..(Len(g) + 1) PROVE gh[i] = Append(g, h[1])[i]
    <3>1. CASE i = Len(g) + 1
      BY <1>1, <1>3, <2>2, <3>1
    <3>2. CASE i # Len(g) + 1
      <4>1. i \in 1..Len(g)
        BY <1>1, <3>2
      <4> QED
        BY <1>1, <1>3, <2>2, <4>1
    <3> QED
      BY <3>1, <3>2
  <2> QED
    BY <1>3, <2>2, <2>3, SeqEqual
<1> QED
  BY <1>2, <1>8, <1>9, <1>10

\* The feed and the server speak of the same events.
LEMMA SameFeedData ==
  F!Events = Events /\ F!Maps = Maps /\ F!Empty = Empty /\ F!Closed = [open |-> FALSE]
BY DEF F!Events, Events, F!Maps, Maps, F!Empty, Empty, F!Closed

LEMMA InitFeeds == Init => F!Init
<1> SUFFICES ASSUME Init PROVE F!Init
  OBVIOUS
<1>1. feedsBar = [w \in Watchers |-> [open |-> FALSE]]
  BY DEF Init, feedsBar, Connected
<1> QED
  BY <1>1, SameFeedData DEF Init, F!Init

LEMMA FeedStutters ==
  ASSUME UNCHANGED <<core, streams, log>> PROVE UNCHANGED F!vars
BY DEF core, streams, F!vars, feedsBar, Connected

\* A mutation publishes the event that tells its change.
LEMMA CommitFeeds ==
  ASSUME StreamInv, NEW c \in Clients, stage[c] = "called", req[c].op \in Mutations,
         NEW obj \in Objects \cup {NoObj}, NEW shown \in Objects, Commit(c, obj, shown),
         F!Tells([type |-> EventType(req[c].op), key |-> req[c].key, obj |-> shown],
                 data[req[c].key], obj)
  PROVE  F!Next
<1>1. Inv /\ up = TRUE
  BY DEF StreamInv, Inv, TypeOK, CoreOK, DownIsIdle
<1>2. req[c].key \in Keys
  BY <1>1 DEF Inv, RequestShape, Requests
<1>3. PICK ev \in Events :
        ev = [type |-> EventType(req[c].op), key |-> req[c].key, obj |-> shown]
  BY <1>2 DEF Events, EventType, Mutations
<1>4. /\ log' = [log EXCEPT ![KindOf[ev.key]] = Append(@, ev)]
      /\ data' = [data EXCEPT ![ev.key] = obj]
  BY <1>3 DEF Commit
<1>5. UNCHANGED feedsBar
  BY DEF Commit, streams, feedsBar, Connected
<1>6. F!Tells(ev, data[ev.key], obj)
  BY <1>3, <1>4
<1>7. F!Publish(ev)
  BY <1>4, <1>5, <1>6 DEF F!Publish
<1> QED
  BY <1>7, SameFeedData DEF F!Next

LEMMA EnterFeeds ==
  ASSUME StreamInv, NEW c \in Clients, Enter(c) PROVE F!Next \/ UNCHANGED F!vars
<1>1. Inv /\ stage[c] = "called"
  BY DEF StreamInv, Enter, Get, List, Refuse, Create, Update, Delete
<1>2. req[c] \in Requests /\ req[c].key \in Keys /\ data \in Maps
  BY <1>1 DEF Inv, TypeOK, CoreOK, RequestShape, Requests
<1>3. CASE Get(c) \/ List(c) \/ Refuse(c)
  BY <1>3, FeedStutters DEF Get, List, Refuse, Return, history
<1>4. CASE Create(c) \/ Update(c)
  <2>1. req[c].obj \in Objects /\ req[c].op \in Mutations
    BY <1>2, <1>4 DEF Create, Update, Requests, Mutations
  <2> QED
    BY <1>1, <1>4, <2>1, CommitFeeds DEF Create, Update, F!Tells, EventType
<1>5. CASE Delete(c)
  <2>1. data[req[c].key] \in Objects /\ req[c].op \in Mutations
    BY <1>2, <1>5 DEF Delete, Maps, Mutations
  <2> QED
    BY <1>1, <1>5, <2>1, CommitFeeds DEF Delete, F!Tells, EventType
<1> QED
  BY <1>3, <1>4, <1>5 DEF Enter

LEMMA HandleFeeds ==
  ASSUME StreamInv, NEW c \in Clients, (\E r \in Requests : Receive(c, r)) \/ Handle(c)
  PROVE  UNCHANGED F!vars
<1>1. UNCHANGED <<data, log, feedsBar>>
  <2>1. UNCHANGED <<data, log, wstage, wkind, since, got>>
    BY DEF Receive, Handle, Reject, Return, Publish, Notify, NotifyDone, Sync, SyncOpen,
           SyncOpenFails, SyncWrite, SyncWriteFails, Release, Respond, core, streams, history
  <2> QED
    BY <2>1 DEF feedsBar, Connected
<1> QED
  BY <1>1 DEF F!vars

\* What the connections do changes one feed at most.
LEMMA OneFeed ==
  ASSUME NEW w \in Watchers,
         \A v \in Watchers : v # w =>
           wstage'[v] = wstage[v] /\ wkind'[v] = wkind[v] /\ since'[v] = since[v] /\ got'[v] = got[v]
  PROVE  feedsBar' = [feedsBar EXCEPT ![w] =
           IF Connected(w)'
             THEN [open |-> TRUE, kind |-> wkind'[w], from |-> since'[w], got |-> got'[w]]
             ELSE [open |-> FALSE]]
BY DEF feedsBar, Connected

\* The event that the client receives is the next of its feed.
LEMMA EncodeFeeds ==
  ASSUME StreamInv, NEW w \in Watchers, Encode(w) PROVE F!Deliver(w)
<1>1. /\ Inv /\ StreamShape /\ StreamExact
      /\ wstage[w] = "encoding" /\ wstage \in [Watchers -> {"off", "streaming", "encoding", "stopping"}]
      /\ got \in [Watchers -> Seq(Events)]
  BY DEF StreamInv, Encode, Inv, TypeOK, StreamsOK
<1>2. /\ wstage'[w] = "streaming" /\ got'[w] = got[w] \o hand[w]
      /\ UNCHANGED <<wkind, since, log, core>>
      /\ \A v \in Watchers : v # w => wstage'[v] = wstage[v] /\ got'[v] = got[v]
  BY <1>1 DEF Encode, history
<1>3. PICK s \in Seq(Events), g \in Seq(Events), h \in Seq(Events), t \in Seq(Events),
           n \in Nat :
        /\ n \in 0..Len(s)
        /\ s = log[wkind[w]] /\ g = got[w] /\ h = hand[w] /\ n = since[w]
        /\ Splits(s, n, g, h, t)
  <2>1. /\ got[w] \in Seq(Events) /\ hand[w] \in Seq(Events) /\ chan[w] \in Seq(Events)
        /\ Pending(w) \in Seq(Events) /\ log[wkind[w]] \in Seq(Events)
        /\ since[w] \in Nat /\ since[w] \in 0..Len(log[wkind[w]])
    BY <1>1, StreamTypes DEF StreamShape
  <2>2. Len(hand[w]) = 1
    BY <1>1 DEF StreamShape
  <2>3. PICK gh \in Seq(Events), c \in Seq(Events), p \in Seq(Events) :
          gh = got[w] \o hand[w] /\ c = chan[w] /\ p = Pending(w)
    BY <2>1, ConcatProperties
  <2>4. gh \o c \o p = gh \o (c \o p) /\ c \o p \in Seq(Events)
    BY ConcatAssociative, ConcatProperties
  <2>5. gh \o c \o p = Rest(log[wkind[w]], since[w])
    BY <1>1, <2>3 DEF StreamExact, Connected, Expected, Rest
  <2>6. PICK t \in Seq(Events) : t = c \o p
    BY <2>4
  <2>7. Splits(log[wkind[w]], since[w], got[w], hand[w], t)
    BY <2>2, <2>3, <2>4, <2>5, <2>6 DEF Splits
  <2> QED
    BY <2>1, <2>6, <2>7
<1>4. /\ n + Len(g) + 1 \in 1..Len(s)
      /\ g \o h = Append(g, s[n + Len(g) + 1])
  <2>1. /\ s \in Seq(Events) /\ n \in 0..Len(s) /\ g \in Seq(Events)
        /\ h \in Seq(Events) /\ t \in Seq(Events) /\ Splits(s, n, g, h, t)
    BY <1>3
  <2> QED
    BY <2>1, NextOfRest
<1>5. feedsBar[w] = [open |-> TRUE, kind |-> wkind[w], from |-> n, got |-> g]
  BY <1>1, <1>3 DEF feedsBar, Connected
<1>6. feedsBar' = [feedsBar EXCEPT ![w] =
        [open |-> TRUE, kind |-> wkind[w], from |-> n, got |-> Append(g, s[n + Len(g) + 1])]]
  BY <1>2, <1>3, <1>4, OneFeed DEF Connected
<1>7. UNCHANGED <<data, log>>
  BY <1>2 DEF core
<1>8. n + Len(g) + 1 <= Len(log[wkind[w]]) /\ s = log[wkind[w]]
  BY <1>3, <1>4
<1> QED
  BY <1>5, <1>6, <1>7, <1>8 DEF F!Deliver, F!Feeding

LEMMA WatcherFeeds ==
  ASSUME StreamInv, NEW w \in Watchers,
         \/ \E kind \in Kinds : Watch(w, kind)
         \/ Stream(w) \/ Disconnect(w) \/ Stop(w)
  PROVE  F!Next \/ UNCHANGED F!vars
<1>1. /\ wstage \in [Watchers -> {"off", "streaming", "encoding", "stopping"}]
      /\ wkind \in [Watchers -> Kinds] /\ since \in [Watchers -> Nat]
      /\ got \in [Watchers -> Seq(Events)] /\ StreamShape
  BY DEF StreamInv, Inv, TypeOK, StreamsOK
<1>2. UNCHANGED <<data, log>>
  <2>1. UNCHANGED <<core, log>>
    BY DEF Watch, Stream, Take, Encode, Disconnect, Stop, Unregister, history
  <2> QED
    BY <2>1 DEF core
<1>3. ASSUME NEW kind \in Kinds, Watch(w, kind) PROVE F!Subscribe(w, kind)
  <2>1. /\ wstage'[w] = "streaming" /\ wkind'[w] = kind /\ since'[w] = Len(log[kind])
        /\ got'[w] = <<>> /\ wstage[w] = "off"
        /\ \A v \in Watchers : v # w =>
             wstage'[v] = wstage[v] /\ wkind'[v] = wkind[v] /\ since'[v] = since[v] /\ got'[v] = got[v]
    BY <1>1, <1>3 DEF Watch, StreamShape
  <2>2. feedsBar' = [feedsBar EXCEPT ![w] =
          [open |-> TRUE, kind |-> kind, from |-> Len(log[kind]), got |-> <<>>]]
    BY <2>1, OneFeed DEF Connected
  <2>3. feedsBar[w] = [open |-> FALSE]
    BY <2>1 DEF feedsBar, Connected
  <2> QED
    BY <1>2, <2>2, <2>3, SameFeedData DEF F!Subscribe, F!Feeding
<1>4. ASSUME Take(w) PROVE UNCHANGED F!vars
  <2>1. UNCHANGED <<wkind, since, got>> /\ \A v \in Watchers : Connected(v)' = Connected(v)
    BY <1>1, <1>4 DEF Take, Connected
  <2> QED
    BY <1>2, <2>1 DEF F!vars, feedsBar
<1>5. ASSUME Disconnect(w) PROVE F!Close(w)
  <2>1. /\ wstage'[w] = "stopping" /\ wstage[w] \in {"streaming", "encoding"}
        /\ \A v \in Watchers : v # w => wstage'[v] = wstage[v]
        /\ UNCHANGED <<wkind, since, got>>
    BY <1>1, <1>5 DEF Disconnect
  <2>2. feedsBar' = [feedsBar EXCEPT ![w] = [open |-> FALSE]]
    BY <2>1, OneFeed DEF Connected
  <2>3. feedsBar[w].open
    BY <2>1 DEF feedsBar, Connected
  <2> QED
    BY <1>2, <2>2, <2>3, SameFeedData DEF F!Close
<1>6. ASSUME Stop(w) PROVE UNCHANGED F!vars
  <2>1. /\ wstage[w] = "stopping" /\ wstage'[w] = "off"
        /\ \A v \in Watchers : v # w =>
             wstage'[v] = wstage[v] /\ wkind'[v] = wkind[v] /\ since'[v] = since[v] /\ got'[v] = got[v]
    BY <1>1, <1>6 DEF Stop, Unregister
  <2>2. feedsBar' = [feedsBar EXCEPT ![w] = [open |-> FALSE]]
    BY <2>1, OneFeed DEF Connected
  <2>3. feedsBar[w] = [open |-> FALSE] /\ feedsBar = [v \in Watchers |-> feedsBar[v]]
    BY <2>1 DEF feedsBar, Connected
  <2>4. UNCHANGED feedsBar
    BY <2>2, <2>3
  <2> QED
    BY <1>2, <2>4 DEF F!vars
<1> QED
  BY <1>3, <1>4, <1>5, <1>6, EncodeFeeds DEF F!Next, Stream

LEMMA ProcessFeeds ==
  ASSUME StreamInv, LogTells, Crash \/ Restart \/ LoadFails PROVE F!Next
<1>1. file \in Maps \cup {Torn} /\ Empty \in Maps
  BY DEF StreamInv, Inv, TypeOK, CoreOK, Empty, Maps
<1>2. CASE Crash
  <2>1. data' \in Maps
    BY <1>1, <1>2 DEF Crash
  <2>2. feedsBar' = [w \in Watchers |-> [open |-> FALSE]]
    BY <1>2 DEF Crash, feedsBar, Connected
  <2>3. F!Reset
    BY <1>2, <2>1, <2>2, SameFeedData DEF Crash, F!Reset
  <2> QED
    BY <2>3 DEF F!Next
<1>3. CASE Restart \/ LoadFails
  <2>1. data' \in Maps /\ UNCHANGED <<log, feedsBar>>
    BY <1>1, <1>3
    DEF Restart, LoadFails, Start, Loaded, streams, feedsBar, Connected
  <2>2. up = FALSE
    BY <1>3 DEF Restart, LoadFails, Start, StreamInv, Inv, TypeOK, CoreOK
  <2>3. feedsBar = [w \in Watchers |-> [open |-> FALSE]]
    BY <2>2 DEF StreamInv, Inv, DownIsIdle, feedsBar, Connected
  <2>4. log = [kind \in Kinds |-> <<>>]
    BY <2>2 DEF LogTells, StreamInv, Inv, TypeOK, HistoryOK
  <2>5. F!Reset
    BY <2>1, <2>3, <2>4, SameFeedData DEF F!Reset
  <2> QED
    BY <2>5 DEF F!Next
<1> QED
  BY <1>2, <1>3

\* Every step of the server is a step of the feed or does not show in it.
LEMMA StepFeeds == StreamInv /\ LogTells /\ [Next]_vars => [F!Next]_F!vars
<1> SUFFICES ASSUME StreamInv, LogTells, [Next]_vars PROVE F!Next \/ UNCHANGED F!vars
  OBVIOUS
<1>1. CASE UNCHANGED vars
  BY <1>1, FeedStutters DEF vars, history
<1> QED
  BY <1>1, EnterFeeds, HandleFeeds, WatcherFeeds, ProcessFeeds DEF Next

\* The server with its store implements the feed: every event tells the change
\* made with it, and each client is given the events of its resource in order.
THEOREM RefinesFeed == Spec => ImplementsFeed
BY InitFeeds, StepFeeds, StreamInvHolds, LogTellsHolds, PTL DEF Spec, ImplementsFeed, F!Spec
=============================================================================
