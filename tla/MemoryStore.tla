----------------------------- MODULE MemoryStore ----------------------------
(***************************************************************************)
(* The API server process: the request handlers of                         *)
(* internal/apiserver/server.go over storage.MemoryStore                   *)
(* (internal/storage/memory.go).                                           *)
(*                                                                         *)
(* One goroutine serves each request and one each watch connection.  They  *)
(* share the map `data', the list of registered watchers and the file that *)
(* persists the map, all under one readers/writer lock.  A mutation keeps  *)
(* the write lock from its existence check until os.WriteFile returns: on  *)
(* the way it sends its event to every matching watcher's bounded channel  *)
(* (and blocks on a full one) and truncates and rewrites the file.  Reads, *)
(* the registration of a watcher and its removal hold the lock for one     *)
(* step.                                                                   *)
(*                                                                         *)
(* The process may crash between any two steps and be started again; an    *)
(* interrupted or failed write leaves a file that does not parse, and a    *)
(* start may fail to read one that does.                                   *)
(***************************************************************************)
EXTENDS RegistryTypes, Sequences

CONSTANTS
  Watchers,   \* watch connections
  Leavers,    \* the watch connections whose client may go away
  None,       \* nobody holds the write lock
  Torn,       \* the file's content between truncation and a complete write
  Unknown,    \* the clients cannot tell what is stored under a key
  ReadErrors, \* whether a start may fail to read the file
  Cap,        \* capacity of a watcher's channel (10 in the code)
  MaxCalls,   \* bound: requests in a behaviour
  MaxCrashes  \* bound: crashes in a behaviour

ASSUME StoreAssumption ==
  /\ Leavers \subseteq Watchers
  /\ None \notin Clients
  /\ Torn \notin Maps
  /\ Unknown \notin Objects \cup {NoObj}
  /\ ReadErrors \in BOOLEAN
  /\ Cap \in Nat \ {0}
  /\ MaxCalls \in Nat
  /\ MaxCrashes \in Nat

VARIABLES
  up,         \* the process runs
  data,       \* MemoryStore.data
  file,       \* the file at filePath: a map, or Torn
  holder,     \* the request that holds the write lock
  stage,      \* where each request's handler is
  req,        \* the request it serves
  resp,       \* the answer its store call returned
  event,      \* the event the lock holder publishes
  at,         \* notifyWatchers' loop: index of the next watcher
  watchers,   \* MemoryStore.watchers, a list
  wstage,     \* where each watch connection's handleWatch is
  wkind,      \* the resource it watches
  chan,       \* memoryWatcher.resultChan
  hand,       \* the event handleWatch took from the channel and encodes
  calls,      \* requests so far
  crashes     \* crashes so far

(***************************************************************************)
(* History variables: what the properties compare the state with.          *)
(***************************************************************************)
VARIABLES
  acked,      \* per key, what the last successful mutation left there
  wiped,      \* some start had no use of the file
  log,        \* per resource, the events of its mutations since the start
  since,      \* per watch connection, the length of its log when it registered
  got         \* per watch connection, the events its client received

core == <<up, data, file, holder>>
requests == <<stage, req, resp>>
publication == <<event, at>>
streams == <<watchers, wstage, wkind, chan, hand, since, got>>
history == <<acked, wiped, log>>
bounds == <<calls, crashes>>
vars == <<core, requests, publication, streams, history, bounds>>

-----------------------------------------------------------------------------
Stages == {"idle", "called", "notify", "sync", "write", "returned"}

\* Stages in which the request holds the write lock.
Locked == {"notify", "sync", "write"}

EventType(op) ==
  CASE op = "create" -> "ADDED"
    [] op = "update" -> "MODIFIED"
    [] op = "delete" -> "DELETED"

NoEvent == [type |-> "none"]

\* What MemoryStore.load makes of the file it has read: a torn one is reported
\* as a warning and leaves the map empty.
Loaded(f) == IF f = Torn THEN Empty ELSE f

Init ==
  /\ up = TRUE
  /\ data = Empty
  /\ file = Empty
  /\ holder = None
  /\ stage = [c \in Clients |-> "idle"]
  /\ req = [c \in Clients |-> NoRequest]
  /\ resp = [c \in Clients |-> NoReply]
  /\ event = NoEvent
  /\ at = 1
  /\ watchers = <<>>
  /\ wstage = [w \in Watchers |-> "off"]
  /\ wkind = [w \in Watchers |-> CHOOSE kind \in Kinds : TRUE]
  /\ chan = [w \in Watchers |-> <<>>]
  /\ hand = [w \in Watchers |-> <<>>]
  /\ calls = 0
  /\ crashes = 0
  /\ acked = Empty
  /\ wiped = FALSE
  /\ log = [kind \in Kinds |-> <<>>]
  /\ since = [w \in Watchers |-> 0]
  /\ got = [w \in Watchers |-> <<>>]

-----------------------------------------------------------------------------
(***************************************************************************)
(* Requests.                                                               *)
(***************************************************************************)
\* An HTTP request reaches its handler.
Receive(c, r) ==
  /\ up
  /\ calls < MaxCalls
  /\ stage[c] = "idle"
  /\ stage' = [stage EXCEPT ![c] = "called"]
  /\ req' = [req EXCEPT ![c] = r]
  /\ calls' = calls + 1
  /\ UNCHANGED <<core, resp, publication, streams, history, crashes>>

\* The store call of c returns reply, without having changed the map.
Return(c, reply) ==
  /\ stage' = [stage EXCEPT ![c] = "returned"]
  /\ resp' = [resp EXCEPT ![c] = reply]
  /\ UNCHANGED <<core, req, publication, streams, history, bounds>>

\* 400: the body does not decode, or a created object has no name.
Reject(c) ==
  /\ stage[c] = "called"
  /\ req[c].op \in {"create", "update"}
  /\ req[c].obj = Malformed
  /\ Return(c, Reply("invalid"))

\* Mutant of Get: it does not take the read lock.
GetWithoutLock(c) ==
  /\ stage[c] = "called"
  /\ req[c].op = "get"
  /\ data[req[c].key] # NoObj
  /\ Return(c, [status |-> "ok", body |-> [k \in {req[c].key} |-> data[k]]])

\* MemoryStore.Get and List, under the read lock.
Get(c) ==
  /\ stage[c] = "called"
  /\ req[c].op = "get"
  /\ holder = None
  /\ \/ /\ data[req[c].key] = NoObj
        /\ Return(c, Reply("notfound"))
     \/ /\ data[req[c].key] # NoObj
        /\ Return(c, [status |-> "ok",
                      body |-> [k \in {req[c].key} |-> data[k]]])

List(c) ==
  /\ stage[c] = "called"
  /\ req[c].op = "list"
  /\ holder = None
  /\ Return(c, [status |-> "ok",
                body |-> [k \in KeysOf(KindOf[req[c].key]) |-> data[k]]])

\* The existence checks at the head of Create, Update and Delete.
Refuse(c) ==
  /\ stage[c] = "called"
  /\ holder = None
  /\ \/ /\ req[c].op = "create"
        /\ req[c].obj # Malformed
        /\ data[req[c].key] # NoObj
        /\ Return(c, Reply("conflict"))
     \/ /\ req[c].op \in {"update", "delete"}
        /\ req[c].obj # Malformed
        /\ data[req[c].key] = NoObj
        /\ Return(c, Reply("notfound"))

\* c has taken the lock and passed the check: it stores obj under the key of
\* its request and starts to publish the event that carries `shown'.
Commit(c, obj, shown) ==
  LET e == [type |-> EventType(req[c].op), key |-> req[c].key, obj |-> shown] IN
  /\ holder = None
  /\ holder' = c
  /\ data' = [data EXCEPT ![req[c].key] = obj]
  /\ stage' = [stage EXCEPT ![c] = "notify"]
  /\ event' = e
  /\ at' = 1
  /\ log' = [log EXCEPT ![KindOf[e.key]] = Append(@, e)]
  /\ acked' = [acked EXCEPT ![req[c].key] = Unknown]
  /\ UNCHANGED <<up, file, req, resp, streams, wiped, bounds>>

Create(c) ==
  /\ stage[c] = "called"
  /\ req[c].op = "create"
  /\ req[c].obj # Malformed
  /\ data[req[c].key] = NoObj
  /\ Commit(c, req[c].obj, req[c].obj)

Update(c) ==
  /\ stage[c] = "called"
  /\ req[c].op = "update"
  /\ req[c].obj # Malformed
  /\ data[req[c].key] # NoObj
  /\ Commit(c, req[c].obj, req[c].obj)

\* Mutant of Delete: it reads the old object after it removed it.
DeleteThenRead(c) ==
  /\ stage[c] = "called"
  /\ req[c].op = "delete"
  /\ data[req[c].key] # NoObj
  /\ Commit(c, NoObj, NoObj)

\* The DELETED event carries the object read before it is removed.
Delete(c) ==
  /\ stage[c] = "called"
  /\ req[c].op = "delete"
  /\ data[req[c].key] # NoObj
  /\ Commit(c, NoObj, data[req[c].key])

\* Mutant of Notify: an event that finds the channel full is dropped.
NotifyOrDrop(c) ==
  /\ stage[c] = "notify"
  /\ at <= Len(watchers)
  /\ LET w == watchers[at] IN
       IF wkind[w] = KindOf[event.key] /\ Len(chan[w]) < Cap
         THEN chan' = [chan EXCEPT ![w] = Append(@, event)]
         ELSE UNCHANGED chan
  /\ at' = at + 1
  /\ UNCHANGED <<core, requests, event, watchers, wstage, wkind, hand, since,
                 got, history, bounds>>

\* One iteration of notifyWatchers' loop: a send to a full channel blocks.
Notify(c) ==
  /\ stage[c] = "notify"
  /\ at <= Len(watchers)
  /\ LET w == watchers[at] IN
       \/ /\ wkind[w] = KindOf[event.key]
          /\ Len(chan[w]) < Cap
          /\ chan' = [chan EXCEPT ![w] = Append(@, event)]
       \/ /\ wkind[w] # KindOf[event.key]
          /\ UNCHANGED chan
  /\ at' = at + 1
  /\ UNCHANGED <<core, requests, event, watchers, wstage, wkind, hand, since,
                 got, history, bounds>>

NotifyDone(c) ==
  /\ stage[c] = "notify"
  /\ at > Len(watchers)
  /\ stage' = [stage EXCEPT ![c] = "sync"]
  /\ UNCHANGED <<core, req, resp, publication, streams, history, bounds>>

\* The store call of the lock holder c returns and the lock is released; ack
\* is what the client now knows of the key.
Release(c, reply, ack) ==
  /\ holder' = None
  /\ stage' = [stage EXCEPT ![c] = "returned"]
  /\ resp' = [resp EXCEPT ![c] = reply]
  /\ event' = NoEvent
  /\ at' = 1
  /\ acked' = [acked EXCEPT ![req[c].key] = ack]
  /\ UNCHANGED <<up, data, req, streams, wiped, log, bounds>>

\* os.WriteFile opens and truncates the file ...
SyncOpen(c) ==
  /\ stage[c] = "sync"
  /\ file' = Torn
  /\ stage' = [stage EXCEPT ![c] = "write"]
  /\ UNCHANGED <<up, data, holder, req, resp, publication, streams, history,
                 bounds>>

\* Mutant of SyncOpenFails: the error is dropped.
SyncErrorDropped(c) ==
  /\ stage[c] = "sync"
  /\ Release(c, Reply("ok"), data[req[c].key])
  /\ UNCHANGED file

\* Mutant of SyncOpenFails: the error path does not unlock.
SyncErrorKeepsLock(c) ==
  /\ stage[c] = "sync"
  /\ Return(c, Reply("internal"))

\* ... or cannot open it: the change stays in memory, the client gets 500.
SyncOpenFails(c) ==
  /\ stage[c] = "sync"
  /\ Release(c, Reply("internal"), Unknown)
  /\ UNCHANGED file

SyncWrite(c) ==
  /\ stage[c] = "write"
  /\ file' = data
  /\ Release(c, Reply(IF req[c].op = "create" THEN "created" ELSE "ok"),
             data[req[c].key])

\* A failed write leaves the truncated file behind.
SyncWriteFails(c) ==
  /\ stage[c] = "write"
  /\ Release(c, Reply("internal"), Unknown)
  /\ UNCHANGED file

\* The handler renders the answer.
Respond(c) ==
  /\ stage[c] = "returned"
  /\ stage' = [stage EXCEPT ![c] = "idle"]
  /\ req' = [req EXCEPT ![c] = NoRequest]
  /\ resp' = [resp EXCEPT ![c] = NoReply]
  /\ UNCHANGED <<core, publication, streams, history, bounds>>

-----------------------------------------------------------------------------
(***************************************************************************)
(* Watch connections.                                                      *)
(***************************************************************************)
\* Store.Watch registers the connection at the end of the list.
Watch(w, kind) ==
  /\ up
  /\ wstage[w] = "off"
  /\ holder = None
  /\ watchers' = Append(watchers, w)
  /\ wstage' = [wstage EXCEPT ![w] = "streaming"]
  /\ wkind' = [wkind EXCEPT ![w] = kind]
  /\ since' = [since EXCEPT ![w] = Len(log[kind])]
  /\ UNCHANGED <<core, requests, publication, chan, hand, got, history, bounds>>

\* handleWatch takes an event from the channel and starts to encode it.
Take(w) ==
  /\ wstage[w] = "streaming"
  /\ chan[w] # <<>>
  /\ wstage' = [wstage EXCEPT ![w] = "encoding"]
  /\ hand' = [hand EXCEPT ![w] = <<Head(chan[w])>>]
  /\ chan' = [chan EXCEPT ![w] = Tail(@)]
  /\ UNCHANGED <<core, requests, publication, watchers, wkind, since, got,
                 history, bounds>>

\* The client received the event.
Encode(w) ==
  /\ wstage[w] = "encoding"
  /\ wstage' = [wstage EXCEPT ![w] = "streaming"]
  /\ got' = [got EXCEPT ![w] = @ \o hand[w]]
  /\ hand' = [hand EXCEPT ![w] = <<>>]
  /\ UNCHANGED <<core, requests, publication, watchers, wkind, chan, since,
                 history, bounds>>

\* The client is gone: the loop leaves on the request's context, or on the
\* error of Encode.  The deferred Stop still has to take the lock.
Disconnect(w) ==
  /\ w \in Leavers
  /\ wstage[w] \in {"streaming", "encoding"}
  /\ wstage' = [wstage EXCEPT ![w] = "stopping"]
  /\ hand' = [hand EXCEPT ![w] = <<>>]
  /\ UNCHANGED <<core, requests, publication, watchers, wkind, chan, since,
                 got, history, bounds>>

\* The effect of memoryWatcher.Stop: w leaves the list, its channel is closed.
Unregister(w) ==
  /\ wstage[w] = "stopping"
  /\ \E i \in 1..Len(watchers) :
       /\ watchers[i] = w
       /\ watchers' = SubSeq(watchers, 1, i - 1)
                        \o SubSeq(watchers, i + 1, Len(watchers))
  /\ wstage' = [wstage EXCEPT ![w] = "off"]
  /\ chan' = [chan EXCEPT ![w] = <<>>]
  /\ got' = [got EXCEPT ![w] = <<>>]
  /\ since' = [since EXCEPT ![w] = 0]
  /\ UNCHANGED <<core, requests, publication, wkind, hand, history, bounds>>

\* Mutant of Stop: it does not take the lock.
StopWithoutLock(w) == Unregister(w)

\* memoryWatcher.Stop waits for the write lock.
Stop(w) == holder = None /\ Unregister(w)

-----------------------------------------------------------------------------
(***************************************************************************)
(* The process.                                                            *)
(***************************************************************************)
\* Everything but the file is lost: requests, connections, the map.
Crash ==
  /\ up
  /\ crashes < MaxCrashes
  /\ up' = FALSE
  /\ data' = Empty
  /\ holder' = None
  /\ stage' = [c \in Clients |-> "idle"]
  /\ req' = [c \in Clients |-> NoRequest]
  /\ resp' = [c \in Clients |-> NoReply]
  /\ event' = NoEvent
  /\ at' = 1
  /\ watchers' = <<>>
  /\ wstage' = [w \in Watchers |-> "off"]
  /\ chan' = [w \in Watchers |-> <<>>]
  /\ hand' = [w \in Watchers |-> <<>>]
  /\ since' = [w \in Watchers |-> 0]
  /\ got' = [w \in Watchers |-> <<>>]
  /\ log' = [kind \in Kinds |-> <<>>]
  /\ crashes' = crashes + 1
  /\ UNCHANGED <<file, wkind, acked, wiped, calls>>

\* NewMemoryStore has the map m when the server serves.
Start(m) ==
  /\ ~up
  /\ up' = TRUE
  /\ data' = m
  /\ UNCHANGED <<file, holder, requests, publication, streams, acked, log,
                 bounds>>

\* It loads the file,
Restart ==
  /\ Start(Loaded(file))
  /\ wiped' = (wiped \/ file = Torn)

\* or os.ReadFile fails on a file that is there, which is a warning too: the
\* next sync writes the map over the file.
LoadFails ==
  /\ ReadErrors
  /\ Start(Empty)
  /\ wiped' = TRUE

-----------------------------------------------------------------------------
\* The steps of a request that wait for the lock, and the others.
Enter(c) == Get(c) \/ List(c) \/ Refuse(c) \/ Create(c) \/ Update(c) \/ Delete(c)

Publish(c) == Notify(c) \/ NotifyDone(c)

Sync(c) ==
  SyncOpen(c) \/ SyncOpenFails(c) \/ SyncWrite(c) \/ SyncWriteFails(c)

Handle(c) == Reject(c) \/ Publish(c) \/ Sync(c) \/ Respond(c)

Stream(w) == Take(w) \/ Encode(w)

Next ==
  \/ \E c \in Clients :
       \/ \E r \in Requests : Receive(c, r)
       \/ Enter(c)
       \/ Handle(c)
  \/ \E w \in Watchers :
       \/ \E kind \in Kinds : Watch(w, kind)
       \/ Stream(w)
       \/ Disconnect(w)
       \/ Stop(w)
  \/ Crash
  \/ Restart \/ LoadFails

Spec == Init /\ [][Next]_vars

(***************************************************************************)
(* The Go scheduler runs every goroutine that can run (weak fairness), and *)
(* sync.RWMutex hands the lock to the waiter that has waited longest, so a *)
(* goroutine is not passed over for ever (strong fairness of the steps     *)
(* that take the lock).  A connected watch client reads, or its connection *)
(* breaks.  Nothing obliges clients to send requests or to disconnect.     *)
(***************************************************************************)
Fairness ==
  /\ \A c \in Clients : WF_vars(Handle(c)) /\ SF_vars(Enter(c))
  /\ \A w \in Watchers : WF_vars(Stream(w)) /\ SF_vars(Stop(w))
  /\ WF_vars(Restart)

FairSpec == Spec /\ Fairness

-----------------------------------------------------------------------------
(***************************************************************************)
(* Properties.                                                             *)
(***************************************************************************)
Answers == [status : Statuses \cup {"none"},
            body : UNION {[K -> Objects \cup {NoObj}] : K \in SUBSET Keys}]

CoreOK ==
  /\ up \in BOOLEAN
  /\ data \in Maps
  /\ file \in Maps \cup {Torn}
  /\ holder \in Clients \cup {None}

RequestsOK ==
  /\ stage \in [Clients -> Stages]
  /\ req \in [Clients -> Requests \cup {NoRequest}]
  /\ resp \in [Clients -> Answers]

PublicationOK ==
  /\ event \in Events \cup {NoEvent}
  /\ at \in Nat \ {0}

StreamsOK ==
  /\ watchers \in Seq(Watchers)
  /\ wstage \in [Watchers -> {"off", "streaming", "encoding", "stopping"}]
  /\ wkind \in [Watchers -> Kinds]
  /\ chan \in [Watchers -> Seq(Events)]
  /\ hand \in [Watchers -> Seq(Events)]
  /\ since \in [Watchers -> Nat]
  /\ got \in [Watchers -> Seq(Events)]

HistoryOK ==
  /\ acked \in [Keys -> Objects \cup {NoObj, Unknown}]
  /\ wiped \in BOOLEAN
  /\ log \in [Kinds -> Seq(Events)]

BoundsOK == calls \in 0..MaxCalls /\ crashes \in 0..MaxCrashes

\* The type of every variable of the server and its store.
TypeOK ==
  CoreOK /\ RequestsOK /\ PublicationOK /\ StreamsOK /\ HistoryOK /\ BoundsOK

\* One mutation at a time is between its existence check and the return of its
\* store call, and it holds the lock.
WriterExclusion == \A c \in Clients : stage[c] \in Locked <=> holder = c

\* A handler at work serves a request of the API; past the existence check it
\* is a mutation whose body decoded.
RequestShape ==
  \A c \in Clients :
    /\ stage[c] # "idle" => req[c] \in Requests
    /\ stage[c] \in Locked => /\ req[c].op \in Mutations
                              /\ req[c].obj # Malformed

\* While an event is being sent it is the lock holder's.
EventShape == \A c \in Clients : stage[c] = "notify" => event \in Events

\* No handler and no connection outlives the process.
DownIsIdle ==
  ~up => /\ \A c \in Clients : stage[c] = "idle"
         /\ \A w \in Watchers : wstage[w] = "off"

\* The inductive invariant of the server: the lock protects what it should.
Inv == TypeOK /\ WriterExclusion /\ RequestShape /\ EventShape /\ DownIsIdle

\* Unless a start of the server had no use of the file, an acknowledged value is
\* both in the map the server serves and in every file that parses, whatever
\* crashes, restarts and failed writes there were: sync writes the whole map
\* before the store call returns nil, no other mutation comes in between, and
\* load brings the same map back.
AckedKept ==
  ~wiped =>
    \A k \in Keys : acked[k] # Unknown =>
      /\ up => data[k] = acked[k]
      /\ file # Torn => file[k] = acked[k]

\* The event the lock holder has logged but not yet sent to w.
Pending(w) ==
  IF /\ \E c \in Clients : stage[c] = "notify"
     /\ KindOf[event.key] = wkind[w]
     /\ \E i \in at..Len(watchers) : watchers[i] = w
    THEN <<event>>
    ELSE <<>>

\* The events of its resource published since w registered.
Expected(w) == SubSeq(log[wkind[w]], since[w] + 1, Len(log[wkind[w]]))

Connected(w) == wstage[w] \in {"streaming", "encoding"}

\* A connected watch client receives exactly the events of its resource that
\* were published since it registered, each once and in the order in which
\* the mutations took the lock: what it received, the event being encoded, its
\* channel and the event on the way to it are that sequence.  Registrations
\* and removals of other watchers between two events lose or repeat nothing.
StreamExact ==
  \A w \in Watchers :
    Connected(w) => got[w] \o hand[w] \o chan[w] \o Pending(w) = Expected(w)

\* What an event says is now under its key.
Told(e) == IF e.type = "DELETED" THEN NoObj ELSE e.obj

\* A connected watch client that nothing is on its way to, and that goes by the
\* last event it received of each key, has what the server has: no order of
\* mutations, failed writes and other connections leaves it with an old object.
CaughtUp ==
  \A w \in Watchers :
    Connected(w) /\ hand[w] = <<>> /\ chan[w] = <<>> /\ Pending(w) = <<>> =>
      \A i \in 1..Len(got[w]) :
        \/ \E j \in (i + 1)..Len(got[w]) : got[w][j].key = got[w][i].key
        \/ data[got[w][i].key] = Told(got[w][i])

\* The server implements the contract of the registry: a request is one
\* instant, mutations are serial, success is answered only for a saved map.
savedBar == Loaded(file)

phaseBar ==
  [c \in Clients |-> IF stage[c] \in Locked THEN "applied" ELSE stage[c]]

R == INSTANCE Registry WITH
  serving <- up, objects <- data, saved <- savedBar, phase <- phaseBar,
  call <- req, answer <- resp

\* Every behaviour of the server and its store is one of the registry.
ImplementsRegistry == R!Spec

\* To its watch clients the server is a feed: Take, Notify and the lock do not
\* show, and a connection is over for its client before it is unregistered.
feedsBar ==
  [w \in Watchers |->
     IF Connected(w)
       THEN [open |-> TRUE, kind |-> wkind[w], from |-> since[w], got |-> got[w]]
       ELSE [open |-> FALSE]]

F == INSTANCE Feed WITH
  objects <- data, published <- log, feeds <- feedsBar

\* Every event tells the change of the map that is made in the same step, the
\* map changes in no other way, and each connected client is given the events
\* of its resource one at a time, in the order of the changes.
ImplementsFeed == F!Spec

\* A request is answered: its handler never waits for ever, neither for the
\* lock nor for a watcher's channel.
RequestsReturn ==
  \A c \in Clients : stage[c] # "idle" ~> stage[c] = "idle"

\* A client that stays connected receives every event of its resource: a
\* full channel delays the mutation that sends to it, and loses nothing.
EventsReachWatchers ==
  \A w \in Watchers : Connected(w) ~> ~Connected(w) \/ got[w] = Expected(w)
=============================================================================
