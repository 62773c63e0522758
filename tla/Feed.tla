-------------------------------- MODULE Feed --------------------------------
(***************************************************************************)
(* What the API server promises its watch clients: Store.Watch of          *)
(* internal/storage/interface.go ("a channel that receives events for      *)
(* changes to objects"), seen through handleWatch.                         *)
(*                                                                         *)
(* The objects change only by publishing an event that tells the change:   *)
(* whoever applies the published events in order has the objects.  A watch *)
(* client is given the published events of its resource one by one, from   *)
(* the moment it subscribed, with none skipped, repeated or swapped.  No   *)
(* lock, list of watchers or channel is visible.                           *)
(*                                                                         *)
(* MemoryStore.tla is the detailed model and implements this module.       *)
(***************************************************************************)
EXTENDS RegistryTypes, Sequences

CONSTANT Watchers   \* watch connections

VARIABLES
  objects,    \* the map the clients read and change
  published,  \* per resource, the events since the server started
  feeds       \* per watch connection: closed, or what its client was given

vars == <<objects, published, feeds>>

-----------------------------------------------------------------------------
Closed == [open |-> FALSE]

\* A feed of kind that starts behind the first `from' events.
Feeding(kind, from, got) ==
  [open |-> TRUE, kind |-> kind, from |-> from, got |-> got]

Init ==
  /\ objects = Empty
  /\ published = [kind \in Kinds |-> <<>>]
  /\ feeds = [w \in Watchers |-> Closed]

\* What the event e tells of its key: there was nothing before an ADDED, and a
\* DELETED carries the object that was there.
Tells(e, before, after) ==
  \/ e.type = "ADDED" /\ before = NoObj /\ after = e.obj
  \/ e.type = "MODIFIED" /\ before # NoObj /\ after = e.obj
  \/ e.type = "DELETED" /\ before = e.obj /\ after = NoObj

\* The objects change by one event, which is published.
Publish(e) ==
  /\ published' = [published EXCEPT ![KindOf[e.key]] = Append(@, e)]
  /\ \E after \in Objects \cup {NoObj} :
       /\ Tells(e, objects[e.key], after)
       /\ objects' = [objects EXCEPT ![e.key] = after]
  /\ UNCHANGED feeds

\* A new feed owes the events published from now on.
Subscribe(w, kind) ==
  /\ feeds[w] = Closed
  /\ feeds' = [feeds EXCEPT ![w] = Feeding(kind, Len(published[kind]), <<>>)]
  /\ UNCHANGED <<objects, published>>

\* The client is given the next event, and only that one.
Deliver(w) ==
  /\ feeds[w].open
  /\ LET next == feeds[w].from + Len(feeds[w].got) + 1 IN
       /\ next <= Len(published[feeds[w].kind])
       /\ feeds' = [feeds EXCEPT ![w] =
                      Feeding(@.kind, @.from,
                              Append(@.got, published[@.kind][next]))]
  /\ UNCHANGED <<objects, published>>

\* Only the end of the connection ends a feed.
Close(w) ==
  /\ feeds[w].open
  /\ feeds' = [feeds EXCEPT ![w] = Closed]
  /\ UNCHANGED <<objects, published>>

\* The server goes down or is started.  What it then has is the matter of
\* Registry.tla.
Reset ==
  /\ published' = [kind \in Kinds |-> <<>>]
  /\ feeds' = [w \in Watchers |-> Closed]
  /\ objects' \in Maps

Next ==
  \/ \E e \in Events : Publish(e)
  \/ \E w \in Watchers :
       \/ \E kind \in Kinds : Subscribe(w, kind)
       \/ Deliver(w)
       \/ Close(w)
  \/ Reset

Spec == Init /\ [][Next]_vars
=============================================================================
