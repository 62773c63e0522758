------------------------------ MODULE Registry ------------------------------
(***************************************************************************)
(* What the API server's object registry promises its clients: the         *)
(* contract of storage.Store (internal/storage/interface.go), seen through *)
(* the HTTP handlers of internal/apiserver/server.go.                      *)
(*                                                                         *)
(* The registry is one map from keys to objects.  A request is a call, a   *)
(* single instant at which it reads or changes the map, and an answer.     *)
(* Mutations are serial: from the instant a mutation has changed the map   *)
(* until the store returns, no other request touches the map.  A mutation  *)
(* is answered with success only if the saved copy is exactly the map at   *)
(* that moment; after a crash the registry starts again with the saved     *)
(* copy, or with nothing when that cannot be read.                         *)
(*                                                                         *)
(* MemoryStore.tla is the detailed model and implements this module.       *)
(***************************************************************************)
EXTENDS RegistryTypes

VARIABLES
  serving,    \* the server runs
  objects,    \* the map clients read and change
  saved,      \* the map a start would bring back
  phase,      \* progress of each client's request
  call,       \* the request of each client
  answer      \* the status and body decided for each client

vars == <<serving, objects, saved, phase, call, answer>>

-----------------------------------------------------------------------------
\* The keys a read returns: one for Get, the resource's for List.
Footprint(r) == IF r.op = "list" THEN KeysOf(KindOf[r.key]) ELSE {r.key}

Exists(m, k) == m[k] # NoObj

\* Store.Create fails on an existing key, Update and Delete on a missing one.
Admitted(m, r) ==
  \/ r.op = "create" /\ ~Exists(m, r.key)
  \/ r.op \in {"update", "delete"} /\ Exists(m, r.key)

\* The map after an admitted mutation: a delete carries no body.
After(m, r) == [m EXCEPT ![r.key] = r.obj]

\* The answer to a request the map m does not let through, and to a read.
Refusal(m, r) ==
  IF r.op = "create" THEN Reply("conflict") ELSE Reply("notfound")

ReadReply(m, r) ==
  IF r.op = "get" /\ ~Exists(m, r.key)
    THEN Reply("notfound")
    ELSE [status |-> "ok", body |-> [k \in Footprint(r) |-> m[k]]]

Success(r) == IF r.op = "create" THEN Reply("created") ELSE Reply("ok")

-----------------------------------------------------------------------------
Init ==
  /\ serving = TRUE
  /\ objects = Empty
  /\ saved = Empty
  /\ phase = [c \in Clients |-> "idle"]
  /\ call = [c \in Clients |-> NoRequest]
  /\ answer = [c \in Clients |-> NoReply]

\* No mutation is between its change of the map and its return.
Quiet == \A c \in Clients : phase[c] # "applied"

Call(c, r) ==
  /\ serving
  /\ phase[c] = "idle"
  /\ phase' = [phase EXCEPT ![c] = "called"]
  /\ call' = [call EXCEPT ![c] = r]
  /\ UNCHANGED <<serving, objects, saved, answer>>

\* Everything that leaves the map alone: a body that does not decode (which
\* needs no store), a read, a mutation that is not admitted.
Answer(c) ==
  /\ phase[c] = "called"
  /\ \/ /\ call[c].obj = Malformed
        /\ answer' = [answer EXCEPT ![c] = Reply("invalid")]
     \/ /\ call[c].op \in Reads
        /\ Quiet
        /\ answer' = [answer EXCEPT ![c] = ReadReply(objects, call[c])]
     \/ /\ call[c].op \in Mutations
        /\ call[c].obj # Malformed
        /\ Quiet
        /\ ~Admitted(objects, call[c])
        /\ answer' = [answer EXCEPT ![c] = Refusal(objects, call[c])]
  /\ phase' = [phase EXCEPT ![c] = "returned"]
  /\ UNCHANGED <<serving, objects, saved, call>>

Apply(c) ==
  /\ phase[c] = "called"
  /\ call[c].op \in Mutations
  /\ call[c].obj # Malformed
  /\ Quiet
  /\ Admitted(objects, call[c])
  /\ objects' = After(objects, call[c])
  /\ phase' = [phase EXCEPT ![c] = "applied"]
  /\ UNCHANGED <<serving, saved, call, answer>>

\* The saved copy is destroyed before it is rewritten.
Truncate(c) ==
  /\ phase[c] = "applied"
  /\ saved' = Empty
  /\ UNCHANGED <<serving, objects, phase, call, answer>>

\* Success is returned in the step that completes the saved copy.
Commit(c) ==
  /\ phase[c] = "applied"
  /\ saved' = objects
  /\ answer' = [answer EXCEPT ![c] = Success(call[c])]
  /\ phase' = [phase EXCEPT ![c] = "returned"]
  /\ UNCHANGED <<serving, objects, call>>

\* The change stays in the map though it could not be saved.
Fail(c) ==
  /\ phase[c] = "applied"
  /\ answer' = [answer EXCEPT ![c] = Reply("internal")]
  /\ phase' = [phase EXCEPT ![c] = "returned"]
  /\ UNCHANGED <<serving, objects, saved, call>>

Respond(c) ==
  /\ phase[c] = "returned"
  /\ phase' = [phase EXCEPT ![c] = "idle"]
  /\ call' = [call EXCEPT ![c] = NoRequest]
  /\ answer' = [answer EXCEPT ![c] = NoReply]
  /\ UNCHANGED <<serving, objects, saved>>

\* A crash drops every request and the map.
Crash ==
  /\ serving
  /\ serving' = FALSE
  /\ objects' = Empty
  /\ phase' = [c \in Clients |-> "idle"]
  /\ call' = [c \in Clients |-> NoRequest]
  /\ answer' = [c \in Clients |-> NoReply]
  /\ UNCHANGED saved

\* The saved copy comes back, or cannot be read; it is there until the next
\* mutation either way.
Start ==
  /\ ~serving
  /\ serving' = TRUE
  /\ objects' \in {saved, Empty}
  /\ UNCHANGED <<saved, phase, call, answer>>

Next ==
  \/ \E c \in Clients :
       \/ \E r \in Requests : Call(c, r)
       \/ Answer(c) \/ Apply(c) \/ Truncate(c) \/ Commit(c) \/ Fail(c)
       \/ Respond(c)
  \/ Crash \/ Start

Spec == Init /\ [][Next]_vars
=============================================================================
