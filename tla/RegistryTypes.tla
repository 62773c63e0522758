--------------------------- MODULE RegistryTypes ----------------------------
(***************************************************************************)
(* The data of the API server's object registry: keys, objects, requests,  *)
(* answers and events.  Shared by the abstract registry (Registry.tla),    *)
(* the abstract watch feed (Feed.tla), the store that implements both      *)
(* (MemoryStore.tla) and the composed models.                              *)
(*                                                                         *)
(* An object is an opaque value: nothing in the store or in the handlers   *)
(* looks inside one, except for the name that the key already carries.     *)
(***************************************************************************)
EXTENDS Naturals

CONSTANTS
  Clients,    \* request goroutines of the API server
  Keys,       \* registry keys, "/registry/<resource>/<name>"
  Kinds,      \* resources: pods, nodes, replicasets, ...
  KindOf,     \* the resource of each key
  Objects,    \* well-formed request bodies
  NoObj,      \* no object under a key, or no body in a request
  Malformed   \* a body that does not decode, or that has no metadata.name

ASSUME RegistryAssumption ==
  /\ Kinds # {}
  /\ KindOf \in [Keys -> Kinds]
  /\ NoObj \notin Objects
  /\ Malformed \notin Objects \cup {NoObj}

Maps == [Keys -> Objects \cup {NoObj}]
Empty == [k \in Keys |-> NoObj]

Mutations == {"create", "update", "delete"}
Reads == {"get", "list"}

\* The routes of registerResourceRoutes; a body only where a handler decodes one.
Requests ==
       [op : {"create", "update"}, key : Keys, obj : Objects \cup {Malformed}]
  \cup [op : {"delete", "get", "list"}, key : Keys, obj : {NoObj}]

NoRequest == [op |-> "none"]

\* What a mutation tells the watch connections of its resource.
Events == [type : {"ADDED", "MODIFIED", "DELETED"}, key : Keys, obj : Objects]

KeysOf(kind) == {k \in Keys : KindOf[k] = kind}

\* The HTTP statuses of the handlers: 201, 200, 409, 404, 400, 500.
Statuses == {"created", "ok", "conflict", "notfound", "invalid", "internal"}

\* An answer is a status and the part of the map it shows.
Reply(status) == [status |-> status, body |-> [k \in {} |-> NoObj]]
NoReply == Reply("none")
=============================================================================
