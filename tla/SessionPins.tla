---------------------------- MODULE SessionPins -----------------------------
(***************************************************************************)
(* The pin of one session and model to the node that served it             *)
(* (src/zen-proxy-rs/src/pool/session_pin.rs), as dispatch and the         *)
(* failure paths use it.  Redis holds the pin for all instances; when it   *)
(* does not answer, an instance keeps the pin in its own memory, and what  *)
(* is there is found whenever Redis has none.                              *)
(***************************************************************************)
EXTENDS Naturals

CONSTANTS
  Instances, \* proxy processes
  Tasks,     \* request tasks of the session
  Home,      \* the instance of each
  Nodes,
  None

PinsAssumption == Home \in [Tasks -> Instances] /\ None \notin Nodes

VARIABLES
  redis,   \* the pin in Redis
  up,      \* Redis answers
  memory,  \* the pin in each instance's memory
  step,      \* "dispatch", or in the middle of lookup, record or clear, or "call"
  node,    \* the node a task has, or is about to record
  sole,    \* clears under way, with Redis done, that no record has crossed
  cleared     \* instances with a finished clear and no record since

vars == <<redis, up, memory, step, node, sole, cleared>>

Pin == Nodes \cup {None}
Steps == {"idle", "lookMemory", "record", "store", "call", "forget"}

TypeOK ==
  /\ redis \in Pin /\ up \in BOOLEAN /\ memory \in [Instances -> Pin]
  /\ step \in [Tasks -> Steps] /\ node \in [Tasks -> Pin]
  /\ sole \subseteq Tasks /\ cleared \subseteq Instances

Init ==
  /\ redis = None /\ up = TRUE
  /\ memory = [i \in Instances |-> None]
  /\ step = [t \in Tasks |-> "idle"]
  /\ node = [t \in Tasks |-> None]
  /\ sole = {} /\ cleared = {}

GoTo(t, s) == step' = [step EXCEPT ![t] = s]
Takes(t, n) == node' = [node EXCEPT ![t] = n]

-----------------------------------------------------------------------------
(* dispatch_excluding: the pinned node when it admits the request, else some  *)
(* other, which is recorded                                                   *)

Follow(t, pin) ==
  \/ pin # None /\ Takes(t, pin) /\ GoTo(t, "call")
  \/ Takes(t, None) /\ GoTo(t, "record")

Lookup(t) ==
  /\ step[t] = "idle"
  /\ IF up /\ redis # None THEN Follow(t, redis)
     ELSE GoTo(t, "lookMemory") /\ UNCHANGED node
  /\ UNCHANGED <<redis, up, memory, sole, cleared>>

LookupMemory(t) ==
  /\ step[t] = "lookMemory"
  /\ Follow(t, memory[Home[t]])
  /\ UNCHANGED <<redis, up, memory, sole, cleared>>

\* record: SETEX, or the instance's memory
Record(t, n) ==
  /\ step[t] = "record"
  /\ Takes(t, n)
  /\ IF up THEN redis' = n /\ GoTo(t, "call") /\ sole' = {} /\ cleared' = {}
     ELSE GoTo(t, "store") /\ UNCHANGED <<redis, sole, cleared>>
  /\ UNCHANGED <<up, memory>>

Store(t) ==
  /\ step[t] = "store"
  /\ memory' = [memory EXCEPT ![Home[t]] = node[t]]
  /\ GoTo(t, "call")
  /\ sole' = {s \in sole : Home[s] # Home[t]}
  /\ cleared' = cleared \ {Home[t]}
  /\ UNCHANGED <<redis, up, node>>

-----------------------------------------------------------------------------
(* The call's end *)

Succeed(t) ==
  /\ step[t] = "call"
  /\ GoTo(t, "idle") /\ Takes(t, None)
  /\ UNCHANGED <<redis, up, memory, sole, cleared>>

\* Mutant of Clear: stops at the pin it found in Redis.
ClearFirst(t) ==
  /\ step[t] = "call"
  /\ Takes(t, None)
  /\ redis' = IF up THEN None ELSE redis
  /\ IF up /\ redis # None
     THEN GoTo(t, "idle") /\ cleared' = cleared \cup {Home[t]} /\ UNCHANGED sole
     ELSE GoTo(t, "forget") /\ sole' = (IF up THEN sole \cup {t} ELSE sole) /\ UNCHANGED cleared
  /\ UNCHANGED <<up, memory>>

\* clear: DEL, then the instance's memory
Clear(t) ==
  /\ step[t] = "call"
  /\ Takes(t, None)
  /\ redis' = IF up THEN None ELSE redis
  /\ GoTo(t, "forget")
  /\ sole' = IF up THEN sole \cup {t} ELSE sole
  /\ UNCHANGED <<up, memory, cleared>>

Forget(t) ==
  /\ step[t] = "forget"
  /\ memory' = [memory EXCEPT ![Home[t]] = None]
  /\ GoTo(t, "idle")
  /\ sole' = sole \ {t}
  /\ cleared' = IF t \in sole THEN cleared \cup {Home[t]} ELSE cleared
  /\ UNCHANGED <<redis, up, node>>

-----------------------------------------------------------------------------
(* Redis *)

\* PIN_TTL_SECS after the record
Expire ==
  /\ redis # None
  /\ redis' = None
  /\ UNCHANGED <<up, memory, step, node, sole, cleared>>

Outage ==
  /\ up' = ~up
  /\ UNCHANGED <<redis, memory, step, node, sole, cleared>>

Task(t) ==
  \/ Lookup(t) \/ LookupMemory(t) \/ Store(t) \/ Succeed(t) \/ Clear(t) \/ Forget(t)
  \/ \E n \in Nodes : Record(t, n)

Next == Expire \/ Outage \/ \E t \in Tasks : Task(t)

Spec == Init /\ [][Next]_vars

-----------------------------------------------------------------------------
(* Properties *)

\* A clear that reached Redis leaves the session no pin on its instance, not the
\* one in memory from an outage either, until a node is recorded again: the
\* failed node is not found again when Redis goes, comes back or lets a newer pin
\* expire (session_pin.rs clear, which goes on after Redis).
PinGone == \A i \in cleared : redis = None /\ memory[i] = None
=============================================================================
