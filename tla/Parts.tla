------------------------------- MODULE Parts --------------------------------
(***************************************************************************)
(* The node pool, and parts that share no state with it or with each       *)
(* other: delivery with its telemetry, session pins, and the two readers   *)
(* of upstream streams.  A behaviour moves one part; which, it chooses at  *)
(* the start.                                                              *)
(***************************************************************************)
EXTENDS ProxyPool

CONSTANTS
  Tasks, Queue, Ring, Windows, Clock, Notices, Channel, Retries, \* Delivery
  Callers, Instances, Home, PinNodes, None,                      \* SessionPins
  Bodies, MaxFrames,                                             \* UpstreamReader
  MaxEvents, Anywhere                                            \* LegacyStream

VARIABLES
  part,
  queue, dropped, doing, total, successes, head, ring, open, past, now, notices,
  phase, unread, gone, seen, owed, told, outcome, attempt,
  redis, up, memory, step, node, sole, cleared,
  sent, got, buffer, events, flags, ended,
  text, read, done, relayed, over

delivery == <<queue, dropped, doing, total, successes, head, ring, open, past, now, notices,
              phase, unread, gone, seen, owed, told, outcome, attempt>>
pins == <<redis, up, memory, step, node, sole, cleared>>
reader == <<sent, got, buffer, events, flags, ended>>
relay == <<text, read, done, relayed, over>>

D == INSTANCE Delivery
P == INSTANCE SessionPins WITH Tasks <- Callers, Nodes <- PinNodes
U == INSTANCE UpstreamReader
G == INSTANCE LegacyStream

ASSUME PartsAssumption ==
  /\ D!DeliveryAssumption /\ P!PinsAssumption
  /\ U!ReaderAssumption /\ G!LegacyAssumption

-----------------------------------------------------------------------------
Parts == {"pool", "delivery", "pins", "reader", "relay"}

PartsInit ==
  /\ part \in Parts
  /\ Init /\ D!Init /\ P!Init /\ U!Init /\ G!Init

\* All variables but those of one part
Still(p) ==
  /\ UNCHANGED part
  /\ p # "pool" => UNCHANGED vars
  /\ p # "delivery" => UNCHANGED delivery
  /\ p # "pins" => UNCHANGED pins
  /\ p # "reader" => UNCHANGED reader
  /\ p # "relay" => UNCHANGED relay

PartsNext ==
  \/ part = "pool" /\ Next /\ Still("pool")
  \/ part = "delivery" /\ D!Next /\ Still("delivery")
  \/ part = "pins" /\ P!Next /\ Still("pins")
  \/ part = "reader" /\ U!Next /\ Still("reader")
  \/ part = "relay" /\ G!Next /\ Still("relay")

PartsSpec == PartsInit /\ [][PartsNext]_<<part, vars, delivery, pins, reader, relay>>

-----------------------------------------------------------------------------
\* The types of every part.
PartsTypeOK == TypeOK /\ D!TypeOK /\ P!TypeOK /\ U!TypeOK /\ G!TypeOK

\* What the parts promise, under the names that their modules give it.
AnswersAccounted == D!AnswersAccounted
PinGone == P!PinGone

\* How the bytes of a stream are cut into chunks makes no difference to what
\* either reader makes of it (client.rs SseParser, sse.rs SseBuffer; the latter
\* as long as chunks end with lines).
ChunksImmaterial ==
  /\ part = "reader" => U!ReaderFaithful
  /\ part = "relay" => G!RelayFaithful
=============================================================================
