------------------------------- MODULE MCKernel -------------------------------
(* A small instance of Kernel for TLC: every short conversation with calls   *)
(* and results in any order, and some long ones; two attempts, two events of *)
(* an upstream stream before it ends.                                        *)
EXTENDS Kernel, ToolRepair, TLC

Ask(mark, size)  == Message("user", <<Text(1, size, mark)>>)
Says(size)       == Message("assistant", <<Text(0, size, "plain")>>)
System           == Message("system", <<Text(0, 1, "plain")>>)
Calling(ids)     == Message("assistant", [n \in DOMAIN ids |-> Use(ids[n], ids[n])])
Outcome(id, size)  == Message("tool", <<Result(id, id, size)>>)
Results(ids)     == Message("user", [n \in DOMAIN ids |-> Result(ids[n], ids[n], 1)])

Asked(Replies, n) ==
  {<<Ask("plain", 1)>> \o tail : tail \in UNION {[1..k -> Replies] : k \in 0..n}}

\* Any order of calls and results, those without an id among them.
ChatHistories ==
  Asked({Ask("plain", 1), Calling(<<1>>), Calling(<<1, 2>>), Calling(<<NoId>>),
         Outcome(1, 1), Outcome(2, 1), Outcome(NoId, 1)}, 4)

MessagesHistories ==
  Asked({Ask("plain", 1), Calling(<<1>>), Calling(<<2, 1>>), Calling(<<NoId>>),
         Results(<<1>>), Results(<<1, 2>>), Results(<<NoId>>)}, 3)

\* Long sessions: a large result, a large text, an instruction that stands
\* out, one that is about an earlier session.
Session(mark, size) ==
  <<System, Ask(mark, 1), Calling(<<1>>), Outcome(1, size), Says(size), Calling(<<2>>), Outcome(2, 1),
    Ask("pressure", 1), Ask("plain", 2)>>

ChatSessions ==
  {Session(mark, size) : mark \in Marks, size \in {1, 3, 5, 9}} \cup {<<Ask("plain", 14)>>}

MessagesSessions ==
  {[i \in DOMAIN ms |-> IF ms[i].role = "tool" THEN [ms[i] EXCEPT !.role = "user"] ELSE ms[i]] : ms \in ChatSessions}

Profile(path, cc, stream, probe, small) ==
  [path |-> path, cc |-> cc, stream |-> stream, probe |-> probe, exempt |-> probe = "low", small |-> small]

Cases(profiles, histories, tools) == [req : profiles, ms : histories, tools : tools]

Paths == {"messages", "chat"}

MCRequests ==
  LET plain == {<<Ask("plain", 1)>>}
  IN  Cases({Profile("chat", TRUE, TRUE, "none", FALSE)}, ChatHistories, {"valid"})
      \cup Cases({Profile("messages", TRUE, TRUE, "none", FALSE)}, MessagesHistories, {"valid", "invalid"})
      \cup Cases({Profile("messages", cc, stream, "none", TRUE) : cc, stream \in BOOLEAN}, MessagesSessions, {"none", "valid"})
      \cup Cases({Profile("chat", cc, stream, "none", FALSE) : cc, stream \in BOOLEAN}, ChatSessions, {"none", "valid"})
      \cup Cases({Profile("messages", TRUE, stream, probe, FALSE) : stream \in BOOLEAN,
                    probe \in {"short", "low", "health", "recovery"}}, plain, {"none"})
      \cup Cases({Profile("messages", cc, FALSE, "mimo", FALSE) : cc \in BOOLEAN}, plain, {"none"})
      \cup Cases({Profile("chat", FALSE, stream, "short", FALSE) : stream \in BOOLEAN}, plain, {"none"})

MCStreamPolicy == [at |-> 8, target |-> 4, min |-> 1, systems |-> TRUE, anchors |-> FALSE, sanitizes |-> FALSE]
MCHugePolicy   == [at |-> 8, target |-> 4, min |-> 1, systems |-> FALSE, anchors |-> TRUE, sanitizes |-> TRUE]

MCDeltas == {<<0, "partial">>, <<0, "run">>, <<0, "bad">>, <<1, "run">>}

MCCollections == [
  text      : {{}, {"word"}, {"intent"}, {"leak"}, {"dsml"}},
  reasoning : {{}, {"word"}, {"leak"}},
  calls     : {NoCalls, Merged(NoCalls, 0, "run"), Merged(NoCalls, 0, "bad"),
               Merged(Merged(NoCalls, 0, "run"), 1, "run"), Merged(Merged(NoCalls, 0, "run"), 1, "partial")}]

\* Names of tools: "say" is what two different texts give, "tool_1" may be a
\* client's own name.
MCNames == {"say", "say_2", "say_3", "say_4", "tool_0", "tool_1", "tool_1_2", "tool_1_3", "tool_2"}
MCNumbered == [i \in 0..2 |-> <<"tool_0", "tool_1", "tool_2">>[i + 1]]
MCSuffixed ==
  [name \in {"say", "tool_1"} |->
     IF name = "say" THEN (2 :> "say_2") @@ (3 :> "say_3") @@ (4 :> "say_4") ELSE (2 :> "tool_1_2") @@ (3 :> "tool_1_3")]

ToolsTried ==
  LET Some == [name : {NoName, "say", "say_2", "tool_1"}, function : {NoName}, heading : {NoName, "say"},
               title : {NoName, "tool_1"}, line : {NoName}]
              \cup [name : {NoName}, function : {"say"}, heading : {NoName}, title : {NoName}, line : {NoName}]
  IN  UNION {[1..n -> Some] : n \in 0..3}

\* After the repair every unwrapped tool has a name of its own and what the client
\* named keeps its name.
ASSUME NamesAssumption
ASSUME ToolsAreNamedApart ==
  \A tools \in ToolsTried :
    LET after == RepairTools(tools)
        Synthetic == {i \in DOMAIN tools : Unnamed(tools[i])}
    IN  /\ \A i \in Synthetic, j \in DOMAIN tools : j # i => after[i].name \notin {NoName, after[j].name}
        /\ \A i \in DOMAIN tools \ Synthetic : after[i] = tools[i]
===============================================================================
