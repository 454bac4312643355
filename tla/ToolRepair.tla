------------------------------ MODULE ToolRepair ------------------------------
(***************************************************************************)
(* The repair of a messages request whose tools have no names              *)
(* (src/zen-proxy-rs/src/v4/request_repair.rs): each gets one, from what   *)
(* it says of itself, that no tool has yet.  A text that a name may come   *)
(* from stands for what sanitize_to_name makes of it, which is no name at  *)
(* all for a text without a letter or digit; two texts may give one name.  *)
(***************************************************************************)
EXTENDS Naturals, Sequences

CONSTANTS
  Names,     \* the names there may be
  NoName,    \* of a tool without one, or a text that gives none
  Numbered,  \* Numbered[i]: the name "tool_<i>"
  Suffixed   \* Suffixed[name][n]: name, cut so that "_<n>" fits in 64 characters, and "_<n>"

\* Only different numbers make different suffixes sure: cutting may make two names one.
NamesAssumption ==
  /\ NoName \notin Names
  /\ Numbered \in [DOMAIN Numbered -> Names]
  /\ \A name \in DOMAIN Suffixed : \A m, n \in DOMAIN Suffixed[name] :
       m # n => Suffixed[name][m] # Suffixed[name][n]

Said == Names \cup {NoName}

\* A tool: its name, whether it is OpenAI's shape around a "function" with a name
\* of its own, and what its description's heading, its schema's title and its
\* description's first line give.
Tool == [name : Said, function : Said, heading : Said, title : Said, line : Said]

Wrapped(tool) == tool.function # NoName
Unnamed(tool) == tool.name = NoName /\ ~Wrapped(tool)

\* derive_tool_name
Derived(tool, index) ==
  LET said == SelectSeq(<<tool.heading, tool.title, tool.line>>, LAMBDA text : text # NoName)
  IN  IF said = <<>> THEN Numbered[index] ELSE said[1]

\* make_unique: the first of name, name_2, name_3, ... that is free
MakeUnique(name, used) ==
  IF name \notin used THEN name
  ELSE LET free == {n \in DOMAIN Suffixed[name] : Suffixed[name][n] \notin used}
       IN  Suffixed[name][CHOOSE n \in free : \A k \in free : n <= k]

GivenNames(tools) == {tools[i].name : i \in DOMAIN tools} \ {NoName}

\* The first n tools with their names, and the names taken by then (the wrapped
\* tools' own names are not looked at).
RepairTools(tools) ==
  LET done[n \in 0..Len(tools)] ==
        IF n = 0 THEN [named |-> <<>>, used |-> GivenNames(tools)]
        ELSE LET before == done[n - 1]
                 name   == MakeUnique(Derived(tools[n], n - 1), before.used)
             IN  IF Unnamed(tools[n])
                 THEN [named |-> Append(before.named, [tools[n] EXCEPT !.name = name]),
                       used  |-> before.used \cup {name}]
                 ELSE [before EXCEPT !.named = Append(@, tools[n])]
  IN  done[Len(tools)].named
=============================================================================
