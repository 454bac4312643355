---------------------------- MODULE Kernel_proofs ----------------------------
(***************************************************************************)
(* Proofs about Kernel for any requests, deltas, collected answers and     *)
(* numbers of attempts: that tool markup is withheld, that an answer is of *)
(* one attempt, and that calls are whole and given once.                   *)
(*                                                                         *)
(* None of the three is inductive, since they are about what the client    *)
(* has, and the handlers decide on what they sent, held back or recorded.  *)
(* KernelInv speaks of what the client has or will have when it has taken  *)
(* the events on their way (Heard, Calls):                                 *)
(*   - text a client heard is clean and of the present attempt until a     *)
(*     call came (Ready), and so is what is held back (Held);              *)
(*   - the message has started when there is something of it (Begun), what *)
(*     was heard is remembered (Shown), so that a handler that still sees  *)
(*     nothing said may start over;                                        *)
(*   - when it does, nothing was heard (Streaming), or reasoning was, which*)
(*     is the exception OneAttempt makes.                                  *)
(* Events are queued in the order a client takes them, and delivery keeps  *)
(* Heard and Calls as they are.                                            *)
(***************************************************************************)
EXTENDS Kernel, FiniteSetTheorems, SequenceTheorems, TLAPS

-----------------------------------------------------------------------------
(* Sequences of events *)

Listed(s) == \E n \in Nat : s = [i \in 1..n |-> s[i]]
In(s) == {s[i] : i \in DOMAIN s}

(* A concatenation of lists has the elements of both. *)
LEMMA Concatenation ==
  ASSUME NEW s, NEW t, Listed(s), Listed(t)
  PROVE  /\ Listed(s \o t)
         /\ Len(s \o t) = Len(s) + Len(t)
         /\ \A i \in 1..Len(s) : (s \o t)[i] = s[i]
         /\ \A i \in 1..Len(t) : (s \o t)[Len(s) + i] = t[i]
         /\ DOMAIN s = 1..Len(s) /\ Len(s) \in Nat
         /\ DOMAIN t = 1..Len(t) /\ Len(t) \in Nat
         /\ DOMAIN (s \o t) = 1..(Len(s) + Len(t))
         /\ In(s \o t) = In(s) \cup In(t)
<1> DEFINE S == In(s) \cup In(t)
<1>1. s \in Seq(S) /\ t \in Seq(S)
  <2>1. PICK m \in Nat : s = [i \in 1..m |-> s[i]] BY DEF Listed
  <2>2. PICK n \in Nat : t = [i \in 1..n |-> t[i]] BY DEF Listed
  <2>3. s \in [1..m -> S] /\ t \in [1..n -> S] BY <2>1, <2>2 DEF In
  <2>4. QED BY <2>3, SeqDef
<1>2. s \o t \in Seq(S) BY <1>1
<1>3. Listed(s \o t)
  <2>1. Len(s \o t) \in Nat /\ s \o t \in [1..Len(s \o t) -> S] BY <1>2, LenProperties, Zenon
  <2>2. s \o t = [i \in 1..Len(s \o t) |-> (s \o t)[i]] BY <2>1, Zenon
  <2>3. QED BY <2>1, <2>2, Zenon DEF Listed
<1>4. /\ DOMAIN s = 1..Len(s) /\ Len(s) \in Nat
      /\ DOMAIN t = 1..Len(t) /\ Len(t) \in Nat
      /\ Len(s \o t) = Len(s) + Len(t)
      /\ DOMAIN (s \o t) = 1..(Len(s) + Len(t))
  BY <1>1
<1>5. /\ \A i \in 1..Len(s) : (s \o t)[i] = s[i]
      /\ \A i \in 1..Len(t) : (s \o t)[Len(s) + i] = t[i]
  BY <1>1
<1> HIDE DEF S
<1>6. In(s \o t) \subseteq In(s) \cup In(t)
  <2> SUFFICES ASSUME NEW i \in DOMAIN (s \o t) PROVE (s \o t)[i] \in In(s) \cup In(t)
    BY DEF In
  <2>1. CASE i <= Len(s) BY <2>1, <1>4, <1>5 DEF In
  <2>2. CASE i > Len(s)
    <3>1. i - Len(s) \in 1..Len(t) /\ i = Len(s) + (i - Len(s)) BY <1>4, <2>2
    <3>2. QED BY <3>1, <1>4, <1>5 DEF In
  <2>3. QED BY <1>4, <2>1, <2>2
<1>7. In(s) \subseteq In(s \o t) BY <1>4, <1>5 DEF In
<1>8. In(t) \subseteq In(s \o t)
  <2> SUFFICES ASSUME NEW i \in DOMAIN t PROVE t[i] \in In(s \o t)
    BY DEF In
  <2>1. Len(s) + i \in DOMAIN (s \o t) BY <1>4
  <2>2. QED BY <2>1, <1>4, <1>5 DEF In
<1>9. QED BY <1>3, <1>4, <1>5, <1>6, <1>7, <1>8

(* The empty list, and a list of one. *)
LEMMA Short ==
  /\ Listed(<<>>) /\ In(<<>>) = {}
  /\ \A e : Listed(<<e>>) /\ In(<<e>>) = {e}
BY DEF Listed, In

(* What is left of a list when its head is taken. *)
LEMMA Taken ==
  ASSUME NEW s, Listed(s), s # <<>>
  PROVE  /\ Listed(Tail(s))
         /\ In(s) = {Head(s)} \cup In(Tail(s))
         /\ Head(s) = s[1]
         /\ DOMAIN s = 1..Len(s) /\ Len(s) \in Nat \ {0}
         /\ DOMAIN Tail(s) = 1..(Len(s) - 1)
         /\ \A i \in 1..(Len(s) - 1) : Tail(s)[i] = s[i + 1]
<1> DEFINE S == In(s)
<1>1. s \in Seq(S) BY DEF Listed, In
<1>2. Len(s) \in Nat \ {0} /\ DOMAIN s = 1..Len(s) BY <1>1
<1>3. Tail(s) \in Seq(S) /\ Head(s) = s[1] BY <1>1
<1>4. DOMAIN Tail(s) = 1..(Len(s) - 1) BY <1>1, <1>2
<1>5. \A i \in 1..(Len(s) - 1) : Tail(s)[i] = s[i + 1] BY <1>1, <1>2
<1> HIDE DEF S
<1>6. Listed(Tail(s)) BY <1>3 DEF Listed
<1>7. In(s) \subseteq {Head(s)} \cup In(Tail(s))
  <2> SUFFICES ASSUME NEW i \in DOMAIN s PROVE s[i] \in {Head(s)} \cup In(Tail(s))
    BY DEF In
  <2>1. CASE i = 1 BY <2>1, <1>3
  <2>2. CASE i # 1
    <3>1. i - 1 \in 1..(Len(s) - 1) /\ i = (i - 1) + 1 BY <1>2, <2>2
    <3>2. QED BY <3>1, <1>4, <1>5 DEF In
  <2>3. QED BY <2>1, <2>2
<1>8. {Head(s)} \cup In(Tail(s)) \subseteq In(s)
  <2>1. Head(s) \in In(s) BY <1>2, <1>3 DEF In
  <2>2. ASSUME NEW i \in DOMAIN Tail(s) PROVE Tail(s)[i] \in In(s)
    <3>1. i + 1 \in DOMAIN s /\ Tail(s)[i] = s[i + 1] BY <1>2, <1>4, <1>5
    <3>2. QED BY <3>1 DEF In
  <2>3. QED BY <2>1, <2>2 DEF In
<1>9. QED BY <1>2, <1>3, <1>4, <1>5, <1>6, <1>7, <1>8

-----------------------------------------------------------------------------
(* The invariant *)

\* The fields of a generator and of what a client has.
Fields == {"attempt", "used", "chunks", "started", "textOpen", "thinkOpen", "fence", "text", "held",
           "hold", "rhold", "reasoning", "blob", "leaked", "calls", "fault", "finish", "out",
           "textAt", "thinkAt", "next"}
WireFields == {"phase", "starts", "blocks", "top", "thought", "text", "given", "stop"}

\* The stages before and in a handler.
Early   == {"guard", "govern", "guardAgain", "translate", "shorten", "anchor", "canonicalize", "dispatch"}
Working == {"fetch", "read", "settle", "finish"}

\* What the events on their way tell the client.
Spoken(out)    == UNION {e.text : e \in {f \in In(out) : f.e = "grow" /\ f.kind = "text"}}
Mused(out)     == \E f \in In(out) : f.e = "grow" /\ f.kind = "thinking"
ToldCalls(out) == {f.call : f \in {f \in In(out) : f.e = "call"}}
Quiet(out)     == Listed(out) /\ \A f \in In(out) : f.e \notin {"grow", "call"}

\* What the client has or will have when it has taken the events of g.
Heard(g) == wire.text \cup Spoken(g.out)
Seen(g)  == wire.thought \/ Mused(g.out)
Calls(g) == In(wire.given) \cup ToldCalls(g.out)

\* The text is of the attempt.
From(text, attempt) == \A piece \in text : piece.attempt = attempt

Typed(g) ==
  /\ DOMAIN g = Fields /\ Listed(g.out)
  /\ IsFiniteSet(DOMAIN g.calls) /\ DOMAIN g.calls \subseteq Nat

\* No call is on its way yet, and the text is clean and of the present attempt.
Ready(g) ==
  /\ Typed(g) /\ ToldCalls(g.out) = {}
  /\ g.calls = NoCalls => ~Leaky(Heard(g))
  /\ ~wire.thought => From(Heard(g), g.attempt)

\* So is what is held back.
Held(g) == ~Leaky(g.held) /\ (~wire.thought => From(g.held \cup g.hold, g.attempt))

\* The message has started when there is something of it.
Begun(g) == (Heard(g) # {} => g.started) /\ (g.started => Heard(g) # {} \/ Seen(g))

\* What the client has is remembered, and in an open block.
Shown(g) == Heard(g) \subseteq g.text /\ (Framed /\ Heard(g) # {} => g.textOpen)

Sound(g) == Ready(g) /\ Held(g) /\ Begun(g)

\* No call is given twice, nor given and on its way.
OnceEach(given, out) ==
  /\ \A m, n \in DOMAIN given : given[m].what = given[n].what => m = n
  /\ \A m, n \in DOMAIN out :
       out[m].e = "call" /\ out[n].e = "call" /\ out[m].call.what = out[n].call.what => m = n
  /\ \A m \in DOMAIN given, n \in DOMAIN out :
       out[n].e = "call" => given[m].what # out[n].call.what

\* The attempts the text and the calls are of.
Sources(g) == AttemptsOf(Heard(g)) \cup {call.from : call \in Calls(g)}

\* The answer is of one attempt, with whole calls, each once.
Consistent(g) ==
  /\ wire.thought \/ \A x, y \in Sources(g) : x = y
  /\ Framed => /\ \A call \in Calls(g) : call.what \notin {"partial", "bad"}
               /\ req.cc => OnceEach(wire.given, g.out)

\* The types, as far as the proofs need them.
Shapes ==
  /\ Typed(gen)
  /\ DOMAIN wire = WireFields /\ wire.thought \in BOOLEAN /\ Listed(wire.given)
  /\ "mode" \in DOMAIN prep
  /\ req.path \in {"messages", "chat"}
  /\ stage \in Early \cup Working \cup {"done", "gone"}

\* What a stage says of the path and of what was said.
Stages ==
  /\ prep.mode = "anthropic" => Framed
  /\ prep.mode = "openai" => ~Framed
  /\ stage \in Early => gen = FreshGen /\ wire = FreshWire
  /\ stage = "gone" => gen = FreshGen
  /\ stage \in Working => wire.given = <<>>
  /\ stage \in Working /\ prep.mode = "collected" => gen.out = <<>> /\ wire.text = {}

\* A streaming handler may give an attempt up only before anyone heard of it.
Streaming ==
  stage \in Working /\ prep.mode # "collected" =>
    /\ Sound(gen)
    /\ stage # "finish" => Shown(gen)
    /\ stage = "fetch" => Heard(gen) = {}

\* Markup is withheld until a call has come.
Clean == stage # "gone" /\ gen.calls = NoCalls => ~Leaky(Heard(gen))

KernelInv == Shapes /\ Stages /\ Streaming /\ Clean /\ Consistent(gen)

-----------------------------------------------------------------------------
(* What a step of a handler tells the client *)

\* The calls of g with the indexes K, each once.
OneByOne(q, g, K) ==
  \E n \in Nat : \E nth \in [1..n -> K] :
    /\ q = [i \in 1..n |-> Given(g, nth[i], CallsAt(g) + i - 1)]
    /\ \A i, j \in 1..n : nth[i] = nth[j] => i = j

(* InOrder gives every call of K once. *)
LEMMA Ordered ==
  ASSUME NEW g, NEW K, IsFiniteSet(K), K \subseteq Nat
  PROVE  OneByOne(InOrder(g, K), g, K)
<1> DEFINE n == Cardinality(K)
           Below(k) == {m \in K : m < k}
           rank == [k \in K |-> Cardinality(Below(k))]
           nth == [i \in 1..n |-> CHOOSE k \in K : Cardinality({m \in K : m < k}) = i - 1]
           calls == [i \in 1..n |-> Given(g, nth[i], CallsAt(g) + i - 1)]
<1>1. n \in Nat BY FS_CardinalityType
<1>2. InOrder(g, K) = calls BY DEF InOrder
<1>3. ASSUME NEW k \in K PROVE Cardinality(Below(k)) \in 0..(n - 1)
  <2>1. Below(k) \in SUBSET K /\ k \notin Below(k) OBVIOUS
  <2>2. IsFiniteSet(Below(k)) /\ Cardinality(Below(k)) <= n /\ Cardinality(Below(k)) # n
    BY <1>3, <2>1, FS_Subset, Zenon
  <2>3. Cardinality(Below(k)) \in Nat BY <2>2, FS_CardinalityType
  <2>4. QED BY <1>1, <2>2, <2>3
<1>4. ASSUME NEW k \in K, NEW l \in K, k < l PROVE Cardinality(Below(k)) < Cardinality(Below(l))
  <2>1. IsFiniteSet(Below(l)) /\ IsFiniteSet(Below(k))
    <3>1. Below(l) \in SUBSET K /\ Below(k) \in SUBSET K OBVIOUS
    <3>2. QED BY <3>1, FS_Subset, Zenon
  <2>2. Below(k) \in SUBSET Below(l) /\ k \in Below(l) /\ k \notin Below(k)
    <3>1. k \in Nat /\ l \in Nat OBVIOUS
    <3>2. ASSUME NEW m \in K, m < k PROVE m < l
      <4>1. m \in Nat OBVIOUS
      <4>2. QED BY <1>4, <3>1, <3>2, <4>1
    <3>3. ~(k < k) BY <3>1
    <3>4. QED BY <1>4, <3>2, <3>3
  <2>3. Cardinality(Below(k)) <= Cardinality(Below(l)) /\ Cardinality(Below(k)) # Cardinality(Below(l))
    BY <2>1, <2>2, FS_Subset, Zenon
  <2>4. Cardinality(Below(k)) \in Nat /\ Cardinality(Below(l)) \in Nat BY <2>1, FS_CardinalityType
  <2>5. QED BY <2>3, <2>4
<1>5. /\ rank \in [K -> 0..(n - 1)]
      /\ \A k, l \in K : rank[k] = rank[l] => k = l
  <2>1. rank \in [K -> 0..(n - 1)] BY <1>3
  <2>2. ASSUME NEW k \in K, NEW l \in K, rank[k] = rank[l] PROVE k = l
    <3>1. Cardinality(Below(k)) = Cardinality(Below(l)) /\ Cardinality(Below(k)) \in Nat
      BY <1>1, <1>3, <2>2
    <3>2. ~(k < l) /\ ~(l < k)
      <4> HIDE DEF Below
      <4>1. QED BY <1>4, <3>1
    <3>3. k \in Nat /\ l \in Nat OBVIOUS
    <3>4. QED BY <3>2, <3>3
  <2>3. QED BY <2>1, <2>2
<1>6. ASSUME NEW i \in 0..(n - 1), \A k \in K : rank[k] # i PROVE FALSE
  <2> DEFINE rest == (0..(n - 1)) \ {i}
  <2>1. IsFiniteSet(0..(n - 1)) /\ Cardinality(0..(n - 1)) = n
    <3>1. n - 1 \in Int /\ 0 \in Int BY <1>1
    <3>2. QED BY <1>1, <3>1, FS_Interval
  <2>2. IsFiniteSet(rest) /\ Cardinality(rest) = n - 1 BY <2>1, FS_RemoveElement
  <2>3. rank \in [K -> rest] BY <1>5, <1>6
  <2>4. Cardinality(rest) < Cardinality(K) BY <1>1, <2>2
  <2> HIDE DEF rank, rest
  <2>5. \E k, l \in K : k # l /\ rank[k] = rank[l] BY <2>2, <2>3, <2>4, FS_PigeonHole
  <2>6. QED BY <1>5, <2>5
<1>7. \A i \in 1..n : nth[i] \in K /\ Cardinality(Below(nth[i])) = i - 1
  <2> SUFFICES ASSUME NEW i \in 1..n PROVE nth[i] \in K /\ Cardinality(Below(nth[i])) = i - 1
    OBVIOUS
  <2>1. \E k \in K : Cardinality({m \in K : m < k}) = i - 1
    <3>1. i - 1 \in 0..(n - 1) BY <1>1
    <3>2. \E k \in K : rank[k] = i - 1
      <4> HIDE DEF rank
      <4>1. QED BY <1>6, <3>1
    <3>3. QED BY <3>2
  <2>2. nth[i] = CHOOSE k \in K : Cardinality({m \in K : m < k}) = i - 1 OBVIOUS
  <2>3. QED BY <2>1, <2>2
<1>8. nth \in [1..n -> K] BY <1>7
<1> HIDE DEF nth, Below
<1>9. \A i, j \in 1..n : nth[i] = nth[j] => i = j
  <2> SUFFICES ASSUME NEW i \in 1..n, NEW j \in 1..n, nth[i] = nth[j] PROVE i = j
    OBVIOUS
  <2>1. i - 1 = j - 1 BY <1>7
  <2>2. i \in Int /\ j \in Int BY <1>1
  <2>3. QED BY <2>1, <2>2
<1>10. QED BY <1>1, <1>2, <1>8, <1>9 DEF OneByOne

(* The events that carry neither text nor a call. *)
LEMMA Quieten ==
  /\ Quiet(<<>>) /\ Quiet(<<Started>>)
  /\ \A kind, at : Quiet(<<Opened(kind, at)>>) /\ Quiet(<<Closed(kind, at)>>)
  /\ \A stop : Quiet(<<Ended(stop)>>)
  /\ \A g : Quiet(Starting(g))
  /\ \A open, kind, at : Quiet(Opening(open, kind, at))
<1>1. Quiet(<<>>) BY Short DEF Quiet
<1>2. Quiet(<<Started>>) BY Short DEF Quiet, Started
<1>3. \A kind, at : Quiet(<<Opened(kind, at)>>) /\ Quiet(<<Closed(kind, at)>>) BY Short DEF Quiet, Opened, Closed
<1>4. \A stop : Quiet(<<Ended(stop)>>) BY Short DEF Quiet, Ended
<1>5. QED BY <1>1, <1>2, <1>3, <1>4 DEF Starting, Opening

(* No events tell nothing. *)
LEMMA Nothing ==
  Spoken(<<>>) = {} /\ ~Mused(<<>>) /\ ToldCalls(<<>>) = {}
BY Short DEF Spoken, Mused, ToldCalls

\* What is quiet tells nothing.
LEMMA Silence ==
  ASSUME NEW s, NEW t, Listed(s), Quiet(t)
  PROVE  /\ Listed(s \o t)
         /\ Spoken(s \o t) = Spoken(s) /\ ToldCalls(s \o t) = ToldCalls(s)
         /\ Mused(s \o t) <=> Mused(s)
         /\ Quiet(s) => Quiet(s \o t)
<1>1. Listed(s \o t) /\ In(s \o t) = In(s) \cup In(t) BY Concatenation DEF Quiet
<1>2. \A f \in In(t) : f.e # "grow" /\ f.e # "call" BY DEF Quiet
<1>3. {f \in In(s \o t) : f.e = "grow" /\ f.kind = "text"} = {f \in In(s) : f.e = "grow" /\ f.kind = "text"}
  BY <1>1, <1>2
<1>4. {f \in In(s \o t) : f.e = "call"} = {f \in In(s) : f.e = "call"} BY <1>1, <1>2
<1>5. Mused(s \o t) <=> Mused(s) BY <1>1, <1>2 DEF Mused
<1>6. QED BY <1>1, <1>2, <1>3, <1>4, <1>5 DEF Spoken, ToldCalls, Quiet

(* An event that grows a block adds to the text or to the reasoning. *)
LEMMA Growing ==
  ASSUME NEW s, Listed(s), NEW t, NEW at
  PROVE  /\ LET r == s \o <<Grown("text", t, at)>> IN
            Listed(r) /\ Spoken(r) = Spoken(s) \cup t /\ ToldCalls(r) = ToldCalls(s) /\ (Mused(r) <=> Mused(s))
         /\ LET r == s \o <<Grown("thinking", t, at)>> IN
            Listed(r) /\ Spoken(r) = Spoken(s) /\ ToldCalls(r) = ToldCalls(s) /\ Mused(r)
<1> DEFINE r(kind) == s \o <<Grown(kind, t, at)>>
<1>1. \A kind : Listed(r(kind)) /\ In(r(kind)) = In(s) \cup {Grown(kind, t, at)}
  BY Short, Concatenation
<1>2. \A kind : Grown(kind, t, at).e = "grow" /\ Grown(kind, t, at).kind = kind /\ Grown(kind, t, at).text = t
  BY DEF Grown
<1> HIDE DEF r
<1>3. {f \in In(r("text")) : f.e = "grow" /\ f.kind = "text"}
        = {f \in In(s) : f.e = "grow" /\ f.kind = "text"} \cup {Grown("text", t, at)}
  BY <1>1, <1>2
<1>4. {f \in In(r("thinking")) : f.e = "grow" /\ f.kind = "text"} = {f \in In(s) : f.e = "grow" /\ f.kind = "text"}
  BY <1>1, <1>2
<1>5. \A kind : {f \in In(r(kind)) : f.e = "call"} = {f \in In(s) : f.e = "call"} BY <1>1, <1>2
<1>6. (Mused(r("text")) <=> Mused(s)) /\ Mused(r("thinking")) BY <1>1, <1>2 DEF Mused
<1>7. Spoken(r("text")) = Spoken(s) \cup t BY <1>2, <1>3 DEF Spoken
<1>8. Spoken(r("thinking")) = Spoken(s) BY <1>4 DEF Spoken
<1>9. \A kind : ToldCalls(r(kind)) = ToldCalls(s) BY <1>5 DEF ToldCalls
<1>10. QED BY <1>1, <1>6, <1>7, <1>8, <1>9 DEF r

(* Say adds to the text, and starts the message if it says anything. *)
LEMMA Saying ==
  ASSUME NEW g, Typed(g), NEW said
  PROVE  LET h == Say(g, said) IN
         /\ Typed(h)
         /\ Heard(h) = Heard(g) \cup said
         /\ (Seen(h) <=> Seen(g)) /\ ToldCalls(h.out) = ToldCalls(g.out)
         /\ h.text = g.text \cup said
         /\ h.held = g.held /\ h.hold = g.hold /\ h.calls = g.calls /\ h.attempt = g.attempt
         /\ said = {} => h = g
         /\ said # {} => h.started /\ h.textOpen = Framed
<1>1. CASE said = {} BY <1>1 DEF Say
<1>2. CASE said # {}
  <2> DEFINE h == Say(g, said)
             one == g.out \o Starting(g)
             two == one \o Opening(g.textOpen, "text", TextAt(g))
  <2>1. h = [g EXCEPT !.started = TRUE, !.textOpen = Framed, !.textAt = TextAt(g), !.text = @ \cup said,
                      !.out = ((@ \o Starting(g)) \o Opening(g.textOpen, "text", TextAt(g)))
                              \o <<Grown("text", said, TextAt(g))>>]
    BY <1>2 DEF Say
  <2>2. h.out = two \o <<Grown("text", said, TextAt(g))>> BY <2>1 DEF Typed, Fields
  <2>3. Listed(one) /\ Spoken(one) = Spoken(g.out) /\ ToldCalls(one) = ToldCalls(g.out) /\ (Mused(one) <=> Mused(g.out))
    BY Silence, Quieten DEF Typed
  <2>4. Listed(two) /\ Spoken(two) = Spoken(one) /\ ToldCalls(two) = ToldCalls(one) /\ (Mused(two) <=> Mused(one))
    BY <2>3, Silence, Quieten
  <2> HIDE DEF two
  <2>5. /\ Listed(h.out) /\ Spoken(h.out) = Spoken(two) \cup said
        /\ ToldCalls(h.out) = ToldCalls(two) /\ (Mused(h.out) <=> Mused(two))
    <3> HIDE DEF h
    <3> HIDE DEF one
    <3>1. Listed(two) BY <2>4
    <3>2. Listed(two \o <<Grown("text", said, TextAt(g))>>) BY <3>1, Growing
    <3>3. Spoken(two \o <<Grown("text", said, TextAt(g))>>) = Spoken(two) \cup said BY <3>1, Growing
    <3>4. ToldCalls(two \o <<Grown("text", said, TextAt(g))>>) = ToldCalls(two) BY <3>1, Growing
    <3>5. Mused(two \o <<Grown("text", said, TextAt(g))>>) <=> Mused(two) BY <3>1, Growing
    <3>6. QED BY <2>2, <3>2, <3>3, <3>4, <3>5
  <2>6. DOMAIN h = Fields /\ h.calls = g.calls /\ h.text = g.text \cup said /\ h.held = g.held
        /\ h.hold = g.hold /\ h.attempt = g.attempt /\ h.started /\ h.textOpen = Framed
    BY <2>1 DEF Typed, Fields
  <2> HIDE DEF h
  <2>7. Typed(h) BY <2>5, <2>6 DEF Typed
  <2>8. Heard(h) = Heard(g) \cup said /\ (Seen(h) <=> Seen(g)) BY <2>3, <2>4, <2>5 DEF Heard, Seen
  <2>9. QED BY <1>2, <2>3, <2>4, <2>5, <2>6, <2>7, <2>8 DEF h
<1>3. QED BY <1>1, <1>2

(* Think leaves the text alone. *)
LEMMA Thinking ==
  ASSUME NEW g, Typed(g), NEW thought
  PROVE  LET h == Think(g, thought) IN
         /\ Typed(h)
         /\ Heard(h) = Heard(g) /\ ToldCalls(h.out) = ToldCalls(g.out)
         /\ Seen(g) => Seen(h)
         /\ h.text = g.text /\ h.textOpen = g.textOpen
         /\ h.held = g.held /\ h.hold = g.hold /\ h.calls = g.calls /\ h.attempt = g.attempt
         /\ thought = {} => h = g
         /\ thought # {} => h.started /\ Seen(h)
<1>1. CASE thought = {} BY <1>1 DEF Think
<1>2. CASE thought # {}
  <2> DEFINE h == Think(g, thought)
             one == g.out \o Starting(g)
             two == one \o Opening(g.thinkOpen, "thinking", ThinkAt(g))
  <2>1. h = [g EXCEPT !.started = TRUE, !.thinkOpen = TRUE, !.thinkAt = ThinkAt(g), !.reasoning = @ \cup thought,
                      !.next = IF g.thinkOpen THEN @ ELSE @ + 1,
                      !.out = ((@ \o Starting(g)) \o Opening(g.thinkOpen, "thinking", ThinkAt(g)))
                              \o <<Grown("thinking", thought, ThinkAt(g))>>]
    BY <1>2 DEF Think
  <2>2. h.out = two \o <<Grown("thinking", thought, ThinkAt(g))>> BY <2>1 DEF Typed, Fields
  <2>3. Listed(one) /\ Spoken(one) = Spoken(g.out) /\ ToldCalls(one) = ToldCalls(g.out)
    BY Silence, Quieten DEF Typed
  <2>4. Listed(two) /\ Spoken(two) = Spoken(one) /\ ToldCalls(two) = ToldCalls(one)
    BY <2>3, Silence, Quieten
  <2> HIDE DEF two
  <2>5. /\ Listed(h.out) /\ Spoken(h.out) = Spoken(two)
        /\ ToldCalls(h.out) = ToldCalls(two) /\ Mused(h.out)
    <3> HIDE DEF h
    <3> HIDE DEF one
    <3>1. Listed(two) BY <2>4
    <3>2. Listed(two \o <<Grown("thinking", thought, ThinkAt(g))>>) BY <3>1, Growing
    <3>3. Spoken(two \o <<Grown("thinking", thought, ThinkAt(g))>>) = Spoken(two) BY <3>1, Growing
    <3>4. ToldCalls(two \o <<Grown("thinking", thought, ThinkAt(g))>>) = ToldCalls(two) BY <3>1, Growing
    <3>5. Mused(two \o <<Grown("thinking", thought, ThinkAt(g))>>) BY <3>1, Growing
    <3>6. QED BY <2>2, <3>2, <3>3, <3>4, <3>5
  <2>6. DOMAIN h = Fields /\ h.calls = g.calls /\ h.text = g.text /\ h.textOpen = g.textOpen /\ h.held = g.held
        /\ h.hold = g.hold /\ h.attempt = g.attempt /\ h.started
    BY <2>1 DEF Typed, Fields
  <2> HIDE DEF h
  <2>7. Typed(h) BY <2>5, <2>6 DEF Typed
  <2>8. Heard(h) = Heard(g) /\ Seen(h) BY <2>3, <2>4, <2>5 DEF Heard, Seen
  <2>9. QED BY <1>2, <2>3, <2>4, <2>5, <2>6, <2>7, <2>8 DEF h
<1>3. QED BY <1>1, <1>2

\* What a step does to the rest of g does not matter.
LEMMA Unspoken ==
  ASSUME NEW g, NEW h, Typed(g), DOMAIN h = Fields, h.out = g.out, h.attempt = g.attempt
  PROVE  /\ Heard(h) = Heard(g) /\ (Seen(h) <=> Seen(g))
         /\ h.calls = g.calls => Typed(h) /\ (Ready(g) => Ready(h))
         /\ Held(g) /\ h.held = g.held /\ h.hold = g.hold => Held(h)
         /\ Begun(g) /\ h.started = g.started => Begun(h)
         /\ Shown(g) /\ h.text = g.text /\ h.textOpen = g.textOpen => Shown(h)
<1>1. Heard(h) = Heard(g) BY DEF Heard
<1>2. Seen(h) <=> Seen(g) BY DEF Seen
<1>3. h.calls = g.calls => Typed(h) BY DEF Typed
<1>4. h.calls = g.calls /\ Ready(g) => Ready(h) BY <1>1, <1>3 DEF Ready
<1>5. Held(g) /\ h.held = g.held /\ h.hold = g.hold => Held(h) BY DEF Held
<1>6. Begun(g) /\ h.started = g.started => Begun(h) BY <1>1, <1>2 DEF Begun
<1>7. Shown(g) /\ h.text = g.text /\ h.textOpen = g.textOpen => Shown(h) BY <1>1 DEF Shown
<1>8. QED BY <1>1, <1>2, <1>3, <1>4, <1>5, <1>6, <1>7

\* A call is recorded.
LEMMA Recorded ==
  ASSUME NEW g, NEW h, Ready(g), DOMAIN h = Fields, h.out = g.out, h.attempt = g.attempt,
         IsFiniteSet(DOMAIN h.calls), DOMAIN h.calls \subseteq Nat, h.calls # NoCalls
  PROVE  Ready(h)
BY DEF Ready, Typed, Heard

(* A delta of a call is recorded under its index. *)
LEMMA Merging ==
  ASSUME NEW calls, IsFiniteSet(DOMAIN calls), DOMAIN calls \subseteq Nat, NEW n \in Nat, NEW what
  PROVE  /\ IsFiniteSet(DOMAIN Merged(calls, n, what)) /\ DOMAIN Merged(calls, n, what) \subseteq Nat
         /\ Merged(calls, n, what) # NoCalls
<1>1. DOMAIN Merged(calls, n, what) = DOMAIN calls \cup {n} BY DEF Merged
<1>2. IsFiniteSet(DOMAIN calls \cup {n}) BY FS_AddElement
<1>3. DOMAIN NoCalls = {} BY DEF NoCalls
<1>4. QED BY <1>1, <1>2, <1>3

(* The answer without calls. *)
LEMMA NoCallsTyped == IsFiniteSet(DOMAIN NoCalls) /\ DOMAIN NoCalls \subseteq Nat
<1>1. DOMAIN NoCalls = {} BY DEF NoCalls
<1>2. QED BY <1>1, FS_EmptySet

(* The call made of repaired markup. *)
LEMMA Repairing ==
  /\ IsFiniteSet(DOMAIN RepairedCall) /\ DOMAIN RepairedCall \subseteq Nat
  /\ RepairedCall # NoCalls
  /\ RepairedCall = [n \in {0} |-> "repaired"]
<1>1. 0 \in Nat OBVIOUS
<1>2. IsFiniteSet(DOMAIN RepairedCall) /\ DOMAIN RepairedCall \subseteq Nat /\ RepairedCall # NoCalls
  BY <1>1, NoCallsTyped, Merging DEF RepairedCall
<1>3. RepairedCall = [n \in {0} |-> "repaired"] BY DEF RepairedCall, Merged, NoCalls
<1>4. QED BY <1>2, <1>3

\* An attempt that starts over, and the answer before the first.
LEMMA Fresh ==
  ASSUME NEW h, DOMAIN h = Fields, h.out = <<>>, h.calls = NoCalls, h.held = {}, h.hold = {}, h.started = FALSE,
         wire.text = {}
  PROVE  Sound(h) /\ Shown(h) /\ Heard(h) = {}
<1>1. Heard(h) = {} BY Nothing DEF Heard
<1>2. Typed(h) BY NoCallsTyped, Short DEF Typed
<1>3. Ready(h) BY <1>1, <1>2, Nothing DEF Ready, Leaky, Has, From
<1>4. Held(h) BY DEF Held, Leaky, Has, From
<1>5. Begun(h) /\ Shown(h) BY <1>1 DEF Begun, Shown
<1>6. QED BY <1>1, <1>3, <1>4, <1>5 DEF Sound

(* The kernel's own words are no markup, and of the present attempt. *)
LEMMA OwnIsClean ==
  ASSUME NEW g
  PROVE  Own(g) # {} /\ ~Leaky(Own(g)) /\ From(Own(g), g.attempt)
BY DEF Own, Piece, Leaky, Has, From

(* Leaky and From, over unions of texts. *)
LEMMA Texts ==
  ASSUME NEW s, NEW t
  PROVE  /\ Leaky(s \cup t) <=> Leaky(s) \/ Leaky(t)
         /\ \A a : From(s \cup t, a) <=> From(s, a) /\ From(t, a)
         /\ ~Leaky({}) /\ \A a : From({}, a)
         /\ s \subseteq t => (~Leaky(t) => ~Leaky(s)) /\ (\A a : From(t, a) => From(s, a))
BY DEF Leaky, Has, From

(* Clean text of the present attempt may be said. *)
LEMMA SayingMore ==
  ASSUME NEW g, Ready(g), NEW said,
         g.calls = NoCalls => ~Leaky(said),
         ~wire.thought => From(said, g.attempt)
  PROVE  /\ Ready(Say(g, said))
         /\ Begun(g) => Begun(Say(g, said))
         /\ Shown(g) => Shown(Say(g, said))
<1> DEFINE h == Say(g, said)
<1>1. Typed(g) BY DEF Ready
<1>2. /\ Typed(h) /\ Heard(h) = Heard(g) \cup said
      /\ (Seen(h) <=> Seen(g)) /\ ToldCalls(h.out) = ToldCalls(g.out)
      /\ h.text = g.text \cup said
      /\ h.calls = g.calls /\ h.attempt = g.attempt
      /\ said = {} => h = g
      /\ said # {} => h.started /\ h.textOpen = Framed
  BY <1>1, Saying
<1> HIDE DEF h
<1>3. h.calls = NoCalls => ~Leaky(Heard(h))
  <2>1. g.calls = NoCalls => ~Leaky(Heard(g)) BY DEF Ready
  <2>2. QED BY <1>2, <2>1, Texts
<1>4. ~wire.thought => From(Heard(h), h.attempt)
  <2>1. ~wire.thought => From(Heard(g), g.attempt) BY DEF Ready
  <2>2. QED BY <1>2, <2>1, Texts
<1>5. Ready(h) BY <1>2, <1>3, <1>4 DEF Ready
<1>6. Begun(g) => Begun(h) BY <1>2 DEF Begun
<1>7. Shown(g) => Shown(h) BY <1>2 DEF Shown
<1>8. QED BY <1>5, <1>6, <1>7 DEF h

(* Reasoning may be shown at any time. *)
LEMMA ThinkingMore ==
  ASSUME NEW g, Sound(g), NEW thought
  PROVE  Sound(Think(g, thought)) /\ (Shown(g) => Shown(Think(g, thought)))
<1> DEFINE h == Think(g, thought)
<1>1. Typed(g) BY DEF Sound, Ready
<1>2. /\ Typed(h) /\ Heard(h) = Heard(g) /\ ToldCalls(h.out) = ToldCalls(g.out)
      /\ Seen(g) => Seen(h)
      /\ h.text = g.text /\ h.textOpen = g.textOpen
      /\ h.held = g.held /\ h.hold = g.hold /\ h.calls = g.calls /\ h.attempt = g.attempt
      /\ thought = {} => h = g
      /\ thought # {} => h.started /\ Seen(h)
  BY <1>1, Thinking
<1> HIDE DEF h
<1>3. Ready(h) BY <1>2 DEF Sound, Ready
<1>4. Held(h) BY <1>2 DEF Sound, Held
<1>5. Begun(h) BY <1>2 DEF Sound, Begun
<1>6. Shown(g) => Shown(h) BY <1>2 DEF Shown
<1>7. QED BY <1>3, <1>4, <1>5, <1>6 DEF h, Sound

(* Clean text of the present attempt may be pushed behind the fence. *)
LEMMA Pushing ==
  ASSUME NEW g, Sound(g), Shown(g), NEW piece,
         g.calls = NoCalls => ~Leaky(piece),
         ~wire.thought => From(piece, g.attempt)
  PROVE  LET h == Pushed(g, piece) IN
         Sound(h) /\ Shown(h) /\ h.calls = g.calls /\ h.attempt = g.attempt /\ h.hold = g.hold
<1> DEFINE h == Pushed(g, piece)
<1>1. Typed(g) BY DEF Sound, Ready
<1>2. CASE piece = {} BY <1>2 DEF Pushed
<1>3. CASE piece # {} /\ req.cc /\ g.calls = NoCalls /\ OffersTools /\ Unfinished(g.text \cup g.held \cup piece)
  <2>1. h = [g EXCEPT !.held = @ \cup piece] BY <1>3 DEF Pushed
  <2>2. /\ DOMAIN h = Fields /\ h.out = g.out /\ h.attempt = g.attempt /\ h.calls = g.calls /\ h.hold = g.hold
        /\ h.started = g.started /\ h.text = g.text /\ h.textOpen = g.textOpen /\ h.held = g.held \cup piece
    BY <1>1, <2>1 DEF Typed, Fields
  <2> HIDE DEF h
  <2>3. Ready(h) /\ Begun(h) /\ Shown(h) BY <1>1, <2>2, Unspoken DEF Sound
  <2>4. ~Leaky(h.held)
    <3>1. ~Leaky(g.held) BY DEF Sound, Held
    <3>2. ~Leaky(piece) BY <1>3
    <3>3. ~Leaky(g.held \cup piece) BY <3>1, <3>2, Texts
    <3>4. h.held = g.held \cup piece BY <2>2
    <3>5. QED BY <3>3, <3>4
  <2>5. ~wire.thought => From(h.held \cup h.hold, h.attempt) BY <2>2, Texts DEF Sound, Held
  <2>6. QED BY <2>2, <2>3, <2>4, <2>5 DEF h, Sound, Held
<1>4. CASE piece # {} /\ ~(req.cc /\ g.calls = NoCalls /\ OffersTools /\ Unfinished(g.text \cup g.held \cup piece))
  <2> DEFINE s == Say(g, g.held \cup piece)
  <2>1. h = [s EXCEPT !.held = {}] BY <1>4 DEF Pushed
  <2>2. g.calls = NoCalls => ~Leaky(g.held \cup piece) BY Texts DEF Sound, Held
  <2>3. ~wire.thought => From(g.held \cup piece, g.attempt) BY Texts DEF Sound, Held
  <2>4. Ready(s) /\ Begun(s) /\ Shown(s) BY <2>2, <2>3, SayingMore DEF Sound
  <2>5. s.calls = g.calls /\ s.attempt = g.attempt /\ s.hold = g.hold /\ Typed(s) BY <1>1, Saying
  <2> HIDE DEF s
  <2>6. /\ DOMAIN h = Fields /\ h.out = s.out /\ h.attempt = s.attempt /\ h.calls = s.calls /\ h.hold = s.hold
        /\ h.started = s.started /\ h.text = s.text /\ h.textOpen = s.textOpen /\ h.held = {}
    BY <2>1, <2>5 DEF Typed, Fields
  <2> HIDE DEF h
  <2>7. Ready(h) /\ Begun(h) /\ Shown(h) BY <2>4, <2>5, <2>6, Unspoken
  <2>8. Held(h) BY <2>5, <2>6, Texts DEF Sound, Held
  <2>9. QED BY <2>5, <2>6, <2>7, <2>8 DEF h, Sound
<1>5. QED BY <1>2, <1>3, <1>4

\* What is held back and what is let go are parts of what there was, and what
\* is let go is clean.
LEMMA Holding ==
  ASSUME NEW hold, NEW piece
  PROVE  /\ HeldBack(hold, piece) \subseteq hold \cup {piece}
         /\ Released(hold, piece) \subseteq hold \cup {piece} /\ ~Leaky(Released(hold, piece))
         /\ Flushed(hold) \subseteq hold /\ ~Leaky(Flushed(hold))
<1>1. HeldBack(hold, piece) \subseteq hold \cup {piece} BY DEF HeldBack
<1>2. Released(hold, piece) \subseteq hold \cup {piece} /\ ~Leaky(Released(hold, piece))
  BY DEF Released, Leaky, Has
<1>3. Flushed(hold) \subseteq hold /\ ~Leaky(Flushed(hold)) BY DEF Flushed, Leaky, Has
<1>4. QED BY <1>1, <1>2, <1>3

\* The three ways of holding back change only what is held back.
LEMMA Guards ==
  ASSUME NEW g, Sound(g), Shown(g), NEW kind
  PROVE  LET piece == Piece(kind, g.attempt)
             h     == Guarding(g, piece)
             r     == GuardingReasoning(g, piece)
             d     == Drained(g)
         IN  /\ Sound(h) /\ Shown(h) /\ h.calls = g.calls /\ h.attempt = g.attempt
             /\ Sound(r) /\ Shown(r) /\ r.calls = g.calls /\ r.attempt = g.attempt
             /\ Sound(d) /\ Shown(d) /\ d.calls = g.calls /\ d.attempt = g.attempt
             /\ ~wire.thought => From(Released(g.hold, piece), g.attempt)
             /\ ~wire.thought => From(Flushed(g.hold), g.attempt)
<1> DEFINE piece == Piece(kind, g.attempt)
           h     == Guarding(g, piece)
           r     == GuardingReasoning(g, piece)
           d     == Drained(g)
<1>1. Typed(g) BY DEF Sound, Ready
<1>2. From({piece}, g.attempt) BY DEF From, Piece
<1>3. ~wire.thought => From(g.hold, g.attempt) BY Texts DEF Sound, Held
<1>4. ~wire.thought => From(g.hold \cup {piece}, g.attempt) BY <1>2, <1>3, Texts
<1>5. ~wire.thought => From(Released(g.hold, piece), g.attempt) /\ From(Flushed(g.hold), g.attempt)
                       /\ From(HeldBack(g.hold, piece), g.attempt)
  BY <1>3, <1>4, Holding, Texts
<1>6. ~wire.thought => From(g.held, g.attempt) BY Texts DEF Sound, Held
<1>7. Sound(h) /\ Shown(h) /\ h.calls = g.calls /\ h.attempt = g.attempt
  <2>1. /\ DOMAIN h = Fields /\ h.out = g.out /\ h.attempt = g.attempt /\ h.calls = g.calls
        /\ h.hold = HeldBack(g.hold, piece) /\ h.held = g.held
        /\ h.started = g.started /\ h.text = g.text /\ h.textOpen = g.textOpen
    BY <1>1 DEF Typed, Fields, Guarding
  <2> HIDE DEF h
  <2>2. Ready(h) /\ Begun(h) /\ Shown(h) BY <1>1, <2>1, Unspoken DEF Sound
  <2>3. Held(h) BY <1>5, <1>6, <2>1, Texts DEF Sound, Held
  <2>4. QED BY <2>1, <2>2, <2>3 DEF Sound
<1>8. Sound(r) /\ Shown(r) /\ r.calls = g.calls /\ r.attempt = g.attempt
  <2>1. /\ DOMAIN r = Fields /\ r.out = g.out /\ r.attempt = g.attempt /\ r.calls = g.calls
        /\ r.hold = g.hold /\ r.held = g.held
        /\ r.started = g.started /\ r.text = g.text /\ r.textOpen = g.textOpen
    BY <1>1 DEF Typed, Fields, GuardingReasoning
  <2> HIDE DEF r
  <2>2. QED BY <1>1, <2>1, Unspoken DEF Sound
<1>9. Sound(d) /\ Shown(d) /\ d.calls = g.calls /\ d.attempt = g.attempt
  <2>1. /\ DOMAIN d = Fields /\ d.out = g.out /\ d.attempt = g.attempt /\ d.calls = g.calls
        /\ d.hold \subseteq g.hold /\ d.held = g.held
        /\ d.started = g.started /\ d.text = g.text /\ d.textOpen = g.textOpen
    BY <1>1 DEF Typed, Fields, Drained
  <2> HIDE DEF d
  <2>2. Ready(d) /\ Begun(d) /\ Shown(d) BY <1>1, <2>1, Unspoken DEF Sound
  <2>3. ~wire.thought => From(d.hold, g.attempt) BY <1>3, <2>1, Texts
  <2>4. Held(d) BY <1>6, <2>1, <2>3, Texts DEF Sound, Held
  <2>5. QED BY <2>1, <2>2, <2>4 DEF Sound
<1>10. QED BY <1>5, <1>7, <1>8, <1>9

(* An answer without a call is of one attempt. *)
LEMMA ReadyIsConsistent ==
  ASSUME NEW g, Ready(g), wire.given = <<>>, wire.thought \in BOOLEAN
  PROVE  Consistent(g)
<1>1. Calls(g) = {} BY Short DEF Calls, Ready
<1>2. ~wire.thought => \A x \in AttemptsOf(Heard(g)) : x = g.attempt BY DEF Ready, From, AttemptsOf
<1>3. wire.thought \/ \A x, y \in Sources(g) : x = y BY <1>1, <1>2 DEF Sources
<1>4. \A n \in DOMAIN g.out : g.out[n].e # "call" BY DEF Ready, ToldCalls, In
<1>5. DOMAIN wire.given = {} OBVIOUS
<1>6. OnceEach(wire.given, g.out) BY <1>4, <1>5 DEF OnceEach
<1>7. QED BY <1>1, <1>3, <1>6 DEF Consistent

\* The calls in order, and the end.
Concluded(s, c, K, last) == (s \o InOrder(c, K)) \o <<Ended(last)>>

\* What is heard of it is what s says.
Says(h, s) == Listed(h.out) /\ Heard(h) = wire.text \cup Spoken(s)

\* They make an answer of one attempt.
LEMMA Concluding ==
  ASSUME wire.given = <<>>, wire.thought \in BOOLEAN,
         NEW s, Listed(s), ToldCalls(s) = {}, NEW c, NEW K, IsFiniteSet(K), K \subseteq Nat, NEW last,
         ~wire.thought => From(wire.text \cup Spoken(s), c.attempt),
         Framed => \A k \in K : c.calls[k] \notin {"partial", "bad"},
         Framed /\ req.cc => \A k, l \in K : c.calls[k] = c.calls[l] => k = l,
         NEW h, h.out = Concluded(s, c, K, last)
  PROVE  Consistent(h) /\ Says(h, s)
<1> DEFINE q == InOrder(c, K)
           t == s \o q
           r == t \o <<Ended(last)>>
<1>a. OneByOne(q, c, K) BY Ordered
<1>b. PICK n \in Nat : \E nth \in [1..n -> K] :
        /\ q = [i \in 1..n |-> Given(c, nth[i], CallsAt(c) + i - 1)]
        /\ \A i, j \in 1..n : nth[i] = nth[j] => i = j
  <2> HIDE DEF q
  <2>1. QED BY <1>a DEF OneByOne
<1>1. PICK nth \in [1..n -> K] :
        /\ q = [i \in 1..n |-> Given(c, nth[i], CallsAt(c) + i - 1)]
        /\ \A i, j \in 1..n : nth[i] = nth[j] => i = j
  <2> HIDE DEF q
  <2>1. QED BY <1>b
<1>2. \A k, at : /\ Given(c, k, at).e = "call"
                 /\ Given(c, k, at).call = [from |-> c.attempt, what |-> c.calls[k]]
                 /\ Given(c, k, at).call.what = c.calls[k]
  BY DEF Given, Called
<1>3. ASSUME NEW i \in DOMAIN s PROVE s[i].e # "call"
  <2>1. SUFFICES ASSUME s[i].e = "call" PROVE FALSE OBVIOUS
  <2>2. s[i].call \in ToldCalls(s) BY <2>1 DEF ToldCalls, In
  <2>3. QED BY <2>2
<1>4. Quiet(<<Ended(last)>>) /\ Ended(last).e = "end" BY Quieten DEF Ended
<1> HIDE DEF q
<1>5. Listed(q) BY <1>1 DEF Listed
<1>6. /\ Listed(t) /\ In(t) = In(s) \cup In(q)
      /\ \A i \in 1..Len(s) : t[i] = s[i]
      /\ \A i \in 1..Len(q) : t[Len(s) + i] = q[i]
      /\ DOMAIN s = 1..Len(s) /\ Len(s) \in Nat
      /\ DOMAIN q = 1..Len(q) /\ Len(q) \in Nat
      /\ DOMAIN t = 1..(Len(s) + Len(q))
  BY <1>5, Concatenation
<1>7. \A e \in In(q) : \E k \in K : \E at : e = Given(c, k, at) BY <1>1 DEF In
<1>8. Spoken(t) = Spoken(s)
  <2>1. \A e \in In(q) : e.e = "call" BY <1>2, <1>7
  <2>2. {f \in In(t) : f.e = "grow" /\ f.kind = "text"} = {f \in In(s) : f.e = "grow" /\ f.kind = "text"}
    BY <1>6, <2>1
  <2>3. QED BY <2>2 DEF Spoken
<1>9. ASSUME NEW call \in ToldCalls(t)
      PROVE  \E k \in K : call = [from |-> c.attempt, what |-> c.calls[k]]
  <2>1. PICK f \in In(t) : f.e = "call" /\ call = f.call BY DEF ToldCalls
  <2>2. f \notin In(s) BY <1>3, <2>1 DEF In
  <2>3. f \in In(q) BY <1>6, <2>2
  <2>4. \E k \in K : \E at : f = Given(c, k, at) BY <1>7, <2>3
  <2>5. PICK k \in K : \E at : f = Given(c, k, at) BY <2>4
  <2>6. PICK at : f = Given(c, k, at) BY <2>5
  <2>7. QED BY <1>2, <2>1, <2>6
<1>10. ASSUME \A k, l \in K : c.calls[k] = c.calls[l] => k = l,
             NEW m \in DOMAIN t, NEW o \in DOMAIN t,
             t[m].e = "call", t[o].e = "call", t[m].call.what = t[o].call.what
       PROVE  m = o
  <2>1. m \in Int /\ o \in Int /\ m \notin 1..Len(s) /\ o \notin 1..Len(s) BY <1>3, <1>6, <1>10
  <2>2. m - Len(s) \in 1..Len(q) /\ o - Len(s) \in 1..Len(q) BY <1>6, <2>1
  <2>3. m = Len(s) + (m - Len(s)) /\ o = Len(s) + (o - Len(s)) BY <1>6, <2>1
  <2>4. t[m] = q[m - Len(s)] /\ t[o] = q[o - Len(s)] BY <1>6, <2>2, <2>3
  <2>5. DOMAIN q = 1..n BY <1>1
  <2>6. m - Len(s) \in 1..n /\ o - Len(s) \in 1..n BY <1>6, <2>2, <2>5
  <2>7. \E x, y : t[m] = Given(c, nth[m - Len(s)], x) /\ t[o] = Given(c, nth[o - Len(s)], y) BY <1>1, <2>4, <2>6
  <2>8. t[m].call.what = c.calls[nth[m - Len(s)]] /\ t[o].call.what = c.calls[nth[o - Len(s)]]
    BY <1>2, <2>7
  <2>9. nth[m - Len(s)] \in K /\ nth[o - Len(s)] \in K BY <1>1, <2>6
  <2>10. nth[m - Len(s)] = nth[o - Len(s)] BY <1>10, <2>8, <2>9
  <2>11. m - Len(s) = o - Len(s) BY <1>1, <2>6, <2>10
  <2>12. QED BY <2>3, <2>11
<1> HIDE DEF t
<1>11. Listed(r) /\ Spoken(r) = Spoken(s) /\ ToldCalls(r) = ToldCalls(t) BY <1>4, <1>6, <1>8, Silence
<1>12. /\ \A i \in 1..Len(t) : r[i] = t[i]
       /\ DOMAIN t = 1..Len(t) /\ Len(t) \in Nat
       /\ Len(<<Ended(last)>>) = 1 /\ <<Ended(last)>>[1] = Ended(last)
       /\ DOMAIN r = 1..(Len(t) + 1)
       /\ r[Len(t) + 1] = Ended(last)
  <2>1. Listed(<<Ended(last)>>) BY Short
  <2>2. Len(<<Ended(last)>>) = 1 /\ <<Ended(last)>>[1] = Ended(last) OBVIOUS
  <2>3. QED BY <1>6, <2>1, <2>2, Concatenation
<1>13. h.out = r BY DEF t, q, Concluded
<1> HIDE DEF r
<1>14. ASSUME NEW m \in DOMAIN r, r[m].e = "call" PROVE m \in DOMAIN t /\ r[m] = t[m]
  <2>1. m # Len(t) + 1 BY <1>4, <1>12, <1>14
  <2>2. m \in 1..Len(t) BY <1>12, <2>1
  <2>3. QED BY <1>12, <2>2
<1>15. Framed /\ req.cc => OnceEach(wire.given, h.out)
  <2> SUFFICES ASSUME Framed /\ req.cc PROVE OnceEach(wire.given, h.out) OBVIOUS
  <2>1. ASSUME NEW m \in DOMAIN r, NEW o \in DOMAIN r,
               r[m].e = "call", r[o].e = "call", r[m].call.what = r[o].call.what
        PROVE  m = o
    BY <1>10, <1>14, <2>1
  <2>2. DOMAIN wire.given = {} OBVIOUS
  <2>3. QED BY <1>13, <2>1, <2>2 DEF OnceEach
<1>16. Calls(h) = ToldCalls(t) BY <1>11, <1>13, Short DEF Calls
<1>17. \A call \in Calls(h) : call.from = c.attempt /\ \E k \in K : call.what = c.calls[k]
  <2> SUFFICES ASSUME NEW call \in ToldCalls(t)
               PROVE  call.from = c.attempt /\ \E k \in K : call.what = c.calls[k]
    BY <1>16
  <2>1. PICK k \in K : call = [from |-> c.attempt, what |-> c.calls[k]] BY <1>9
  <2>2. QED BY <2>1
<1>18. Heard(h) = wire.text \cup Spoken(s) BY <1>11, <1>13 DEF Heard
<1>19. ~wire.thought => \A x \in AttemptsOf(Heard(h)) : x = c.attempt BY <1>18 DEF From, AttemptsOf
<1>20. wire.thought \/ \A x, y \in Sources(h) : x = y BY <1>17, <1>19 DEF Sources
<1>21. Framed => \A call \in Calls(h) : call.what \notin {"partial", "bad"} BY <1>17
<1>22. Consistent(h) BY <1>15, <1>20, <1>21 DEF Consistent
<1>23. QED BY <1>11, <1>13, <1>18, <1>22 DEF Says

-----------------------------------------------------------------------------
(* The invariant in a step *)

\* As long as the client takes nothing, what is said of the next generator may
\* be said of it now.
LEMMA Carried ==
  ASSUME wire' = wire, req' = req
  PROVE  /\ Typed(gen)' <=> Typed(gen')
         /\ Sound(gen)' <=> Sound(gen')
         /\ Shown(gen)' <=> Shown(gen')
         /\ Heard(gen)' = Heard(gen')
         /\ Consistent(gen)' <=> Consistent(gen')
         /\ Framed' = Framed
<1>1. Typed(gen)' <=> Typed(gen') BY DEF Typed
<1>2. Heard(gen)' = Heard(gen') BY DEF Heard
<1>3. Framed' = Framed BY DEF Framed
<1>4. Shown(gen)' <=> Shown(gen') BY <1>2, <1>3 DEF Shown
<1>5. Ready(gen)' <=> Ready(gen') BY <1>1, <1>2 DEF Ready
<1>6. Held(gen)' <=> Held(gen') BY DEF Held
<1>7. Begun(gen)' <=> Begun(gen') BY <1>2 DEF Begun, Seen
<1>8. Sound(gen)' <=> Sound(gen') BY <1>5, <1>6, <1>7 DEF Sound
<1>9. Calls(gen)' = Calls(gen') BY DEF Calls
<1>10. Sources(gen)' = Sources(gen') BY <1>2, <1>9 DEF Sources
<1>11. Consistent(gen)' <=> Consistent(gen') BY <1>3, <1>9, <1>10 DEF Consistent
<1>12. QED BY <1>1, <1>2, <1>3, <1>4, <1>8, <1>11

\* A step of a streaming handler that does not end the answer.
LEMMA GoesOn ==
  ASSUME KernelInv, stage \in Working, prep.mode # "collected",
         UNCHANGED <<req, prep, wire>>, stage' \in Working, Sound(gen'),
         stage' # "finish" => Shown(gen'),
         stage' = "fetch" => Heard(gen') = {}
  PROVE  KernelInv'
<1> USE Carried
<1>1. Typed(gen') /\ Ready(gen') BY DEF Sound, Ready
<1>2. stage' \notin Early /\ stage' \notin {"done", "gone"} BY DEF Early, Working
<1>3. Shapes' BY <1>1 DEF KernelInv, Shapes
<1>4. wire.given = <<>> BY DEF KernelInv, Stages
<1>5. Stages' BY <1>2, <1>4 DEF KernelInv, Stages
<1>6. Streaming' BY DEF Streaming
<1>7. Clean' BY <1>1 DEF Clean, Ready
<1>8. Consistent(gen)' BY <1>1, <1>4, ReadyIsConsistent DEF KernelInv, Shapes
<1>9. QED BY <1>3, <1>5, <1>6, <1>7, <1>8 DEF KernelInv

\* A step that ends it.
LEMMA GoesOut ==
  ASSUME KernelInv, UNCHANGED <<req, prep, wire>>, stage' = "done",
         Typed(gen'), gen'.calls = NoCalls => ~Leaky(Heard(gen')), Consistent(gen')
  PROVE  KernelInv'
<1> USE Carried
<1>1. stage' \notin Early /\ stage' \notin Working BY DEF Early, Working
<1>2. Shapes' BY DEF KernelInv, Shapes
<1>3. Stages' BY <1>1 DEF KernelInv, Stages
<1>4. Streaming' BY <1>1 DEF Streaming
<1>5. Clean' BY DEF Clean
<1>6. QED BY <1>2, <1>3, <1>4, <1>5 DEF KernelInv

\* A step that ends it with an error.
LEMMA Failing ==
  ASSUME KernelInv, wire.given = <<>>, NEW g, Ready(g),
         UNCHANGED <<req, prep, wire>>, stage' = "done",
         gen' = [g EXCEPT !.out = @ \o <<Ended("error")>>]
  PROVE  KernelInv'
<1> DEFINE h == [g EXCEPT !.out = @ \o <<Ended("error")>>]
<1>1. /\ DOMAIN h = Fields /\ h.calls = g.calls /\ h.attempt = g.attempt
      /\ h.out = g.out \o <<Ended("error")>>
  BY DEF Ready, Typed, Fields
<1> HIDE DEF h
<1>2. Listed(h.out) /\ Spoken(h.out) = Spoken(g.out) /\ ToldCalls(h.out) = ToldCalls(g.out)
  BY <1>1, Quieten, Silence DEF Ready, Typed
<1>3. Typed(h) BY <1>1, <1>2 DEF Ready, Typed
<1>4. Heard(h) = Heard(g) BY <1>2 DEF Heard
<1>5. Ready(h) BY <1>1, <1>2, <1>3, <1>4 DEF Ready
<1>6. gen' = h BY DEF h
<1>7. Consistent(gen') BY <1>5, <1>6, ReadyIsConsistent DEF KernelInv, Shapes
<1>8. QED BY <1>3, <1>5, <1>6, <1>7, GoesOut DEF Ready

-----------------------------------------------------------------------------
(* The stages before the handlers *)

\* Before the upstream is asked nothing was said.
LEMMA NotBegun ==
  ASSUME KernelInv, stage \in Early
  PROVE  /\ gen = FreshGen /\ wire = FreshWire /\ Sound(gen) /\ Shown(gen) /\ Heard(gen) = {}
         /\ DOMAIN FreshGen = Fields /\ FreshGen.out = <<>> /\ FreshGen.calls = NoCalls
<1>1. gen = FreshGen /\ wire = FreshWire BY DEF KernelInv, Stages
<1>2. /\ DOMAIN FreshGen = Fields /\ FreshGen.out = <<>> /\ FreshGen.calls = NoCalls
      /\ FreshGen.held = {} /\ FreshGen.hold = {} /\ FreshGen.started = FALSE
  BY DEF FreshGen, Fields
<1>3. wire.text = {} BY <1>1 DEF FreshWire
<1>4. Sound(gen) /\ Shown(gen) /\ Heard(gen) = {} BY <1>1, <1>2, <1>3, Fresh
<1>5. QED BY <1>1, <1>2, <1>4

(* A request arrives. *)
LEMMA InitHolds ==
  ASSUME RequestsAssumption, Init
  PROVE  KernelInv
<1>1. /\ DOMAIN FreshGen = Fields /\ FreshGen.out = <<>> /\ FreshGen.calls = NoCalls
      /\ FreshGen.held = {} /\ FreshGen.hold = {} /\ FreshGen.started = FALSE
  BY DEF FreshGen, Fields
<1>2. gen = FreshGen /\ wire = FreshWire /\ stage = "guard" BY DEF Init
<1>3. wire.text = {} /\ wire.given = <<>> /\ wire.thought = FALSE /\ DOMAIN wire = WireFields
  BY <1>2 DEF FreshWire, WireFields
<1>4. Sound(gen) /\ Heard(gen) = {} BY <1>1, <1>2, <1>3, Fresh
<1>5. Ready(gen) /\ Typed(gen) BY <1>4 DEF Sound, Ready
<1>6. req.path \in {"messages", "chat"} /\ "mode" \in DOMAIN prep /\ prep.mode = "none"
  BY DEF Init, RequestsAssumption
<1>7. stage \in Early /\ stage \notin Working BY <1>2 DEF Early, Working
<1>8. Shapes BY <1>3, <1>5, <1>6, <1>7, Short DEF Shapes
<1>9. Stages BY <1>2, <1>6, <1>7 DEF Stages
<1>10. Streaming BY <1>7 DEF Streaming
<1>11. Clean BY <1>5 DEF Clean, Ready
<1>12. Consistent(gen) BY <1>3, <1>5, ReadyIsConsistent
<1>13. QED BY <1>8, <1>9, <1>10, <1>11, <1>12 DEF KernelInv

(* A request moves on to the next stage. *)
LEMMA Proceeding ==
  ASSUME KernelInv, stage \in Early, NEW next \in Early, NEW p, "mode" \in DOMAIN p, p.mode = prep.mode,
         Proceed(next, p)
  PROVE  KernelInv'
<1> USE Carried
<1>1. UNCHANGED <<req, gen, wire>> /\ stage' = next /\ prep' = p BY DEF Proceed
<1>2. next \notin Working /\ next \notin {"done", "gone"} BY DEF Early, Working
<1>3. Sound(gen) BY NotBegun
<1>4. Shapes' BY <1>1 DEF KernelInv, Shapes
<1>5. Stages' BY <1>1, <1>2 DEF KernelInv, Stages, FreshGen, NoCalls, FreshWire
<1>6. Streaming' BY <1>1, <1>2 DEF Streaming
<1>7. Clean' BY <1>1, <1>2, <1>3 DEF Clean, Sound, Ready
<1>8. Consistent(gen)' BY <1>1 DEF KernelInv
<1>9. QED BY <1>4, <1>5, <1>6, <1>7, <1>8 DEF KernelInv

(* A request is refused before it is sent. *)
LEMMA Rejecting ==
  ASSUME KernelInv, stage \in Early, Reject
  PROVE  KernelInv'
<1>1. Ready(gen) /\ gen = FreshGen /\ FreshGen.out = <<>> /\ DOMAIN FreshGen = Fields /\ wire.given = <<>>
  BY NotBegun DEF Sound, FreshWire
<1>2. gen.out \o <<Ended("error")>> = <<Ended("error")>> BY <1>1
<1>3. gen' = [gen EXCEPT !.out = @ \o <<Ended("error")>>] BY <1>2 DEF Reject
<1>4. stage' = "done" /\ UNCHANGED <<req, prep, wire>> BY DEF Reject
<1>5. QED BY <1>1, <1>3, <1>4, Failing

(* The guard, the governor and the rewriting of the history. *)
LEMMA EarlySteps ==
  ASSUME KernelInv,
         GuardBefore \/ Govern \/ GuardAfter \/ Translate \/ ShortenContext \/ AnchorInstruction \/ Canonicalize
  PROVE  KernelInv'
<1>1. "mode" \in DOMAIN prep BY DEF KernelInv, Shapes
<1>2. CASE GuardBefore
  <2>1. stage \in Early BY <1>2 DEF GuardBefore, At, Early
  <2>2. CASE Reject BY <2>1, <2>2, Rejecting
  <2>3. CASE ~Reject
    <3> DEFINE guarded == Guarded(req.path, Body, RawMarkers)
               p == [prep EXCEPT !.ms = guarded.body.ms, !.tools = guarded.body.tools,
                                 !.forced = guarded.applied \/ guarded.preInvalid]
    <3>1. Proceed("govern", p) BY <1>2, <2>3 DEF GuardBefore
    <3>2. "mode" \in DOMAIN p /\ p.mode = prep.mode BY <1>1
    <3>3. "govern" \in Early BY DEF Early
    <3> HIDE DEF p
    <3>4. QED BY <2>1, <3>1, <3>2, <3>3, Proceeding
  <2>4. QED BY <2>2, <2>3
<1>3. CASE Govern
  <2>1. stage \in Early BY <1>3 DEF Govern, At, Early
  <2>2. CASE Reject BY <2>1, <2>2, Rejecting
  <2>3. CASE ~Reject
    <3> DEFINE governed == Governed(req.path, prep.ms, req.exempt)
               p == [prep EXCEPT !.ms = governed.ms, !.forced = @ \/ governed.trimmed]
    <3>1. Proceed("guardAgain", p) BY <1>3, <2>3 DEF Govern
    <3>2. "mode" \in DOMAIN p /\ p.mode = prep.mode BY <1>1
    <3>3. "guardAgain" \in Early BY DEF Early
    <3> HIDE DEF p
    <3>4. QED BY <2>1, <3>1, <3>2, <3>3, Proceeding
  <2>4. QED BY <2>2, <2>3
<1>4. CASE GuardAfter
  <2>1. stage \in Early BY <1>4 DEF GuardAfter, At, Early
  <2>2. CASE Reject BY <2>1, <2>2, Rejecting
  <2>3. CASE ~Reject
    <3> DEFINE guarded == Guarded(req.path, Body, prep.forced)
               p == [prep EXCEPT !.ms = guarded.body.ms, !.tools = guarded.body.tools]
    <3>1. Proceed("translate", p) BY <1>4, <2>3 DEF GuardAfter
    <3>2. "mode" \in DOMAIN p /\ p.mode = prep.mode BY <1>1
    <3>3. "translate" \in Early BY DEF Early
    <3> HIDE DEF p
    <3>4. QED BY <2>1, <3>1, <3>2, <3>3, Proceeding
  <2>4. QED BY <2>2, <2>3
<1>5. CASE Translate
  <2> DEFINE p == [prep EXCEPT !.ms = IF req.path = "messages" THEN AnthropicToOpenai(@) ELSE @]
  <2>1. stage \in Early /\ "shorten" \in Early BY <1>5 DEF Translate, At, Early
  <2>2. Proceed("shorten", p) BY <1>5 DEF Translate
  <2>3. "mode" \in DOMAIN p /\ p.mode = prep.mode BY <1>1
  <2> HIDE DEF p
  <2>4. QED BY <2>1, <2>2, <2>3, Proceeding
<1>6. CASE ShortenContext
  <2> DEFINE p == [prep EXCEPT !.ms = Shortest(prep.ms).ms, !.compacted = Shortest(prep.ms).n > 0,
                               !.before = PromptTokens(prep.ms)]
  <2>1. stage \in Early /\ "anchor" \in Early BY <1>6 DEF ShortenContext, At, Early
  <2>2. Proceed("anchor", p) BY <1>6 DEF ShortenContext
  <2>3. "mode" \in DOMAIN p /\ p.mode = prep.mode BY <1>1
  <2> HIDE DEF p
  <2>4. QED BY <2>1, <2>2, <2>3, Proceeding
<1>7. CASE AnchorInstruction
  <2> DEFINE anchors == req.cc /\ prep.compacted
             reduces == anchors /\ req.stream /\ ReducesToExact(prep.ms)
             p == [prep EXCEPT !.ms = IF reduces THEN ReduceToExact(@) ELSE IF anchors THEN AppendAnchor(@) ELSE @,
                               !.tools = IF reduces THEN "none" ELSE @, !.reduced = reduces]
  <2>1. stage \in Early /\ "canonicalize" \in Early BY <1>7 DEF AnchorInstruction, At, Early
  <2>2. Proceed("canonicalize", p) BY <1>7 DEF AnchorInstruction
  <2>3. "mode" \in DOMAIN p /\ p.mode = prep.mode BY <1>1
  <2> HIDE DEF p
  <2>4. QED BY <2>1, <2>2, <2>3, Proceeding
<1>8. CASE Canonicalize
  <2> DEFINE ms == CanonicalizeToolHistory(prep.ms)
             p == [prep EXCEPT !.ms = ms, !.exact = UserTexts(ms, {"exact"}) # {},
                               !.risky = Downgraded(prep.ms, ms) \/ HasHistory(ms) \/ prep.tools = "invalid"]
  <2>1. stage \in Early /\ "dispatch" \in Early BY <1>8 DEF Canonicalize, At, Early
  <2>2. Proceed("dispatch", p) BY <1>8 DEF Canonicalize
  <2>3. "mode" \in DOMAIN p /\ p.mode = prep.mode BY <1>1
  <2> HIDE DEF p
  <2>4. QED BY <2>1, <2>2, <2>3, Proceeding
<1>9. QED BY <1>2, <1>3, <1>4, <1>5, <1>6, <1>7, <1>8

(* A list is a sequence. *)
LEMMA Member ==
  ASSUME NEW s, Listed(s), NEW E, In(s) \subseteq E
  PROVE  s \in Seq(E)
BY DEF Listed, In

(* Concatenation is associative. *)
LEMMA Associating ==
  ASSUME NEW s, Listed(s), NEW t, Listed(t), NEW u, Listed(u)
  PROVE  (s \o t) \o u = s \o (t \o u)
<1> DEFINE E == In(s) \cup In(t) \cup In(u)
<1>1. s \in Seq(E) /\ t \in Seq(E) /\ u \in Seq(E) BY Member
<1> HIDE DEF E
<1>2. QED BY <1>1, ConcatAssociative

\* An answer of one text: what comes before and after it is quiet.
LEMMA OneText ==
  ASSUME NEW s, NEW t, Quiet(s), Quiet(t), NEW said, NEW at
  PROVE  LET r == (s \o <<Grown("text", said, at)>>) \o t IN
         Listed(r) /\ Spoken(r) = said /\ ToldCalls(r) = {}
<1>1. Listed(s) /\ Spoken(s) = {} /\ ToldCalls(s) = {} BY DEF Quiet, Spoken, ToldCalls
<1> DEFINE m == s \o <<Grown("text", said, at)>>
<1>2. Listed(m) BY <1>1, Growing
<1>3. Spoken(m) = Spoken(s) \cup said BY <1>1, Growing
<1>4. ToldCalls(m) = ToldCalls(s)
  <2> HIDE DEF m
  <2>1. Listed(s) BY <1>1
  <2>2. ToldCalls(s \o <<Grown("text", said, at)>>) = ToldCalls(s) BY <2>1, Growing
  <2>3. QED BY <2>2 DEF m
<1> HIDE DEF m
<1>5. Listed(m \o t) /\ Spoken(m \o t) = Spoken(m) /\ ToldCalls(m \o t) = ToldCalls(m) BY <1>2, Silence
<1>6. QED BY <1>1, <1>3, <1>4, <1>5 DEF m

(* A request is sent, or answered without the upstream. *)
LEMMA Dispatching ==
  ASSUME KernelInv, Dispatch
  PROVE  KernelInv'
<1>1. stage \in Early BY DEF Dispatch, At, Early
<1>2. /\ gen = FreshGen /\ wire = FreshWire /\ Sound(gen) /\ Shown(gen) /\ Heard(gen) = {}
      /\ DOMAIN FreshGen = Fields /\ FreshGen.out = <<>> /\ FreshGen.calls = NoCalls
  BY <1>1, NotBegun
<1>3. CASE AnsweredHere
  <2> DEFINE s == <<Started>> \o Opening(FALSE, "text", 0)
             t == (IF Framed THEN <<Closed("text", 0)>> ELSE <<>>) \o <<Ended("stop")>>
             r == (s \o <<Grown("text", Own(gen), 0)>>) \o t
             h == [gen EXCEPT !.out = r]
  <2>1. Quiet(s)
    <3>1. Quiet(<<Started>>) /\ Quiet(Opening(FALSE, "text", 0)) BY Quieten
    <3>2. Listed(<<Started>>) BY <3>1 DEF Quiet
    <3>3. QED BY <3>1, <3>2, Silence
  <2>2. Quiet(t)
    <3> DEFINE a == IF Framed THEN <<Closed("text", 0)>> ELSE <<>>
    <3>1. Quiet(a) /\ Quiet(<<Ended("stop")>>) BY Quieten
    <3>2. Listed(a) BY <3>1 DEF Quiet
    <3> HIDE DEF a
    <3>3. Quiet(a \o <<Ended("stop")>>) BY <3>1, <3>2, Silence
    <3>4. QED BY <3>3 DEF a
  <2>3. gen' = h /\ stage' = "done" /\ UNCHANGED <<req, prep, wire>>
    <3>1. gen' = [gen EXCEPT !.out = <<Started>> \o Opening(FALSE, "text", 0) \o <<Grown("text", Own(gen), 0)>>
                    \o (IF Framed THEN <<Closed("text", 0)>> ELSE <<>>) \o <<Ended("stop")>>]
          /\ stage' = "done" /\ UNCHANGED <<req, prep, wire>>
      BY <1>3 DEF Dispatch
    <3>2. <<Started>> \o Opening(FALSE, "text", 0) \o <<Grown("text", Own(gen), 0)>>
                    \o (IF Framed THEN <<Closed("text", 0)>> ELSE <<>>) \o <<Ended("stop")>> = r
      <4> DEFINE x == <<Started>>
                 y == Opening(FALSE, "text", 0)
                 z == <<Grown("text", Own(gen), 0)>>
                 v == IF Framed THEN <<Closed("text", 0)>> ELSE <<>>
                 w == <<Ended("stop")>>
                 E == In(x) \cup In(y) \cup In(z) \cup In(v) \cup In(w)
      <4>1. Listed(x) /\ Listed(y) /\ Listed(z) /\ Listed(v) /\ Listed(w) BY Quieten, Short DEF Quiet
      <4> HIDE DEF x, y, z, v, w
      <4>2. x \in Seq(E) /\ y \in Seq(E) /\ z \in Seq(E) /\ v \in Seq(E) /\ w \in Seq(E)
        BY <4>1, Member
      <4> HIDE DEF E
      <4> DEFINE a == (x \o y) \o z
      <4>3. a \in Seq(E) BY <4>2
      <4> HIDE DEF a
      <4>4. (a \o v) \o w = a \o (v \o w) BY <4>2, <4>3, ConcatAssociative
      <4>5. QED BY <4>4 DEF a, x, y, z, v, w
    <3>3. QED BY <3>1, <3>2
  <2>4. Listed(r) /\ Spoken(r) = Own(gen) /\ ToldCalls(r) = {}
    <3> HIDE DEF s, t
    <3>1. QED BY <2>1, <2>2, OneText
  <2> HIDE DEF s, t, r
  <2>5. DOMAIN h = Fields /\ h.out = r /\ h.calls = NoCalls /\ h.attempt = gen.attempt BY <1>2
  <2> HIDE DEF h
  <2>6. Typed(h) BY <2>4, <2>5, NoCallsTyped DEF Typed
  <2>7. wire.text = {} /\ wire.given = <<>> /\ wire.thought = FALSE BY <1>2 DEF FreshWire
  <2>8. Heard(h) = Own(gen) BY <2>4, <2>5, <2>7 DEF Heard
  <2>9. Ready(h) BY <2>4, <2>5, <2>6, <2>8, OwnIsClean DEF Ready
  <2>10. Consistent(h) BY <2>7, <2>9, ReadyIsConsistent
  <2>11. QED BY <2>3, <2>6, <2>9, <2>10, GoesOut DEF Ready
<1>4. CASE ~AnsweredHere
  <2> USE Carried
  <2> DEFINE p == [prep EXCEPT !.ms = <<>>, !.before = 0, !.forced = FALSE, !.compacted = FALSE,
                               !.reduced = FALSE, !.mode = Mode]
  <2>1. stage' = "fetch" /\ prep' = p /\ UNCHANGED <<req, gen, wire>> BY <1>4 DEF Dispatch, Proceed
  <2>2. "mode" \in DOMAIN p /\ p.mode = Mode BY DEF KernelInv, Shapes
  <2> HIDE DEF p
  <2>3. (Mode = "anthropic" => Framed) /\ (Mode = "openai" => ~Framed)
    BY DEF Mode, KernelInv, Shapes, Framed
  <2>4. stage' \in Working /\ stage' \notin Early /\ stage' \notin {"gone"} BY <2>1 DEF Working, Early
  <2>5. Shapes' BY <2>1, <2>2, <2>4 DEF KernelInv, Shapes
  <2>6. wire.given = <<>> /\ wire.text = {} /\ gen.out = <<>> BY <1>2 DEF FreshWire
  <2>7. Stages' BY <2>1, <2>2, <2>3, <2>4, <2>6 DEF Stages
  <2>8. Streaming' BY <1>2, <2>1 DEF Streaming
  <2>9. Clean' BY <1>2, <2>1 DEF Clean, Sound, Ready
  <2>10. Consistent(gen)' BY <2>1 DEF KernelInv
  <2>11. QED BY <2>5, <2>7, <2>8, <2>9, <2>10 DEF KernelInv
<1>5. QED BY <1>3, <1>4

(* A list with one more element. *)
LEMMA Appending ==
  ASSUME NEW s, Listed(s), NEW e
  PROVE  /\ Listed(Append(s, e)) /\ In(Append(s, e)) = In(s) \cup {e}
         /\ DOMAIN s = 1..Len(s) /\ Len(s) \in Nat /\ DOMAIN Append(s, e) = 1..(Len(s) + 1)
         /\ \A i \in 1..Len(s) : Append(s, e)[i] = s[i]
         /\ Append(s, e)[Len(s) + 1] = e
<1> DEFINE E == In(s) \cup {e}
           t == Append(s, e)
<1>1. s \in Seq(E) BY Member
<1>2. t \in Seq(E) /\ Len(t) = Len(s) + 1 /\ DOMAIN s = 1..Len(s) /\ Len(s) \in Nat /\ DOMAIN t = 1..(Len(s) + 1)
      /\ (\A i \in 1..Len(s) : t[i] = s[i]) /\ t[Len(s) + 1] = e
  BY <1>1
<1> HIDE DEF t
<1>3. Listed(t)
  <2>1. Len(t) \in Nat /\ t \in [1..Len(t) -> E] BY <1>2, LenProperties, Zenon
  <2>2. t = [i \in 1..Len(t) |-> t[i]] BY <2>1, Zenon
  <2>3. QED BY <2>1, <2>2, Zenon DEF Listed
<1>4. In(t) = In(s) \cup {e}
  <2>1. ASSUME NEW i \in DOMAIN t PROVE t[i] \in E
    BY <1>2
  <2>2. ASSUME NEW i \in DOMAIN s PROVE s[i] \in In(t)
    <3>1. i \in DOMAIN t /\ t[i] = s[i] BY <1>2
    <3>2. QED BY <3>1 DEF In
  <2>3. e \in In(t)
    <3>1. Len(s) + 1 \in DOMAIN t BY <1>2
    <3>2. QED BY <1>2, <3>1 DEF In
  <2>4. QED BY <2>1, <2>2, <2>3 DEF In
<1>5. QED BY <1>2, <1>3, <1>4 DEF t

-----------------------------------------------------------------------------
(* Delivery, and a client that hangs up *)

(* What the client has when it has taken an event. *)
LEMMA Receiving ==
  ASSUME NEW w, DOMAIN w = WireFields, NEW e
  PROVE  LET x == Received(w, e) IN
         /\ DOMAIN x = WireFields
         /\ x.text = IF e.e = "grow" /\ e.kind = "text" THEN w.text \cup e.text ELSE w.text
         /\ x.thought = IF e.e = "grow" /\ e.kind # "text" THEN TRUE ELSE w.thought
         /\ x.given = IF e.e = "call" THEN Append(w.given, e.call) ELSE w.given
BY DEF Received, WireFields

(* A call that is delivered is still given once. *)
LEMMA OnceStill ==
  ASSUME NEW given, Listed(given), NEW out, Listed(out), out # <<>>, OnceEach(given, out), NEW next,
         next = IF Head(out).e = "call" THEN Append(given, Head(out).call) ELSE given
  PROVE  OnceEach(next, Tail(out))
<1> DEFINE e == Head(out)
           t == Tail(out)
<1>1. /\ e = out[1]
      /\ DOMAIN out = 1..Len(out) /\ Len(out) \in Nat \ {0}
      /\ DOMAIN t = 1..(Len(out) - 1)
      /\ \A i \in 1..(Len(out) - 1) : t[i] = out[i + 1]
  BY Taken
<1> HIDE DEF t
<1>2. \A i \in DOMAIN t : i \in Int /\ i + 1 \in DOMAIN out /\ i + 1 # 1 /\ t[i] = out[i + 1] BY <1>1
<1>3. ASSUME NEW m \in DOMAIN t, NEW n \in DOMAIN t, t[m].e = "call", t[n].e = "call", t[m].call.what = t[n].call.what
      PROVE  m = n
  <2>1. m + 1 = n + 1 BY <1>2, <1>3 DEF OnceEach
  <2>2. QED BY <1>2, <2>1
<1>4. CASE e.e # "call"
  <2>1. next = given BY <1>4
  <2>2. \A m \in DOMAIN given, n \in DOMAIN t : t[n].e = "call" => given[m].what # t[n].call.what
    BY <1>2 DEF OnceEach
  <2>3. QED BY <1>3, <2>1, <2>2 DEF OnceEach, t
<1>5. CASE e.e = "call"
  <2>1. next = Append(given, e.call) BY <1>5
  <2>2. /\ DOMAIN given = 1..Len(given) /\ Len(given) \in Nat /\ DOMAIN next = 1..(Len(given) + 1)
        /\ \A i \in 1..Len(given) : next[i] = given[i]
        /\ next[Len(given) + 1] = e.call
    BY <2>1, Appending
  <2>3. 1 \in DOMAIN out /\ out[1] = e BY <1>1
  <2> HIDE DEF e
  <2>4. \A m \in DOMAIN given : given[m].what # e.call.what BY <1>5, <2>3 DEF OnceEach
  <2>5. \A n \in DOMAIN t : t[n].e = "call" => e.call.what # t[n].call.what
    BY <1>2, <1>5, <2>3 DEF OnceEach
  <2>6. \A m \in DOMAIN given, n \in DOMAIN t : t[n].e = "call" => given[m].what # t[n].call.what
    BY <1>2 DEF OnceEach
  <2>7. \A m \in DOMAIN next : (m \in DOMAIN given /\ next[m] = given[m]) \/ (m = Len(given) + 1 /\ next[m] = e.call)
    BY <2>2
  <2>8. \A m, n \in DOMAIN given : given[m].what = given[n].what => m = n BY DEF OnceEach
  <2>9. \A m, n \in DOMAIN next : next[m].what = next[n].what => m = n BY <2>4, <2>7, <2>8
  <2>10. \A m \in DOMAIN next, n \in DOMAIN t : t[n].e = "call" => next[m].what # t[n].call.what
    BY <2>5, <2>6, <2>7
  <2>11. QED BY <1>3, <2>9, <2>10 DEF OnceEach, t
<1>6. QED BY <1>4, <1>5

(* The client takes an event: what it hears stays the same. *)
LEMMA Delivering ==
  ASSUME KernelInv, Deliver
  PROVE  KernelInv'
<1> DEFINE e == Head(gen.out)
           t == Tail(gen.out)
<1>1. /\ gen.out # <<>> /\ wire' = Received(wire, e) /\ gen' = [gen EXCEPT !.out = t]
      /\ UNCHANGED <<req, stage, prep>>
  BY DEF Deliver
<1>2. /\ Typed(gen) /\ DOMAIN wire = WireFields /\ wire.thought \in BOOLEAN /\ Listed(wire.given)
      /\ Listed(gen.out)
  BY DEF KernelInv, Shapes, Typed
<1>3. /\ DOMAIN gen' = Fields /\ gen'.out = t /\ gen'.attempt = gen.attempt /\ gen'.calls = gen.calls
      /\ gen'.started = gen.started /\ gen'.text = gen.text /\ gen'.textOpen = gen.textOpen
      /\ gen'.held = gen.held /\ gen'.hold = gen.hold
  BY <1>1, <1>2 DEF Typed, Fields
<1>4. /\ Listed(t) /\ In(gen.out) = {e} \cup In(t) /\ e = gen.out[1]
      /\ DOMAIN gen.out = 1..Len(gen.out) /\ Len(gen.out) \in Nat \ {0}
      /\ DOMAIN t = 1..(Len(gen.out) - 1)
      /\ \A i \in 1..(Len(gen.out) - 1) : t[i] = gen.out[i + 1]
  BY <1>1, <1>2, Taken
<1> HIDE DEF e, t
<1>5. /\ DOMAIN wire' = WireFields
      /\ wire'.text = IF e.e = "grow" /\ e.kind = "text" THEN wire.text \cup e.text ELSE wire.text
      /\ wire'.thought = IF e.e = "grow" /\ e.kind # "text" THEN TRUE ELSE wire.thought
      /\ wire'.given = IF e.e = "call" THEN Append(wire.given, e.call) ELSE wire.given
  BY <1>1, <1>2, Receiving
<1>6. Heard(gen)' = Heard(gen)
  <2>1. CASE e.e = "grow" /\ e.kind = "text"
    <3>1. {f \in In(gen.out) : f.e = "grow" /\ f.kind = "text"}
            = {e} \cup {f \in In(t) : f.e = "grow" /\ f.kind = "text"} BY <1>4, <2>1
    <3>2. Spoken(gen.out) = e.text \cup Spoken(t) BY <3>1 DEF Spoken
    <3>3. QED BY <1>3, <1>5, <2>1, <3>2 DEF Heard
  <2>2. CASE ~(e.e = "grow" /\ e.kind = "text")
    <3>1. {f \in In(gen.out) : f.e = "grow" /\ f.kind = "text"}
            = {f \in In(t) : f.e = "grow" /\ f.kind = "text"} BY <1>4, <2>2
    <3>2. Spoken(gen.out) = Spoken(t) BY <3>1 DEF Spoken
    <3>3. QED BY <1>3, <1>5, <2>2, <3>2 DEF Heard
  <2>3. QED BY <2>1, <2>2
<1>7. wire.thought => wire'.thought BY <1>5
<1>8. Seen(gen) => Seen(gen)'
  <2>1. ASSUME NEW f \in In(gen.out), f.e = "grow" /\ f.kind = "thinking" PROVE wire'.thought \/ Mused(t)
    <3>1. CASE f = e BY <1>5, <2>1, <3>1
    <3>2. CASE f \in In(t) BY <2>1, <3>2 DEF Mused
    <3>3. QED BY <1>4, <3>1, <3>2
  <2>2. QED BY <1>3, <1>7, <2>1 DEF Seen, Mused
<1>9. Listed(wire'.given) /\ Calls(gen)' = Calls(gen)
      /\ ToldCalls(t) \subseteq ToldCalls(gen.out) /\ (e.e = "call" => e.call \in ToldCalls(gen.out))
  <2>1. CASE e.e = "call"
    <3>1. {f \in In(gen.out) : f.e = "call"} = {e} \cup {f \in In(t) : f.e = "call"} BY <1>4, <2>1
    <3>2. ToldCalls(gen.out) = {e.call} \cup ToldCalls(t) BY <3>1 DEF ToldCalls
    <3>3. Listed(wire'.given) /\ In(wire'.given) = In(wire.given) \cup {e.call}
      BY <1>2, <1>5, <2>1, Appending
    <3>4. QED BY <1>3, <3>2, <3>3 DEF Calls
  <2>2. CASE e.e # "call"
    <3>1. {f \in In(gen.out) : f.e = "call"} = {f \in In(t) : f.e = "call"} BY <1>4, <2>2
    <3>2. ToldCalls(gen.out) = ToldCalls(t) BY <3>1 DEF ToldCalls
    <3>3. QED BY <1>2, <1>3, <1>5, <2>2, <3>2 DEF Calls
  <2>3. QED BY <2>1, <2>2
<1>10. Framed' = Framed /\ req' = req BY <1>1 DEF Framed
<1>11. OnceEach(wire.given, gen.out) => OnceEach(wire'.given, gen'.out)
  <2>1. wire'.given = IF Head(gen.out).e = "call" THEN Append(wire.given, Head(gen.out).call) ELSE wire.given
    BY <1>5 DEF e
  <2>2. gen'.out = Tail(gen.out) BY <1>3 DEF t
  <2>3. QED BY <1>1, <1>2, <2>1, <2>2, OnceStill
<1>12. Shapes'
  <2>1. Typed(gen)' BY <1>2, <1>3, <1>4 DEF Typed
  <2>2. QED BY <1>1, <1>2, <1>5, <1>9, <2>1 DEF KernelInv, Shapes
<1>13. stage \notin Early /\ stage # "gone" /\ ~(stage \in Working /\ prep.mode = "collected")
  BY <1>1 DEF KernelInv, Stages, FreshGen
<1>14. stage \in Working => wire'.given = <<>>
  <2> SUFFICES ASSUME stage \in Working PROVE wire'.given = <<>> OBVIOUS
  <2>1. ToldCalls(gen.out) = {} BY <1>13 DEF KernelInv, Streaming, Sound, Ready
  <2>2. e.e # "call" BY <1>9, <2>1
  <2>3. QED BY <1>5, <2>2 DEF KernelInv, Stages
<1>15. Stages' BY <1>1, <1>10, <1>13, <1>14 DEF KernelInv, Stages
<1>16. Streaming'
  <2> SUFFICES ASSUME stage \in Working, prep.mode # "collected"
               PROVE  /\ Sound(gen)'
                      /\ stage # "finish" => Shown(gen)'
                      /\ stage = "fetch" => Heard(gen)' = {}
    BY <1>1 DEF Streaming
  <2>1. /\ Sound(gen)
        /\ stage # "finish" => Shown(gen)
        /\ stage = "fetch" => Heard(gen) = {}
    BY DEF KernelInv, Streaming
  <2>2. Ready(gen)'
    <3>1. ToldCalls(gen'.out) = {} BY <1>3, <1>9, <2>1 DEF Sound, Ready
    <3>2. Typed(gen)' BY <1>12 DEF Shapes
    <3>3. QED BY <1>3, <1>6, <1>7, <2>1, <3>1, <3>2 DEF Sound, Ready
  <2>3. Held(gen)' BY <1>3, <1>7, <2>1 DEF Sound, Held
  <2>4. Begun(gen)' BY <1>3, <1>6, <1>8, <2>1 DEF Sound, Begun
  <2>5. Shown(gen) => Shown(gen)' BY <1>3, <1>6, <1>10 DEF Shown
  <2>6. QED BY <1>6, <2>1, <2>2, <2>3, <2>4, <2>5 DEF Sound
<1>17. Clean' BY <1>1, <1>3, <1>6 DEF KernelInv, Clean
<1>18. Consistent(gen)'
  <2>1. Consistent(gen) BY DEF KernelInv
  <2>2. Sources(gen)' = Sources(gen) BY <1>6, <1>9 DEF Sources
  <2>3. QED BY <1>7, <1>9, <1>10, <1>11, <2>1, <2>2 DEF Consistent
<1>19. QED BY <1>12, <1>15, <1>16, <1>17, <1>18 DEF KernelInv

(* The generator is dropped with what it held. *)
LEMMA HangingUp ==
  ASSUME KernelInv, HangUp
  PROVE  KernelInv'
<1> USE Carried
<1>1. stage' = "gone" /\ gen' = FreshGen /\ UNCHANGED <<req, prep, wire>> BY DEF HangUp
<1>2. stage' \notin Early /\ stage' \notin Working BY <1>1 DEF Early, Working
<1>3. DOMAIN FreshGen = Fields /\ FreshGen.out = <<>> /\ FreshGen.calls = NoCalls BY DEF FreshGen, Fields
<1>4. Typed(gen') BY <1>1, <1>3, NoCallsTyped, Short DEF Typed
<1>5. Shapes' BY <1>1, <1>4 DEF KernelInv, Shapes
<1>6. Stages' BY <1>1, <1>2 DEF KernelInv, Stages
<1>7. Streaming' BY <1>2 DEF Streaming
<1>8. Clean' BY <1>1 DEF Clean
<1>9. Consistent(gen')
  <2>1. Heard(gen') = wire.text /\ Calls(gen') = In(wire.given)
    BY <1>1, <1>3, Nothing DEF Heard, Calls
  <2>2. Heard(gen') \subseteq Heard(gen) /\ Calls(gen') \subseteq Calls(gen) BY <2>1 DEF Heard, Calls
  <2>3. Sources(gen') \subseteq Sources(gen) BY <2>2 DEF Sources, AttemptsOf
  <2>4. OnceEach(wire.given, gen.out) => OnceEach(wire.given, gen'.out)
    <3>1. DOMAIN gen'.out = {} BY <1>1, <1>3
    <3>2. QED BY <3>1 DEF OnceEach
  <2>5. Consistent(gen) BY DEF KernelInv
  <2>6. QED BY <2>2, <2>3, <2>4, <2>5 DEF Consistent
<1>10. Consistent(gen)' BY <1>1, <1>9
<1>11. QED BY <1>5, <1>6, <1>7, <1>8, <1>10 DEF KernelInv

-----------------------------------------------------------------------------
(* The Anthropic handler *)

(* The instance computes the texts and calls as the state module does. *)
LEMMA AnthropicTexts ==
  /\ A!FreshGen = FreshGen /\ A!NoCalls = NoCalls /\ A!RepairedCall = RepairedCall
  /\ \A kind, n : A!Piece(kind, n) = Piece(kind, n)
  /\ \A hold, piece : A!Released(hold, piece) = Released(hold, piece)
  /\ \A hold : A!Flushed(hold) = Flushed(hold)
  /\ \A calls, n, what : A!Merged(calls, n, what) = Merged(calls, n, what)
  /\ \A calls : A!Streamable(calls) = Streamable(calls)
  /\ \A stop : A!Ended(stop) = Ended(stop)
  /\ A!Framed = Framed
<1>1. A!NoCalls = NoCalls BY DEF A!NoCalls, NoCalls
<1>2. A!FreshGen = FreshGen BY <1>1 DEF A!FreshGen, FreshGen
<1>3. \A calls, n, what : A!Merged(calls, n, what) = Merged(calls, n, what) BY DEF A!Merged, Merged
<1>4. A!RepairedCall = RepairedCall BY <1>1, <1>3 DEF A!RepairedCall, RepairedCall
<1>5. \A kind, n : A!Piece(kind, n) = Piece(kind, n) BY DEF A!Piece, Piece
<1>6. \A text : A!Leaky(text) <=> Leaky(text) BY DEF A!Leaky, A!Has, Leaky, Has
<1>7. \A hold, piece : A!HeldBack(hold, piece) = HeldBack(hold, piece) BY <1>6 DEF A!HeldBack, HeldBack
<1>8. \A hold, piece : A!Released(hold, piece) = Released(hold, piece) BY <1>6, <1>7 DEF A!Released, Released
<1>9. \A hold : A!Flushed(hold) = Flushed(hold) BY <1>6 DEF A!Flushed, Flushed
<1>10. \A calls : A!Streamable(calls) = Streamable(calls) BY DEF A!Streamable, Streamable
<1>11. \A stop : A!Ended(stop) = Ended(stop) BY DEF A!Ended, Ended
<1>12. A!Framed = Framed BY DEF A!Framed, Framed
<1>13. QED BY <1>1, <1>2, <1>3, <1>4, <1>5, <1>8, <1>9, <1>10, <1>11, <1>12

(* And so it says them. *)
LEMMA AnthropicSaying ==
  /\ \A g : A!Starting(g) = Starting(g) /\ A!Own(g) = Own(g)
  /\ \A g, said : A!Say(g, said) = Say(g, said) /\ A!Think(g, said) = Think(g, said)
  /\ \A g, piece : /\ A!Pushed(g, piece) = Pushed(g, piece)
                   /\ A!Guarding(g, piece) = Guarding(g, piece)
                   /\ A!GuardingReasoning(g, piece) = GuardingReasoning(g, piece)
  /\ \A g : A!Drained(g) = Drained(g)
  /\ \A g, K : A!InOrder(g, K) = InOrder(g, K)
<1>1. \A g : A!Starting(g) = Starting(g) BY DEF A!Starting, Starting, A!Started, Started
<1>2. \A g : A!Own(g) = Own(g) BY DEF A!Own, Own, A!Piece, Piece
<1>3. \A open, kind, at : A!Opening(open, kind, at) = Opening(open, kind, at)
  BY DEF A!Opening, Opening, A!Framed, Framed, A!Opened, Opened
<1>4. \A kind, text, at : A!Grown(kind, text, at) = Grown(kind, text, at) BY DEF A!Grown, Grown
<1>5. \A g, said : A!Say(g, said) = Say(g, said) 
  BY <1>1, <1>3, <1>4 DEF A!Say, Say, A!Framed, Framed, A!TextAt, TextAt
<1>6. \A g, said : A!Think(g, said) = Think(g, said) 
  BY <1>1, <1>3, <1>4 DEF A!Think, Think, A!ThinkAt, ThinkAt
<1>7. \A text : A!Leaky(text) <=> Leaky(text) BY DEF A!Leaky, A!Has, Leaky, Has
<1>8. \A hold, piece : A!HeldBack(hold, piece) = HeldBack(hold, piece) BY <1>7 DEF A!HeldBack, HeldBack
<1>9. \A g, piece : A!Guarding(g, piece) = Guarding(g, piece) BY <1>7, <1>8 DEF A!Guarding, Guarding
<1>10. \A g, piece : A!GuardingReasoning(g, piece) = GuardingReasoning(g, piece)
  BY <1>7, <1>8 DEF A!GuardingReasoning, GuardingReasoning
<1>11. \A text : A!Unfinished(text) <=> Unfinished(text) BY DEF A!Unfinished, A!Has, Unfinished, Has
<1>12. A!NoCalls = NoCalls BY DEF A!NoCalls, NoCalls
<1>13. A!OffersTools <=> OffersTools BY DEF A!OffersTools, OffersTools
<1>14. \A g, piece : A!Pushed(g, piece) = Pushed(g, piece) BY <1>5, <1>11, <1>12, <1>13 DEF A!Pushed, Pushed
<1>15. \A hold : A!Flushed(hold) = Flushed(hold) BY <1>7 DEF A!Flushed, Flushed
<1>16. \A g : A!Drained(g) = Drained(g) BY <1>7, <1>15 DEF A!Drained, Drained
<1>17. \A g, K : A!InOrder(g, K) = InOrder(g, K)
  BY Zenon DEF A!InOrder, InOrder, A!Given, Given, A!CallsAt, CallsAt, A!Called, Called, A!Cardinality, Cardinality
<1>18. QED BY <1>1, <1>2, <1>5, <1>6, <1>9, <1>10, <1>14, <1>16, <1>17

(* An attempt is given up: nothing was heard of it. *)
LEMMA AnthropicRetrying ==
  ASSUME KernelInv, stage \in Working, prep.mode # "collected",
         NEW g, Sound(g), g.out = <<>>, Heard(g) = {}, NEW tried, A!Retry(g, tried)
  PROVE  KernelInv'
<1> DEFINE marked == [g EXCEPT !.used = @ \cup tried]
           h      == A!Again(marked)
<1>1. /\ gen' = IF A!More(g) THEN h ELSE marked
      /\ stage' = IF A!More(g) THEN "fetch" ELSE "finish"
      /\ UNCHANGED <<req, prep, wire>>
  BY DEF A!Retry
<1>2. Typed(g) BY DEF Sound, Ready
<1>3. /\ DOMAIN marked = Fields /\ marked.out = <<>> /\ marked.attempt = g.attempt /\ marked.calls = g.calls
      /\ marked.started = g.started /\ marked.text = g.text /\ marked.textOpen = g.textOpen
      /\ marked.held = g.held /\ marked.hold = g.hold
  BY <1>2 DEF Typed, Fields
<1>4. h = IF marked.started THEN [marked EXCEPT !.attempt = @ + 1, !.chunks = 0]
          ELSE [FreshGen EXCEPT !.attempt = marked.attempt + 1, !.used = marked.used, !.fence = marked.fence,
                                !.next = marked.next, !.out = marked.out]
  BY AnthropicTexts DEF A!Again
<1> HIDE DEF marked, h
<1>5. Sound(marked) /\ Heard(marked) = {} BY <1>2, <1>3, Unspoken DEF Sound
<1>6. wire.text = {} BY DEF Heard
<1>7. Sound(h) /\ Shown(h) /\ Heard(h) = {}
  <2>1. CASE g.started
    <3>1. wire.thought BY <2>1, Nothing DEF Sound, Begun, Seen
    <3>2. /\ DOMAIN h = Fields /\ h.out = <<>> /\ h.calls = g.calls /\ h.held = g.held /\ h.started
      BY <1>3, <1>4, <2>1 DEF Fields
    <3>3. Heard(h) = {} BY <1>6, <3>2, Nothing DEF Heard
    <3>4. Typed(h) BY <1>2, <3>2, Short DEF Typed
    <3>5. Ready(h) BY <3>1, <3>2, <3>3, <3>4, Nothing, Texts DEF Ready
    <3>6. Held(h) BY <3>1, <3>2 DEF Sound, Held
    <3>7. Begun(h) /\ Shown(h) BY <3>1, <3>3 DEF Begun, Shown, Seen
    <3>8. QED BY <3>3, <3>5, <3>6, <3>7 DEF Sound
  <2>2. CASE ~g.started
    <3>1. /\ DOMAIN h = Fields /\ h.out = <<>> /\ h.calls = NoCalls /\ h.held = {} /\ h.hold = {}
          /\ h.started = FALSE
      BY <1>3, <1>4, <2>2 DEF Fields, FreshGen
    <3>2. QED BY <1>6, <3>1, Fresh
  <2>3. QED BY <2>1, <2>2
<1>8. stage' \in Working BY <1>1 DEF Working
<1>9. CASE A!More(g)
  <2>1. gen' = h /\ stage' = "fetch" BY <1>1, <1>9
  <2>2. QED BY <1>1, <1>7, <1>8, <2>1, GoesOn
<1>10. CASE ~A!More(g)
  <2>1. gen' = marked /\ stage' = "finish" BY <1>1, <1>10
  <2>2. QED BY <1>1, <1>5, <1>8, <2>1, GoesOn
<1>11. QED BY <1>9, <1>10

(* The stream has ended and the answer goes to its end. *)
LEMMA AnthropicFinishing ==
  ASSUME KernelInv, stage \in Working, prep.mode # "collected", NEW g, Sound(g), A!Finish(g)
  PROVE  KernelInv'
<1>1. gen' = g /\ stage' = "finish" /\ UNCHANGED <<req, prep, wire>> BY DEF A!Finish
<1>2. stage' \in Working BY <1>1 DEF Working
<1>3. QED BY <1>1, <1>2, GoesOn

(* The answer ends with an error. *)
LEMMA AnthropicFailing ==
  ASSUME KernelInv, stage \in Working, NEW g, Ready(g), A!Fail(g)
  PROVE  KernelInv'
<1>1. gen' = [g EXCEPT !.out = @ \o <<Ended("error")>>] /\ stage' = "done" /\ UNCHANGED <<req, prep, wire>>
  BY AnthropicTexts DEF A!Fail
<1>2. wire.given = <<>> BY DEF KernelInv, Stages
<1>3. QED BY <1>1, <1>2, Failing

\* A handler is at work on a stream.
Handling(step) ==
  /\ KernelInv /\ stage = step /\ gen.out = <<>> /\ prep.mode # "collected"
  /\ stage \in Working /\ Sound(gen) /\ Typed(gen)
  /\ stage # "finish" => Shown(gen)
  /\ stage = "fetch" => Heard(gen) = {}

(* A step of a streaming handler starts with nothing on its way. *)
LEMMA HandlingHolds ==
  ASSUME KernelInv, NEW step \in Working, stage = step, gen.out = <<>>, prep.mode # "collected"
  PROVE  Handling(step)
BY DEF Handling, KernelInv, Streaming, Sound, Ready

(* The upstream answers. *)
LEMMA AnthropicFetchSucceeds ==
  ASSUME Handling("fetch"), A!FetchSucceeds
  PROVE  KernelInv'
<1>1. stage' = "read" /\ UNCHANGED <<req, prep, gen, wire>> BY DEF A!FetchSucceeds
<1>2. stage' \in Working BY <1>1 DEF Working
<1>3. QED BY <1>1, <1>2, GoesOn DEF Handling

\* A generator that differs from gen only in what nobody hears.
Alike(g, h) ==
  /\ DOMAIN h = Fields /\ h.out = g.out /\ h.attempt = g.attempt /\ h.calls = g.calls
  /\ h.started = g.started /\ h.text = g.text /\ h.textOpen = g.textOpen
  /\ h.held = g.held /\ h.hold = g.hold

(* And what nobody hears does not matter. *)
LEMMA AlikeIsSound ==
  ASSUME NEW g, Typed(g), NEW h, Alike(g, h)
  PROVE  (Sound(g) => Sound(h)) /\ (Shown(g) => Shown(h)) /\ Heard(h) = Heard(g) /\ Typed(h)
         /\ (Ready(g) => Ready(h))
<1>1. DOMAIN h = Fields /\ h.out = g.out /\ h.attempt = g.attempt BY DEF Alike
<1>2. QED BY <1>1, Unspoken DEF Alike, Sound

(* The upstream refuses or cannot be reached. *)
LEMMA AnthropicFetchFails ==
  ASSUME Handling("fetch"), NEW error, A!FetchFails(error)
  PROVE  KernelInv'
<1> DEFINE g == [gen EXCEPT !.fault = "error"]
<1>1. Alike(gen, g) BY DEF Alike, Handling, Typed, Fields
<1>2. \/ \E tried : A!Retry(g, tried)
      \/ A!Fail(g)
      \/ A!Finish(g)
  BY DEF A!FetchFails
<1> HIDE DEF g
<1>3. Sound(g) /\ Heard(g) = {} /\ g.out = <<>> BY <1>1, AlikeIsSound DEF Handling, Alike
<1>4. CASE \E tried : A!Retry(g, tried)
  <2>1. PICK tried : A!Retry(g, tried) BY <1>4
  <2>2. QED BY <1>3, <2>1, AnthropicRetrying DEF Handling
<1>5. CASE A!Fail(g) BY <1>3, <1>5, AnthropicFailing DEF Handling, Sound
<1>6. CASE A!Finish(g) BY <1>3, <1>6, AnthropicFinishing DEF Handling
<1>7. QED BY <1>2, <1>4, <1>5, <1>6

(* The handler reads on. *)
LEMMA AnthropicKeeping ==
  ASSUME KernelInv, stage \in Working, stage # "fetch", prep.mode # "collected",
         NEW g, Sound(g), Shown(g), A!Keep(g)
  PROVE  KernelInv'
<1>1. gen' = [g EXCEPT !.chunks = @ + 1] /\ UNCHANGED <<req, stage, prep, wire>> BY DEF A!Keep
<1>2. Typed(g) BY DEF Sound, Ready
<1>3. Alike(g, gen') BY <1>1, <1>2 DEF Alike, Typed, Fields
<1>4. Sound(gen') /\ Shown(gen') BY <1>2, <1>3, AlikeIsSound
<1>5. stage' = stage BY <1>1
<1>6. QED BY <1>1, <1>4, <1>5, GoesOn

(* A piece of text arrives. *)
LEMMA AnthropicContent ==
  ASSUME Handling("read"), NEW kind, A!Content(kind)
  PROVE  KernelInv'
<1> DEFINE piece == Piece(kind, gen.attempt)
           g     == [gen EXCEPT !.fence = @ \/ (~req.cc /\ kind = "fence")]
           h     == Guarding(g, piece)
<1>1. Alike(gen, g) BY DEF Alike, Handling, Typed, Fields
<1>2. IF g.calls = NoCalls THEN A!Keep(Pushed(h, Released(g.hold, piece))) ELSE A!Keep(Pushed(g, {piece}))
  BY AnthropicTexts, AnthropicSaying DEF A!Content
<1>3. piece = Piece(kind, g.attempt) BY <1>1 DEF Alike
<1> HIDE DEF g, piece
<1>4. Sound(g) /\ Shown(g) BY <1>1, AlikeIsSound DEF Handling
<1>5. CASE g.calls = NoCalls
  <2>1. Sound(h) /\ Shown(h) /\ h.calls = g.calls /\ h.attempt = g.attempt BY <1>3, <1>4, Guards
  <2>2. ~wire.thought => From(Released(g.hold, piece), h.attempt) BY <1>3, <1>4, <2>1, Guards
  <2>3. ~Leaky(Released(g.hold, piece)) BY Holding
  <2> HIDE DEF h
  <2>4. Sound(Pushed(h, Released(g.hold, piece))) /\ Shown(Pushed(h, Released(g.hold, piece)))
    BY <2>1, <2>2, <2>3, Pushing
  <2>5. A!Keep(Pushed(h, Released(g.hold, piece))) BY <1>2, <1>5
  <2>6. QED BY <2>4, <2>5, AnthropicKeeping DEF Handling
<1>6. CASE g.calls # NoCalls
  <2>1. From({piece}, g.attempt) BY <1>3 DEF From, Piece
  <2>2. Sound(Pushed(g, {piece})) /\ Shown(Pushed(g, {piece})) BY <1>4, <1>6, <2>1, Pushing
  <2>3. A!Keep(Pushed(g, {piece})) BY <1>2, <1>6
  <2>4. QED BY <2>2, <2>3, AnthropicKeeping DEF Handling
<1>7. QED BY <1>5, <1>6

(* A piece of reasoning arrives. *)
LEMMA AnthropicReasoning ==
  ASSUME Handling("read"), NEW kind, A!Reasoning(kind)
  PROVE  KernelInv'
<1> DEFINE piece == Piece(kind, gen.attempt)
           h     == GuardingReasoning(gen, piece)
           t     == Think(h, Released(gen.rhold, piece))
<1>1. A!Keep(t) BY AnthropicTexts, AnthropicSaying DEF A!Reasoning
<1>2. Sound(h) /\ Shown(h) BY Guards DEF Handling
<1> HIDE DEF h
<1>3. Sound(t) /\ Shown(t) BY <1>2, ThinkingMore
<1> HIDE DEF t
<1>4. QED BY <1>1, <1>3, AnthropicKeeping DEF Handling

(* Once a delta of a call has come, markup may be text. *)
LEMMA ToolDeltas ==
  ASSUME DeltasAssumption, Handling("read"), NEW delta \in Deltas
  PROVE  LET h == [gen EXCEPT !.calls = Merged(@, delta[1], delta[2])] IN Sound(h) /\ Shown(h)
<1> DEFINE h == [gen EXCEPT !.calls = Merged(@, delta[1], delta[2])]
<1>1. /\ IsFiniteSet(DOMAIN Merged(gen.calls, delta[1], delta[2]))
      /\ DOMAIN Merged(gen.calls, delta[1], delta[2]) \subseteq Nat
      /\ Merged(gen.calls, delta[1], delta[2]) # NoCalls
  BY Merging DEF DeltasAssumption, Handling, Typed
<1>2. /\ DOMAIN h = Fields /\ h.out = gen.out /\ h.attempt = gen.attempt
      /\ h.calls = Merged(gen.calls, delta[1], delta[2])
      /\ h.started = gen.started /\ h.text = gen.text /\ h.textOpen = gen.textOpen
      /\ h.held = gen.held /\ h.hold = gen.hold
  BY DEF Handling, Typed, Fields
<1> HIDE DEF h
<1>3. Sound(gen) /\ Shown(gen) /\ Typed(gen) BY DEF Handling
<1>4. Ready(h) BY <1>1, <1>2, <1>3, Recorded DEF Sound
<1>5. Held(h) /\ Begun(h) /\ Shown(h) BY <1>2, <1>3, Unspoken DEF Sound
<1>6. QED BY <1>4, <1>5 DEF Sound, h

(* A delta of a call arrives. *)
LEMMA AnthropicToolDelta ==
  ASSUME DeltasAssumption, Handling("read"), NEW delta \in Deltas, A!ToolDelta(delta)
  PROVE  KernelInv'
<1> DEFINE h == [gen EXCEPT !.calls = Merged(@, delta[1], delta[2])]
<1>1. A!Keep(h) BY AnthropicTexts DEF A!ToolDelta
<1>2. Sound(h) /\ Shown(h) BY ToolDeltas
<1> HIDE DEF h
<1>3. QED BY <1>1, <1>2, AnthropicKeeping DEF Handling

\* As long as nothing of the text is there nobody heard of any.
LEMMA Unheard ==
  ASSUME NEW g, Shown(g), g.text = {}
  PROVE  Heard(g) = {}
BY DEF Shown

(* The upstream is silent for too long. *)
LEMMA AnthropicStall ==
  ASSUME Handling("read"), A!Stall
  PROVE  KernelInv'
<1>1. gen.text = {} /\ A!Retry(gen, A!LastChance(gen)) BY DEF A!Stall, A!Silent
<1>2. Heard(gen) = {} BY <1>1, Unheard DEF Handling
<1>3. QED BY <1>1, <1>2, AnthropicRetrying DEF Handling

(* The stream breaks. *)
LEMMA AnthropicStreamFails ==
  ASSUME Handling("read"), A!StreamFails
  PROVE  KernelInv'
<1> DEFINE g == [gen EXCEPT !.fault = "error"]
<1>1. Alike(gen, g) BY DEF Alike, Handling, Typed, Fields
<1>2. \/ g.text = {} /\ A!Retry(g, A!LastChance(g))
      \/ A!Finish(g)
  BY DEF A!StreamFails, A!CanRetryErrorBeforeOutput, A!Silent
<1> HIDE DEF g
<1>3. Sound(g) /\ Shown(g) /\ g.out = <<>> BY <1>1, AlikeIsSound DEF Handling, Alike
<1>4. CASE g.text = {} /\ A!Retry(g, A!LastChance(g)) BY <1>3, <1>4, Unheard, AnthropicRetrying DEF Handling
<1>5. CASE A!Finish(g) BY <1>3, <1>5, AnthropicFinishing DEF Handling
<1>6. QED BY <1>2, <1>4, <1>5

(* What is held back is let go at the end of the stream. *)
LEMMA LettingGo ==
  ASSUME Handling("read"), NEW finish
  PROVE  LET h == Pushed(Drained([gen EXCEPT !.finish = finish]), Flushed(gen.hold)) IN Sound(h) /\ Shown(h)
<1> DEFINE g == [gen EXCEPT !.finish = finish]
           d == Drained(g)
<1>1. Alike(gen, g) BY DEF Alike, Handling, Typed, Fields
<1> HIDE DEF g
<1>2. Sound(g) /\ Shown(g) /\ g.hold = gen.hold BY <1>1, AlikeIsSound DEF Handling, Alike
<1>3. Sound(d) /\ Shown(d) /\ d.attempt = g.attempt BY <1>2, Guards
<1>4. ~wire.thought => From(Flushed(gen.hold), d.attempt) BY <1>2, <1>3, Guards
<1>5. ~Leaky(Flushed(gen.hold)) BY Holding
<1> HIDE DEF d
<1>6. Sound(Pushed(d, Flushed(gen.hold))) /\ Shown(Pushed(d, Flushed(gen.hold))) BY <1>3, <1>4, <1>5, Pushing
<1>7. QED BY <1>6 DEF d, g

(* The upstream says that it is done. *)
LEMMA AnthropicStreamEnds ==
  ASSUME Handling("read"), NEW finish, A!StreamEnds(finish)
  PROVE  KernelInv'
<1> DEFINE h == Pushed(Drained([gen EXCEPT !.finish = finish]), Flushed(gen.hold))
           t == Think(h, Flushed(gen.rhold))
<1>1. gen' = t /\ stage' = "settle" /\ UNCHANGED <<req, prep, wire>>
  BY AnthropicTexts, AnthropicSaying DEF A!StreamEnds
<1>2. Sound(h) /\ Shown(h) BY LettingGo
<1> HIDE DEF h
<1>3. Sound(t) /\ Shown(t) BY <1>2, ThinkingMore
<1>4. stage' \in Working /\ stage' # "fetch" BY <1>1 DEF Working
<1>5. QED BY <1>1, <1>3, <1>4, GoesOn DEF Handling

(* Markup that was held back is dropped or becomes a call. *)
LEMMA AnthropicAfterLeak ==
  ASSUME Handling("settle")
  PROVE  LET g == A!AfterLeak(gen) IN
         /\ Sound(g) /\ g.out = <<>>
         /\ Alike(gen, g) \/ (g.calls # NoCalls /\ ~A!OnlyIncomplete(g.calls))
<1> DEFINE g == A!AfterLeak(gen)
<1>1. /\ Sound(gen) /\ Typed(gen) /\ gen.out = <<>> BY DEF Handling
<1>2. CASE A!Repairs(gen)
  <2>1. /\ DOMAIN g = Fields /\ g.out = gen.out /\ g.attempt = gen.attempt /\ g.calls = RepairedCall
        /\ g.started = gen.started /\ g.held = {} /\ g.hold = {}
    BY <1>1, <1>2, AnthropicTexts DEF A!AfterLeak, A!Repaired, Typed, Fields
  <2>2. ~A!OnlyIncomplete(RepairedCall) BY Repairing DEF A!OnlyIncomplete, A!Streamable
  <2> HIDE DEF g
  <2>3. Ready(g) BY <1>1, <2>1, Repairing, Recorded DEF Sound
  <2>4. Begun(g) BY <1>1, <2>1, Unspoken DEF Sound
  <2>5. Held(g) BY <2>1, Texts DEF Held
  <2>6. QED BY <1>1, <2>1, <2>2, <2>3, <2>4, <2>5, Repairing DEF Sound, g
<1>3. CASE ~A!Repairs(gen)
  <2>1. Alike(gen, g) BY <1>1, <1>3 DEF A!AfterLeak, Alike, Typed, Fields
  <2> HIDE DEF g
  <2>2. Sound(g) /\ g.out = <<>> BY <1>1, <2>1, AlikeIsSound DEF Alike
  <2>3. QED BY <2>1, <2>2 DEF g
<1>4. QED BY <1>2, <1>3

(* The handler decides between an answer, another attempt and an error. *)
LEMMA AnthropicSettle ==
  ASSUME Handling("settle"), prep.mode = "anthropic", A!Settle
  PROVE  KernelInv'
<1> DEFINE g == A!AfterLeak(gen)
<1>1. Sound(g) /\ g.out = <<>> /\ (Alike(gen, g) \/ (g.calls # NoCalls /\ ~A!OnlyIncomplete(g.calls)))
  BY AnthropicAfterLeak
<1>2. /\ Sound(gen) /\ Typed(gen) /\ gen.out = <<>> /\ Shown(gen) /\ KernelInv /\ stage \in Working
      /\ prep.mode # "collected"
  BY DEF Handling
<1>3. Framed BY DEF Handling, KernelInv, Stages
<1> DEFINE forgotten  == [g EXCEPT !.text = {}, !.held = {}, !.reasoning = {}]
           uncalled   == [g EXCEPT !.calls = A!NoCalls]
           incomplete == [g EXCEPT !.fault = "incomplete"]
           unthought  == [g EXCEPT !.reasoning = {}, !.thinkOpen = FALSE]
<1>4. \/ A!RetriesLeak(gen) /\ A!Retry(gen, {"compat"})
      \/ A!RetriesUnfinished(g) /\ A!Retry(forgotten, {"missing"})
      \/ A!Incomplete(g) /\ A!Retry(uncalled, A!LastChance(g))
      \/ A!Finish(incomplete)
      \/ A!RetriesReasoning(g) /\ A!Retry(unthought, {"missing"})
      \/ A!Finish(g)
  BY DEF A!Settle
<1> HIDE DEF g
<1>5. Typed(g) BY <1>1 DEF Sound, Ready
<1>6. /\ DOMAIN forgotten = Fields /\ forgotten.out = <<>> /\ forgotten.attempt = g.attempt
      /\ forgotten.calls = g.calls /\ forgotten.started = g.started
      /\ forgotten.held = {} /\ forgotten.hold = g.hold
  BY <1>1, <1>5 DEF Typed, Fields
<1>7. /\ DOMAIN uncalled = Fields /\ uncalled.out = <<>> /\ uncalled.attempt = g.attempt
      /\ uncalled.calls = NoCalls /\ uncalled.started = g.started
      /\ uncalled.held = g.held /\ uncalled.hold = g.hold
  BY <1>1, <1>5, AnthropicTexts DEF Typed, Fields
<1>8. Alike(g, incomplete) /\ Alike(g, unthought) BY <1>5 DEF Alike, Typed, Fields
<1> HIDE DEF forgotten, uncalled, incomplete, unthought
<1>9. CASE A!RetriesLeak(gen) /\ A!Retry(gen, {"compat"})
  <2>1. ~gen.started BY <1>9 DEF A!RetriesLeak
  <2>2. Heard(gen) = {} BY <1>2, <2>1 DEF Sound, Begun
  <2>3. QED BY <1>2, <1>9, <2>2, AnthropicRetrying
<1>10. CASE A!RetriesUnfinished(g) /\ A!Retry(forgotten, {"missing"})
  <2>1. g.calls = NoCalls /\ ~g.textOpen BY <1>10, AnthropicTexts DEF A!RetriesUnfinished
  <2>2. Alike(gen, g) BY <1>1, <2>1
  <2>3. Heard(g) = {}
    <3>1. Shown(g) BY <1>2, <2>2, AlikeIsSound
    <3>2. QED BY <1>3, <2>1, <3>1 DEF Shown
  <2>4. Heard(forgotten) = {} /\ Ready(forgotten) /\ Begun(forgotten)
    BY <1>1, <1>5, <1>6, <2>3, Unspoken DEF Sound
  <2>5. Held(forgotten)
    <3>1. ~wire.thought => From(g.hold, g.attempt) BY <1>1, Texts DEF Sound, Held
    <3>2. ~wire.thought => From(forgotten.held \cup forgotten.hold, forgotten.attempt) BY <1>6, <3>1
    <3>3. ~Leaky(forgotten.held) BY <1>6, Texts
    <3>4. QED BY <3>2, <3>3 DEF Held
  <2>6. Sound(forgotten) /\ forgotten.out = <<>> BY <1>6, <2>4, <2>5 DEF Sound
  <2>7. QED BY <1>2, <1>10, <2>4, <2>6, AnthropicRetrying
<1>11. CASE A!Incomplete(g) /\ A!Retry(uncalled, A!LastChance(g))
  <2>1. g.text = {} /\ A!OnlyIncomplete(g.calls) BY <1>11 DEF A!Incomplete
  <2>2. Alike(gen, g) BY <1>1, <2>1
  <2>3. Heard(g) = {} BY <1>2, <2>1, <2>2, AlikeIsSound, Unheard
  <2>4. Heard(uncalled) = {} /\ Begun(uncalled) /\ Held(uncalled)
    BY <1>1, <1>5, <1>7, <2>3, Unspoken DEF Sound
  <2>5. Typed(uncalled) /\ ToldCalls(uncalled.out) = {} BY <1>7, NoCallsTyped, Short, Nothing DEF Typed
  <2>6. Ready(uncalled) BY <2>4, <2>5, Texts DEF Ready
  <2>7. Sound(uncalled) /\ uncalled.out = <<>> BY <1>7, <2>4, <2>6 DEF Sound
  <2>8. QED BY <1>2, <1>11, <2>4, <2>7, AnthropicRetrying
<1>12. CASE A!Finish(incomplete)
  <2>1. Sound(incomplete) BY <1>1, <1>5, <1>8, AlikeIsSound
  <2>2. QED BY <1>2, <1>12, <2>1, AnthropicFinishing
<1>13. CASE A!RetriesReasoning(g) /\ A!Retry(unthought, {"missing"})
  <2>1. g.calls = NoCalls /\ g.text = {} BY <1>13, AnthropicTexts DEF A!RetriesReasoning, A!Silent
  <2>2. Alike(gen, g) BY <1>1, <2>1
  <2>3. Heard(g) = {} BY <1>2, <2>1, <2>2, AlikeIsSound, Unheard
  <2>4. Sound(unthought) /\ Heard(unthought) = {} /\ unthought.out = <<>>
    BY <1>1, <1>5, <1>8, <2>3, AlikeIsSound DEF Alike
  <2>5. QED BY <1>2, <1>13, <2>4, AnthropicRetrying
<1>14. CASE A!Finish(g) BY <1>1, <1>2, <1>14, AnthropicFinishing
<1>15. QED BY <1>4, <1>9, <1>10, <1>11, <1>12, <1>13, <1>14

\* Words of the kernel's own may always be said.
LEMMA SayingOwn ==
  ASSUME NEW g, Ready(g)
  PROVE  LET h == Say(g, Own(g)) IN Ready(h) /\ h.calls = g.calls /\ h.attempt = g.attempt
<1>1. Ready(Say(g, Own(g))) BY OwnIsClean, SayingMore
<1>2. Typed(g) BY DEF Ready
<1>3. QED BY <1>1, <1>2, Saying

\* What is ready stays so when something nobody hears of is changed.
SameAnswer(g, h) == DOMAIN h = Fields /\ h.out = g.out /\ h.attempt = g.attempt /\ h.calls = g.calls

(* What is not said does not matter. *)
LEMMA SameIsReady ==
  ASSUME NEW g, Ready(g), NEW h, SameAnswer(g, h)
  PROVE  Ready(h)
BY Unspoken DEF SameAnswer, Ready

\* What is held may be said.
LEMMA SayingHeld ==
  ASSUME NEW g, Sound(g)
  PROVE  LET h == [Say(g, g.held) EXCEPT !.held = {}] IN
         Ready(h) /\ h.calls = g.calls /\ h.attempt = g.attempt /\ Begun(h) /\ Held(h)
<1> DEFINE s == Say(g, g.held)
           h == [s EXCEPT !.held = {}]
<1>1. Typed(g) BY DEF Sound, Ready
<1>2. Ready(s) /\ Begun(s) BY Texts, SayingMore DEF Sound, Held
<1>3. Typed(s) /\ s.calls = g.calls /\ s.attempt = g.attempt /\ s.hold = g.hold BY <1>1, Saying
<1> HIDE DEF s
<1>4. DOMAIN h = Fields /\ h.out = s.out /\ h.attempt = s.attempt /\ h.calls = s.calls /\ h.started = s.started
      /\ h.held = {} /\ h.hold = s.hold
  BY <1>3 DEF Typed, Fields
<1> HIDE DEF h
<1>5. Ready(h) /\ Begun(h) BY <1>2, <1>3, <1>4, Unspoken
<1>6. Held(h) BY <1>3, <1>4, Texts DEF Sound, Held
<1>7. QED BY <1>3, <1>4, <1>5, <1>6 DEF h, s

\* What is said at the end.
LEMMA AnthropicLast ==
  ASSUME Handling("finish"), NEW long
  PROVE  LET g == A!Answered(A!Bridged(A!CloseFence(A!Complete(gen)), long)) IN
         Ready(g) /\ g.calls = gen.calls /\ g.attempt = gen.attempt
<1> DEFINE Fine(g) == Ready(g) /\ g.calls = gen.calls /\ g.attempt = gen.attempt
<1>1. Sound(gen) /\ Ready(gen) BY DEF Handling, Sound
<1>2. Fine(A!Leftover(gen))
  <2>1. A!Leftover(gen) = IF gen.fault = "none" THEN [Say(gen, gen.held) EXCEPT !.held = {}] ELSE gen
    BY AnthropicSaying DEF A!Leftover
  <2>2. QED BY <1>1, <2>1, SayingHeld
<1>3. Fine(A!Complete(gen))
  <2> DEFINE g == A!Leftover(gen)
             h == A!Complete(gen)
  <2>1. DOMAIN g = Fields BY <1>2 DEF Ready, Typed
  <2>2. SameAnswer(g, h) BY <2>1 DEF A!Complete, SameAnswer, Fields
  <2> HIDE DEF g, h
  <2>3. Fine(g) BY <1>2 DEF g
  <2>4. Fine(h) BY <2>2, <2>3, SameIsReady DEF SameAnswer
  <2>5. QED BY <2>4 DEF h
<1>4. ASSUME NEW g, Fine(g) PROVE Fine(A!CloseFence(g))
  <2> DEFINE s == Say(g, Own(g))
             h == [s EXCEPT !.started = g.started, !.fence = FALSE]
  <2>1. A!CloseFence(g) = IF g.fence THEN h ELSE g BY AnthropicSaying DEF A!CloseFence
  <2>2. Fine(s) BY <1>4, SayingOwn
  <2> HIDE DEF s
  <2>3. SameAnswer(s, h) BY <2>2 DEF SameAnswer, Ready, Typed, Fields
  <2> HIDE DEF h
  <2>4. Fine(h) BY <2>2, <2>3, SameIsReady DEF SameAnswer
  <2>5. QED BY <1>4, <2>1, <2>4
<1>5. ASSUME NEW g, Fine(g) PROVE Fine(A!Bridged(g, long))
  <2>1. A!Bridged(g, long) = IF A!Bridges(g, long) THEN Say(g, Own(g)) ELSE g BY AnthropicSaying DEF A!Bridged
  <2>2. Fine(Say(g, Own(g))) BY <1>5, SayingOwn
  <2>3. QED BY <1>5, <2>1, <2>2
<1>6. ASSUME NEW g, Fine(g) PROVE Fine(A!Answered(g))
  <2> DEFINE h == [g EXCEPT !.textOpen = FALSE]
  <2>1. SameAnswer(g, h) BY <1>6 DEF SameAnswer, Ready, Typed, Fields
  <2>2. A!Answered(g) = Say(h, Own(g)) \/ A!Answered(g) = g BY AnthropicSaying DEF A!Answered
  <2>3. Own(g) = Own(h) BY <2>1 DEF SameAnswer, Own
  <2> HIDE DEF h
  <2>4. Fine(h) BY <1>6, <2>1, SameIsReady DEF SameAnswer
  <2>5. Fine(Say(h, Own(h))) BY <2>4, SayingOwn
  <2>6. QED BY <1>6, <2>2, <2>3, <2>5
<1> HIDE DEF Fine
<1>7. Fine(A!Answered(A!Bridged(A!CloseFence(A!Complete(gen)), long))) BY <1>3, <1>4, <1>5, <1>6
<1>8. QED BY <1>7 DEF Fine

(* The calls that are sent: complete ones, and each once. *)
LEMMA Emitting ==
  ASSUME NEW calls, DOMAIN calls \subseteq Nat, IsFiniteSet(DOMAIN calls)
  PROVE  LET whole == Streamable(calls)
             once  == Deduplicated(calls, whole)
         IN  /\ IsFiniteSet(whole) /\ whole \subseteq Nat
             /\ IsFiniteSet(once) /\ once \subseteq Nat
             /\ \A k \in whole : calls[k] \notin {"partial", "bad"}
             /\ once \subseteq whole
             /\ \A k, l \in once : calls[k] = calls[l] => k = l
<1> DEFINE whole == Streamable(calls)
           once  == Deduplicated(calls, whole)
<1>1. whole \subseteq DOMAIN calls /\ \A k \in whole : calls[k] \notin {"partial", "bad"} BY DEF Streamable
<1> HIDE DEF whole
<1>2. once \subseteq whole BY DEF Deduplicated
<1>3. \A k, l \in once : calls[k] = calls[l] => k = l
  <2> SUFFICES ASSUME NEW k \in once, NEW l \in once, calls[k] = calls[l] PROVE k = l OBVIOUS
  <2>1. k <= l /\ l <= k BY DEF Deduplicated
  <2>2. k \in Nat /\ l \in Nat BY <1>1, <1>2
  <2>3. QED BY <2>1, <2>2
<1> HIDE DEF once
<1>4. IsFiniteSet(whole) /\ IsFiniteSet(once) BY <1>1, <1>2, FS_Subset
<1>5. QED BY <1>1, <1>2, <1>3, <1>4 DEF whole, once

\* The last events of an answer: something quiet, the calls, the end.
LEMMA Closing ==
  ASSUME KernelInv, stage \in Working, NEW g, Ready(g), NEW quiet, Quiet(quiet),
         NEW K, IsFiniteSet(K), K \subseteq Nat, NEW last,
         Framed => \A k \in K : g.calls[k] \notin {"partial", "bad"},
         Framed /\ req.cc => \A k, l \in K : g.calls[k] = g.calls[l] => k = l,
         UNCHANGED <<req, prep, wire>>, stage' = "done",
         gen' = [g EXCEPT !.out = Concluded(g.out \o quiet, g, K, last)]
  PROVE  KernelInv'
<1> DEFINE s == g.out \o quiet
           h == [g EXCEPT !.out = Concluded(s, g, K, last)]
<1>1. Listed(s) /\ Spoken(s) = Spoken(g.out) /\ ToldCalls(s) = {} BY Silence DEF Ready, Typed
<1>2. ~wire.thought => From(wire.text \cup Spoken(s), g.attempt) BY <1>1 DEF Ready, Heard
<1>3. wire.given = <<>> /\ wire.thought \in BOOLEAN BY DEF KernelInv, Shapes, Stages
<1>4. gen' = h OBVIOUS
<1> HIDE DEF s
<1>5. DOMAIN h = Fields /\ h.out = Concluded(s, g, K, last) /\ h.calls = g.calls BY DEF Ready, Typed, Fields
<1> HIDE DEF h
<1>6. Listed(h.out) /\ Consistent(h) /\ Heard(h) = wire.text \cup Spoken(s)
  <2>1. Consistent(h) /\ Says(h, s) BY <1>1, <1>2, <1>3, <1>5, Concluding
  <2>2. QED BY <2>1 DEF Says
<1>7. Typed(h) BY <1>5, <1>6 DEF Ready, Typed
<1>8. h.calls = NoCalls => ~Leaky(Heard(h)) BY <1>1, <1>5, <1>6 DEF Ready, Heard
<1>9. QED BY <1>4, <1>6, <1>7, <1>8, GoesOut

(* The last events are sent. *)
LEMMA AnthropicEnd ==
  ASSUME Handling("finish"), NEW long, A!End(long)
  PROVE  KernelInv'
<1> DEFINE g      == A!Answered(A!Bridged(A!CloseFence(A!Complete(gen)), long))
           start  == IF g.calls # A!NoCalls THEN A!Starting(g) ELSE <<>>
           K      == A!Emitted(g)
           failed == g.calls # A!NoCalls /\ K = {}
           last   == IF failed THEN "error" ELSE IF K # {} THEN "tool_use" ELSE g.finish
           r      == g.out \o A!Closings(g) \o start \o A!InOrder(g, K) \o <<A!Ended(last)>>
<1>1. \/ A!Fail(gen) \/ A!Fail(g)
      \/ gen' = [g EXCEPT !.out = r] /\ stage' = "done" /\ UNCHANGED <<req, prep, wire>>
  BY DEF A!End
<1>2. Ready(g) /\ g.calls = gen.calls BY AnthropicLast
<1>3. r = (((g.out \o A!Closings(g)) \o start) \o InOrder(g, K)) \o <<Ended(last)>>
  BY AnthropicTexts, AnthropicSaying
<1>4. K = IF req.cc THEN Deduplicated(g.calls, Streamable(g.calls)) ELSE Streamable(g.calls)
  BY AnthropicTexts DEF A!Emitted, A!Deduplicated, Deduplicated
<1>5. Quiet(start) BY Quieten, AnthropicSaying
<1>6. Quiet(A!Closings(g))
  <2>1. \A kind, at : A!Closed(kind, at) = Closed(kind, at) BY DEF A!Closed, Closed
  <2> DEFINE a == IF g.thinkOpen THEN <<Closed("thinking", g.thinkAt)>> ELSE <<>>
             b == IF g.textOpen THEN <<Closed("text", g.textAt)>> ELSE <<>>
  <2>2. A!Closings(g) = a \o b BY <2>1 DEF A!Closings
  <2>3. Quiet(a) /\ Quiet(b) BY Quieten
  <2> HIDE DEF a, b
  <2>4. QED BY <2>2, <2>3, Silence DEF Quiet
<1> HIDE DEF g, start, K, last, r
<1>7. CASE A!Fail(gen) \/ A!Fail(g) BY <1>2, <1>7, AnthropicFailing DEF Handling, Sound
<1>8. CASE gen' = [g EXCEPT !.out = r] /\ stage' = "done" /\ UNCHANGED <<req, prep, wire>>
  <2> DEFINE quiet == A!Closings(g) \o start
  <2>1. Quiet(quiet) BY <1>5, <1>6, Silence DEF Quiet
  <2>2. (g.out \o A!Closings(g)) \o start = g.out \o quiet
    <3>1. Listed(g.out) /\ Listed(A!Closings(g)) /\ Listed(start) BY <1>2, <1>5, <1>6 DEF Ready, Typed, Quiet
    <3>2. \A s, t, u : Listed(s) /\ Listed(t) /\ Listed(u) => (s \o t) \o u = s \o (t \o u) BY Associating
    <3>3. \A o : Listed(o) => (o \o A!Closings(g)) \o start = o \o (A!Closings(g) \o start) BY <3>1, <3>2
    <3>4. PICK o : o = g.out OBVIOUS
    <3>5. Listed(o) BY <3>1, <3>4
    <3>6. QED BY <3>3, <3>4, <3>5
  <2> HIDE DEF quiet
  <2>3. DOMAIN g.calls \subseteq Nat /\ IsFiniteSet(DOMAIN g.calls) BY <1>2 DEF Ready, Typed
  <2>4. /\ IsFiniteSet(K) /\ K \subseteq Nat
        /\ \A k \in K : g.calls[k] \notin {"partial", "bad"}
        /\ req.cc => \A k, l \in K : g.calls[k] = g.calls[l] => k = l
    BY <1>4, <2>3, Emitting
  <2>5. gen' = [g EXCEPT !.out = Concluded(g.out \o quiet, g, K, last)]
    BY <1>3, <1>8, <2>2 DEF Concluded
  <2>6. KernelInv /\ stage \in Working BY DEF Handling
  <2>7. QED BY <1>2, <1>8, <2>1, <2>4, <2>5, <2>6, Closing
<1>9. QED BY <1>1, <1>7, <1>8

-----------------------------------------------------------------------------
(* The OpenAI handler *)

(* The instance computes the texts and calls as the state module does. *)
LEMMA OpenAiTexts ==
  /\ O!FreshGen = FreshGen /\ O!NoCalls = NoCalls /\ O!RepairedCall = RepairedCall
  /\ \A kind, n : O!Piece(kind, n) = Piece(kind, n)
  /\ \A hold, piece : O!Released(hold, piece) = Released(hold, piece)
  /\ \A hold : O!Flushed(hold) = Flushed(hold)
  /\ \A calls, n, what : O!Merged(calls, n, what) = Merged(calls, n, what)
  /\ \A calls : O!Streamable(calls) = Streamable(calls)
  /\ \A stop : O!Ended(stop) = Ended(stop)
  /\ O!Framed = Framed
<1>1. O!NoCalls = NoCalls BY DEF O!NoCalls, NoCalls
<1>2. O!FreshGen = FreshGen BY <1>1 DEF O!FreshGen, FreshGen
<1>3. \A calls, n, what : O!Merged(calls, n, what) = Merged(calls, n, what) BY DEF O!Merged, Merged
<1>4. O!RepairedCall = RepairedCall BY <1>1, <1>3 DEF O!RepairedCall, RepairedCall
<1>5. \A kind, n : O!Piece(kind, n) = Piece(kind, n) BY DEF O!Piece, Piece
<1>6. \A text : O!Leaky(text) <=> Leaky(text) BY DEF O!Leaky, O!Has, Leaky, Has
<1>7. \A hold, piece : O!HeldBack(hold, piece) = HeldBack(hold, piece) BY <1>6 DEF O!HeldBack, HeldBack
<1>8. \A hold, piece : O!Released(hold, piece) = Released(hold, piece) BY <1>6, <1>7 DEF O!Released, Released
<1>9. \A hold : O!Flushed(hold) = Flushed(hold) BY <1>6 DEF O!Flushed, Flushed
<1>10. \A calls : O!Streamable(calls) = Streamable(calls) BY DEF O!Streamable, Streamable
<1>11. \A stop : O!Ended(stop) = Ended(stop) BY DEF O!Ended, Ended
<1>12. O!Framed = Framed BY DEF O!Framed, Framed
<1>13. QED BY <1>1, <1>2, <1>3, <1>4, <1>5, <1>8, <1>9, <1>10, <1>11, <1>12

(* And so it says them. *)
LEMMA OpenAiSaying ==
  /\ \A g : O!Starting(g) = Starting(g) /\ O!Own(g) = Own(g)
  /\ \A g, said : O!Say(g, said) = Say(g, said) /\ O!Think(g, said) = Think(g, said)
  /\ \A g, piece : /\ O!Pushed(g, piece) = Pushed(g, piece)
                   /\ O!Guarding(g, piece) = Guarding(g, piece)
                   /\ O!GuardingReasoning(g, piece) = GuardingReasoning(g, piece)
  /\ \A g : O!Drained(g) = Drained(g)
  /\ \A g, K : O!InOrder(g, K) = InOrder(g, K)
<1>1. \A g : O!Starting(g) = Starting(g) BY DEF O!Starting, Starting, O!Started, Started
<1>2. \A g : O!Own(g) = Own(g) BY DEF O!Own, Own, O!Piece, Piece
<1>3. \A open, kind, at : O!Opening(open, kind, at) = Opening(open, kind, at)
  BY DEF O!Opening, Opening, O!Framed, Framed, O!Opened, Opened
<1>4. \A kind, text, at : O!Grown(kind, text, at) = Grown(kind, text, at) BY DEF O!Grown, Grown
<1>5. \A g, said : O!Say(g, said) = Say(g, said) 
  BY <1>1, <1>3, <1>4 DEF O!Say, Say, O!Framed, Framed, O!TextAt, TextAt
<1>6. \A g, said : O!Think(g, said) = Think(g, said) 
  BY <1>1, <1>3, <1>4 DEF O!Think, Think, O!ThinkAt, ThinkAt
<1>7. \A text : O!Leaky(text) <=> Leaky(text) BY DEF O!Leaky, O!Has, Leaky, Has
<1>8. \A hold, piece : O!HeldBack(hold, piece) = HeldBack(hold, piece) BY <1>7 DEF O!HeldBack, HeldBack
<1>9. \A g, piece : O!Guarding(g, piece) = Guarding(g, piece) BY <1>7, <1>8 DEF O!Guarding, Guarding
<1>10. \A g, piece : O!GuardingReasoning(g, piece) = GuardingReasoning(g, piece)
  BY <1>7, <1>8 DEF O!GuardingReasoning, GuardingReasoning
<1>11. \A text : O!Unfinished(text) <=> Unfinished(text) BY DEF O!Unfinished, O!Has, Unfinished, Has
<1>12. O!NoCalls = NoCalls BY DEF O!NoCalls, NoCalls
<1>13. O!OffersTools <=> OffersTools BY DEF O!OffersTools, OffersTools
<1>14. \A g, piece : O!Pushed(g, piece) = Pushed(g, piece) BY <1>5, <1>11, <1>12, <1>13 DEF O!Pushed, Pushed
<1>15. \A hold : O!Flushed(hold) = Flushed(hold) BY <1>7 DEF O!Flushed, Flushed
<1>16. \A g : O!Drained(g) = Drained(g) BY <1>7, <1>15 DEF O!Drained, Drained
<1>17. \A g, K : O!InOrder(g, K) = InOrder(g, K)
  BY Zenon DEF O!InOrder, InOrder, O!Given, Given, O!CallsAt, CallsAt, O!Called, Called, O!Cardinality, Cardinality
<1>18. QED BY <1>1, <1>2, <1>5, <1>6, <1>9, <1>10, <1>14, <1>16, <1>17

(* An attempt is given up: the message has not started. *)
LEMMA OpenAiRetrying ==
  ASSUME KernelInv, stage \in Working, prep.mode # "collected", wire.text = {}, NEW g, g.out = <<>>, O!Retry(g)
  PROVE  KernelInv'
<1> DEFINE h == O!Again(g)
<1>1. gen' = h /\ stage' = "fetch" /\ UNCHANGED <<req, prep, wire>> BY DEF O!Retry
<1>2. h = [FreshGen EXCEPT !.attempt = g.attempt + 1, !.used = g.used, !.out = g.out]
  BY OpenAiTexts DEF O!Again
<1>3. /\ DOMAIN h = Fields /\ h.out = <<>> /\ h.calls = NoCalls /\ h.held = {} /\ h.hold = {}
      /\ h.started = FALSE
  BY <1>2 DEF Fields, FreshGen
<1> HIDE DEF h
<1>4. Sound(h) /\ Shown(h) /\ Heard(h) = {} BY <1>3, Fresh
<1>5. stage' \in Working BY <1>1 DEF Working
<1>6. QED BY <1>1, <1>4, <1>5, GoesOn

(* The answer ends with an error. *)
LEMMA OpenAiFailing ==
  ASSUME KernelInv, stage \in Working, NEW g, Ready(g), O!Fail(g)
  PROVE  KernelInv'
<1>1. gen' = [g EXCEPT !.out = @ \o <<Ended("error")>>] /\ stage' = "done" /\ UNCHANGED <<req, prep, wire>>
  BY OpenAiTexts DEF O!Fail
<1>2. wire.given = <<>> BY DEF KernelInv, Stages
<1>3. QED BY <1>1, <1>2, Failing

(* The upstream answers. *)
LEMMA OpenAiFetchSucceeds ==
  ASSUME Handling("fetch"), O!FetchSucceeds
  PROVE  KernelInv'
<1>1. stage' = "read" /\ UNCHANGED <<req, prep, gen, wire>> BY DEF O!FetchSucceeds
<1>2. stage' \in Working BY <1>1 DEF Working
<1>3. QED BY <1>1, <1>2, GoesOn DEF Handling

(* The upstream refuses or cannot be reached. *)
LEMMA OpenAiFetchFails ==
  ASSUME Handling("fetch"), NEW error, O!FetchFails(error)
  PROVE  KernelInv'
<1> DEFINE g == [gen EXCEPT !.used = @ \cup {"missing"}]
<1>1. Alike(gen, g) BY DEF Alike, Handling, Typed, Fields
<1>2. (gen' = g /\ UNCHANGED <<req, stage, prep, wire>>) \/ O!Fail(gen) BY DEF O!FetchFails
<1> HIDE DEF g
<1>3. Sound(g) /\ Shown(g) /\ Heard(g) = {} BY <1>1, AlikeIsSound DEF Handling
<1>4. CASE gen' = g /\ UNCHANGED <<req, stage, prep, wire>>
  <2>1. stage' \in Working BY <1>4 DEF Handling
  <2>2. QED BY <1>3, <1>4, <2>1, GoesOn DEF Handling
<1>5. CASE O!Fail(gen) BY <1>5, OpenAiFailing DEF Handling, Sound
<1>6. QED BY <1>2, <1>4, <1>5

(* The handler reads on. *)
LEMMA OpenAiKeeping ==
  ASSUME KernelInv, stage \in Working, stage # "fetch", prep.mode # "collected",
         NEW g, Sound(g), Shown(g), O!Keep(g)
  PROVE  KernelInv'
<1>1. gen' = [g EXCEPT !.chunks = @ + 1] /\ UNCHANGED <<req, stage, prep, wire>> BY DEF O!Keep
<1>2. Typed(g) BY DEF Sound, Ready
<1>3. Alike(g, gen') BY <1>1, <1>2 DEF Alike, Typed, Fields
<1>4. Sound(gen') /\ Shown(gen') BY <1>2, <1>3, AlikeIsSound
<1>5. stage' = stage BY <1>1
<1>6. QED BY <1>1, <1>4, <1>5, GoesOn

(* A piece of text arrives. *)
LEMMA OpenAiContent ==
  ASSUME Handling("read"), NEW kind, O!Content(kind)
  PROVE  KernelInv'
<1> DEFINE piece    == Piece(kind, gen.attempt)
           released == Released(gen.hold, piece)
           h        == Guarding(gen, piece)
           g        == [h EXCEPT !.fence = @ \/ (~req.cc /\ Has(released, {"fence"}))]
<1>1. O!Keep(Pushed(g, released))
  <2>1. \A text, kinds : O!Has(text, kinds) <=> Has(text, kinds) BY DEF O!Has, Has
  <2>2. QED BY <2>1, OpenAiTexts, OpenAiSaying DEF O!Content
<1>2. Sound(h) /\ Shown(h) /\ h.attempt = gen.attempt BY Guards DEF Handling
<1>3. ~wire.thought => From(released, gen.attempt) BY Guards DEF Handling
<1>4. ~Leaky(released) BY Holding
<1> HIDE DEF h, released
<1>5. Typed(h) BY <1>2 DEF Sound, Ready
<1>6. Alike(h, g) BY <1>5 DEF Alike, Typed, Fields
<1> HIDE DEF g
<1>7. Sound(g) /\ Shown(g) /\ g.attempt = gen.attempt BY <1>2, <1>5, <1>6, AlikeIsSound DEF Alike
<1>8. Sound(Pushed(g, released)) /\ Shown(Pushed(g, released)) BY <1>3, <1>4, <1>7, Pushing
<1>9. QED BY <1>1, <1>8, OpenAiKeeping DEF Handling

(* A piece of reasoning arrives. *)
LEMMA OpenAiReasoning ==
  ASSUME Handling("read"), NEW kind, O!Reasoning(kind)
  PROVE  KernelInv'
<1> DEFINE piece == Piece(kind, gen.attempt)
           h     == GuardingReasoning(gen, piece)
           g     == [h EXCEPT !.reasoning = @ \cup Released(gen.rhold, piece)]
<1>1. O!Keep(g) BY OpenAiTexts, OpenAiSaying DEF O!Reasoning
<1>2. Sound(h) /\ Shown(h) BY Guards DEF Handling
<1> HIDE DEF h
<1>3. Typed(h) BY <1>2 DEF Sound, Ready
<1>4. Alike(h, g) BY <1>3 DEF Alike, Typed, Fields
<1> HIDE DEF g
<1>5. Sound(g) /\ Shown(g) BY <1>2, <1>3, <1>4, AlikeIsSound
<1>6. QED BY <1>1, <1>5, OpenAiKeeping DEF Handling

(* A delta of a call arrives. *)
LEMMA OpenAiToolDelta ==
  ASSUME DeltasAssumption, Handling("read"), NEW delta \in Deltas, O!ToolDelta(delta)
  PROVE  KernelInv'
<1> DEFINE h == [gen EXCEPT !.calls = Merged(@, delta[1], delta[2])]
<1>1. O!Keep(h) BY OpenAiTexts DEF O!ToolDelta
<1>2. Sound(h) /\ Shown(h) BY ToolDeltas
<1> HIDE DEF h
<1>3. QED BY <1>1, <1>2, OpenAiKeeping DEF Handling

\* A message that has not started has no text.
LEMMA NotStarted ==
  ASSUME NEW g, Sound(g), ~g.started
  PROVE  Heard(g) = {} /\ wire.text = {}
BY DEF Sound, Begun, Heard

(* The stream breaks. *)
LEMMA OpenAiStreamFails ==
  ASSUME Handling("read"), O!StreamFails
  PROVE  KernelInv'
<1>1. (~gen.started /\ O!Retry(gen)) \/ O!Fail(gen) BY DEF O!StreamFails
<1>2. CASE ~gen.started /\ O!Retry(gen) BY <1>2, NotStarted, OpenAiRetrying DEF Handling
<1>3. CASE O!Fail(gen) BY <1>3, OpenAiFailing DEF Handling, Sound
<1>4. QED BY <1>1, <1>2, <1>3

(* The upstream says that it is done. *)
LEMMA OpenAiStreamEnds ==
  ASSUME Handling("read"), NEW finish, O!StreamEnds(finish)
  PROVE  KernelInv'
<1> DEFINE g == Pushed(Drained([gen EXCEPT !.finish = finish]), Flushed(gen.hold))
           r == [g EXCEPT !.reasoning = @ \cup Flushed(gen.rhold)]
           s == Say(r, Own(r))
           c == [s EXCEPT !.fence = FALSE]
<1>1. gen' = O!CloseFence(r) /\ stage' = "settle" /\ UNCHANGED <<req, prep, wire>>
  BY OpenAiTexts, OpenAiSaying DEF O!StreamEnds
<1>2. O!CloseFence(r) = c \/ O!CloseFence(r) = r BY OpenAiSaying DEF O!CloseFence
<1>3. Sound(g) /\ Shown(g) BY LettingGo
<1> HIDE DEF g
<1>4. Typed(g) BY <1>3 DEF Sound, Ready
<1>5. Alike(g, r) BY <1>4 DEF Alike, Typed, Fields
<1> HIDE DEF r
<1>6. Sound(r) /\ Shown(r) /\ Typed(r) BY <1>3, <1>4, <1>5, AlikeIsSound
<1>7. Ready(s) /\ Begun(s) /\ Shown(s) BY <1>6, OwnIsClean, SayingMore DEF Sound
<1>8. s.held = r.held /\ s.hold = r.hold /\ s.attempt = r.attempt /\ Typed(s) BY <1>6, Saying
<1> HIDE DEF s
<1>9. Held(s) BY <1>6, <1>8 DEF Sound, Held
<1>10. Alike(s, c) BY <1>8 DEF Alike, Typed, Fields
<1> HIDE DEF c
<1>11. Sound(c) /\ Shown(c) BY <1>7, <1>8, <1>9, <1>10, AlikeIsSound DEF Sound
<1>12. Sound(gen') /\ Shown(gen') BY <1>1, <1>2, <1>6, <1>11
<1>13. stage' \in Working /\ stage' # "fetch" BY <1>1 DEF Working
<1>14. QED BY <1>1, <1>12, <1>13, GoesOn DEF Handling

(* The handler decides between an answer, another attempt and an error. *)
LEMMA OpenAiSettle ==
  ASSUME Handling("settle"), O!Settle
  PROVE  KernelInv'
<1> DEFINE g == O!AfterLeak(gen)
           h == [Say(g, g.held) EXCEPT !.held = {}]
<1>1. /\ Sound(gen) /\ Typed(gen) /\ gen.out = <<>> /\ Shown(gen) /\ KernelInv /\ stage \in Working
      /\ prep.mode # "collected"
  BY DEF Handling
<1>2. Sound(g) /\ Shown(g) /\ g.out = <<>>
  <2>1. CASE O!Repairs(gen)
    <3>1. /\ DOMAIN g = Fields /\ g.out = gen.out /\ g.attempt = gen.attempt /\ g.calls = RepairedCall
          /\ g.started = gen.started /\ g.text = gen.text /\ g.textOpen = gen.textOpen
          /\ g.held = gen.held /\ g.hold = gen.hold
      BY <1>1, <2>1, OpenAiTexts DEF O!AfterLeak, Typed, Fields
    <3> HIDE DEF g
    <3>2. Ready(g) BY <1>1, <3>1, Repairing, Recorded DEF Sound
    <3>3. Held(g) /\ Begun(g) /\ Shown(g) BY <1>1, <3>1, Unspoken DEF Sound
    <3>4. QED BY <1>1, <3>1, <3>2, <3>3 DEF Sound
  <2>2. CASE ~O!Repairs(gen) BY <1>1, <2>2 DEF O!AfterLeak
  <2>3. QED BY <2>1, <2>2
<1>3. \/ ~g.started /\ O!Retry(g)
      \/ O!Fail(g)
      \/ g.text = {} /\ O!Retry(g)
      \/ gen' = h /\ stage' = "finish" /\ UNCHANGED <<req, prep, wire>>
  BY OpenAiSaying DEF O!Settle, O!RetriesUnfinished
<1> HIDE DEF g
<1>4. CASE ~g.started /\ O!Retry(g) BY <1>1, <1>2, <1>4, NotStarted, OpenAiRetrying
<1>5. CASE O!Fail(g) BY <1>1, <1>2, <1>5, OpenAiFailing DEF Sound
<1>6. CASE g.text = {} /\ O!Retry(g)
  <2>1. wire.text = {} BY <1>2, <1>6, Unheard DEF Heard
  <2>2. QED BY <1>1, <1>2, <1>6, <2>1, OpenAiRetrying
<1>7. CASE gen' = h /\ stage' = "finish" /\ UNCHANGED <<req, prep, wire>>
  <2>1. Sound(h) BY <1>2, SayingHeld DEF Sound
  <2> HIDE DEF h
  <2>2. stage' \in Working BY <1>7 DEF Working
  <2>3. QED BY <1>1, <1>7, <2>1, <2>2, GoesOn
<1>8. QED BY <1>3, <1>4, <1>5, <1>6, <1>7

(* The last events are sent. *)
LEMMA OpenAiEnd ==
  ASSUME Handling("finish"), prep.mode = "openai", O!End
  PROVE  KernelInv'
<1> DEFINE g == O!Shown(gen)
           s == Say(gen, Own(gen))
<1>1. /\ Sound(gen) /\ Ready(gen) /\ Typed(gen) /\ gen.out = <<>> /\ KernelInv /\ stage \in Working
      /\ prep.mode # "collected"
  BY DEF Handling, Sound
<1>2. ~Framed BY <1>1 DEF KernelInv, Stages
<1>3. Ready(s) /\ s.started
  <2>1. Ready(s) BY <1>1, SayingOwn
  <2>2. s.started BY <1>1, OwnIsClean, Saying
  <2>3. QED BY <2>1, <2>2
<1>4. g = s \/ g = gen BY OpenAiSaying DEF O!Shown
<1>5. \/ ~g.started /\ O!Retry(g)
      \/ O!Fail(g)
      \/ \E last : /\ gen' = [g EXCEPT !.out = g.out \o O!Starting(g) \o O!InOrder(g, DOMAIN g.calls) \o <<O!Ended(last)>>]
                   /\ stage' = "done" /\ UNCHANGED <<req, prep, wire>>
  BY DEF O!End
<1> HIDE DEF g, s
<1>6. Ready(g) BY <1>1, <1>3, <1>4
<1>7. CASE ~g.started /\ O!Retry(g)
  <2>1. g = gen BY <1>3, <1>4, <1>7
  <2>2. QED BY <1>1, <1>7, <2>1, NotStarted, OpenAiRetrying
<1>8. CASE O!Fail(g) BY <1>1, <1>6, <1>8, OpenAiFailing
<1>9. CASE \E last : /\ gen' = [g EXCEPT !.out = g.out \o O!Starting(g) \o O!InOrder(g, DOMAIN g.calls) \o <<O!Ended(last)>>]
                    /\ stage' = "done" /\ UNCHANGED <<req, prep, wire>>
  <2>1. PICK last : /\ gen' = [g EXCEPT !.out = g.out \o O!Starting(g) \o O!InOrder(g, DOMAIN g.calls) \o <<O!Ended(last)>>]
                    /\ stage' = "done" /\ UNCHANGED <<req, prep, wire>>
    BY <1>9
  <2>2. gen' = [g EXCEPT !.out = Concluded(g.out \o Starting(g), g, DOMAIN g.calls, last)]
    BY <2>1, OpenAiTexts, OpenAiSaying DEF Concluded
  <2>3. Quiet(Starting(g)) BY Quieten
  <2>4. IsFiniteSet(DOMAIN g.calls) /\ DOMAIN g.calls \subseteq Nat BY <1>6 DEF Ready, Typed
  <2> DEFINE K == DOMAIN g.calls
  <2>5. gen' = [g EXCEPT !.out = Concluded(g.out \o Starting(g), g, K, last)] BY <2>2
  <2>6. IsFiniteSet(K) /\ K \subseteq Nat BY <2>4
  <2> HIDE DEF K
  <2>7. /\ Framed => \A k \in K : g.calls[k] \notin {"partial", "bad"}
        /\ Framed /\ req.cc => \A k, l \in K : g.calls[k] = g.calls[l] => k = l
    BY <1>2
  <2>8. KernelInv /\ stage \in Working BY <1>1
  <2>9. stage' = "done" /\ UNCHANGED <<req, prep, wire>> BY <2>1
  <2>10. QED BY <1>6, <2>3, <2>5, <2>6, <2>7, <2>8, <2>9, Closing
<1>10. QED BY <1>5, <1>7, <1>8, <1>9

-----------------------------------------------------------------------------
(* The collecting handler *)

(* The instance computes the texts, calls and events as the state module does. *)
LEMMA CollectedTexts ==
  /\ C!NoCalls = NoCalls /\ C!RepairedCall = RepairedCall
  /\ \A kind, n : C!Piece(kind, n) = Piece(kind, n)
  /\ \A text : C!Leaky(text) <=> Leaky(text)
  /\ \A calls : C!Streamable(calls) = Streamable(calls)
  /\ \A calls, K : C!Deduplicated(calls, K) = Deduplicated(calls, K)
  /\ \A stop : C!Ended(stop) = Ended(stop)
  /\ \A kind, text, at : C!Grown(kind, text, at) = Grown(kind, text, at)
  /\ \A kind, at : C!Closed(kind, at) = Closed(kind, at)
  /\ \A open, kind, at : C!Opening(open, kind, at) = Opening(open, kind, at)
  /\ C!Started = Started /\ C!Framed = Framed
  /\ \A g : C!Own(g) = Own(g)
<1>1. C!NoCalls = NoCalls BY DEF C!NoCalls, NoCalls
<1>2. \A calls, n, what : C!Merged(calls, n, what) = Merged(calls, n, what) BY DEF C!Merged, Merged
<1>3. C!RepairedCall = RepairedCall BY <1>1, <1>2 DEF C!RepairedCall, RepairedCall
<1>4. \A kind, n : C!Piece(kind, n) = Piece(kind, n) BY DEF C!Piece, Piece
<1>5. \A text : C!Leaky(text) <=> Leaky(text) BY DEF C!Leaky, C!Has, Leaky, Has
<1>6. \A calls : C!Streamable(calls) = Streamable(calls) BY DEF C!Streamable, Streamable
<1>7. \A calls, K : C!Deduplicated(calls, K) = Deduplicated(calls, K) BY DEF C!Deduplicated, Deduplicated
<1>8. \A stop : C!Ended(stop) = Ended(stop) BY DEF C!Ended, Ended
<1>9. \A kind, text, at : C!Grown(kind, text, at) = Grown(kind, text, at) BY DEF C!Grown, Grown
<1>10. \A kind, at : C!Closed(kind, at) = Closed(kind, at) BY DEF C!Closed, Closed
<1>11. \A open, kind, at : C!Opening(open, kind, at) = Opening(open, kind, at)
  BY DEF C!Opening, Opening, C!Framed, Framed, C!Opened, Opened
<1>12. C!Started = Started /\ C!Framed = Framed BY DEF C!Started, Started, C!Framed, Framed
<1>13. \A g : C!Own(g) = Own(g) BY <1>4 DEF C!Own, Own
<1>14. QED BY <1>1, <1>3, <1>4, <1>5, <1>6, <1>7, <1>8, <1>9, <1>10, <1>11, <1>12, <1>13

(* And puts the calls in the same order. *)
LEMMA CollectedOrder == \A g, K : C!InOrder(g, K) = InOrder(g, K)
BY Zenon DEF C!InOrder, InOrder, C!Given, Given, C!CallsAt, CallsAt, C!Called, Called, C!Cardinality, Cardinality

\* The collecting handler is at work.
Collecting == KernelInv /\ stage \in Working /\ prep.mode = "collected"

(* Nothing is said before the answer has been judged. *)
LEMMA NothingYet ==
  ASSUME Collecting
  PROVE  /\ gen.out = <<>> /\ wire.text = {} /\ wire.given = <<>> /\ wire.thought \in BOOLEAN
         /\ Typed(gen) /\ Ready(gen)
<1>1. gen.out = <<>> /\ wire.text = {} /\ wire.given = <<>> /\ wire.thought \in BOOLEAN /\ Typed(gen)
  BY DEF Collecting, KernelInv, Stages, Shapes
<1>2. Heard(gen) = {} BY <1>1, Nothing DEF Heard
<1>3. Ready(gen) BY <1>1, <1>2, Nothing, Texts DEF Ready
<1>4. QED BY <1>1, <1>3

\* The next attempt, or what comes after the last, has still said nothing.
Kept(g) == DOMAIN g = Fields /\ g.out = <<>> /\ g.calls = gen.calls

(* The handler goes on without having said anything. *)
LEMMA StillCollecting ==
  ASSUME Collecting, NEW g, Kept(g), gen' = g, stage' \in Working, UNCHANGED <<req, prep, wire>>
  PROVE  KernelInv'
<1> USE Carried
<1>1. /\ gen.out = <<>> /\ wire.text = {} /\ wire.given = <<>> /\ wire.thought \in BOOLEAN /\ Typed(gen)
  BY NothingYet
<1>2. Typed(g) BY <1>1, Short DEF Kept, Typed
<1>3. Heard(g) = {} BY <1>1, Nothing DEF Heard, Kept
<1>4. Ready(g) BY <1>2, <1>3, Nothing, Texts DEF Ready, Kept
<1>5. Consistent(g) BY <1>1, <1>4, ReadyIsConsistent
<1>6. stage' \notin Early /\ stage' # "gone" BY DEF Early, Working
<1>7. Shapes'
  <2>1. Typed(gen)' BY <1>2
  <2>2. QED BY <1>6, <2>1 DEF Collecting, KernelInv, Shapes
<1>8. Stages' BY <1>1, <1>6 DEF Collecting, KernelInv, Stages, Kept
<1>9. Streaming' BY DEF Streaming, Collecting
<1>10. Clean'
  <2>1. Heard(gen)' = {} BY <1>3
  <2>2. QED BY <2>1, Texts DEF Clean
<1>11. Consistent(gen)' BY <1>5
<1>12. QED BY <1>7, <1>8, <1>9, <1>10, <1>11 DEF KernelInv

(* It asks again, or reads on. *)
LEMMA CollectedAdvancing ==
  ASSUME Collecting, NEW g, Kept(g), C!Advance(g) \/ C!Break(g)
  PROVE  KernelInv'
<1>1. CASE C!Advance(g)
  <2> DEFINE h == IF C!More(g) THEN [g EXCEPT !.attempt = @ + 1] ELSE g
  <2>1. gen' = h /\ stage' \in Working /\ UNCHANGED <<req, prep, wire>> BY <1>1 DEF C!Advance, Working
  <2>2. Kept(h) BY DEF Kept, Fields
  <2> HIDE DEF h
  <2>3. QED BY <2>1, <2>2, StillCollecting
<1>2. CASE C!Break(g)
  <2>1. gen' = g /\ stage' \in Working /\ UNCHANGED <<req, prep, wire>> BY <1>2 DEF C!Break, Working
  <2>2. QED BY <2>1, StillCollecting
<1>3. QED BY <1>1, <1>2

(* It answers with an error. *)
LEMMA CollectedRefusing ==
  ASSUME Collecting, C!Refuse
  PROVE  KernelInv'
<1>1. gen' = [gen EXCEPT !.out = <<Ended("error")>>] /\ stage' = "done" /\ UNCHANGED <<req, prep, wire>>
  BY CollectedTexts DEF C!Refuse, C!Respond
<1>2. gen.out = <<>> /\ wire.given = <<>> /\ Ready(gen) BY NothingYet
<1>3. gen.out \o <<Ended("error")>> = <<Ended("error")>> BY <1>2
<1>4. gen' = [gen EXCEPT !.out = @ \o <<Ended("error")>>] BY <1>1, <1>3
<1>5. QED BY <1>1, <1>2, <1>4, Failing DEF Collecting

\* What is quiet may come first.
LEMMA Foreword ==
  ASSUME NEW s, Quiet(s), NEW t, Listed(t)
  PROVE  Listed(s \o t) /\ Spoken(s \o t) = Spoken(t) /\ ToldCalls(s \o t) = ToldCalls(t)
<1>1. Listed(s \o t) /\ In(s \o t) = In(s) \cup In(t) BY Concatenation DEF Quiet
<1>2. \A f \in In(s) : f.e # "grow" /\ f.e # "call" BY DEF Quiet
<1>3. {f \in In(s \o t) : f.e = "grow" /\ f.kind = "text"} = {f \in In(t) : f.e = "grow" /\ f.kind = "text"}
  BY <1>1, <1>2
<1>4. {f \in In(s \o t) : f.e = "call"} = {f \in In(t) : f.e = "call"} BY <1>1, <1>2
<1>5. QED BY <1>1, <1>3, <1>4 DEF Spoken, ToldCalls

\* An answer of one attempt whose calls can be told apart by their indexes.
Whole(answer) ==
  /\ From(answer.text, gen.attempt) /\ From(answer.reasoning, gen.attempt)
  /\ IsFiniteSet(DOMAIN answer.calls) /\ DOMAIN answer.calls \subseteq Nat

(* The text that is shown is clean and of the present attempt. *)
LEMMA SeenText ==
  ASSUME NEW answer, Whole(answer)
  PROVE  ~Leaky(C!Visible(answer)) /\ From(C!Visible(answer), gen.attempt)
BY CollectedTexts, Texts DEF C!Visible, Whole

(* The events that show it. *)
LEMMA TextEvents ==
  ASSUME NEW answer
  PROVE  LET t == C!TextEvents(answer) IN
         Listed(t) /\ Spoken(t) \subseteq C!Visible(answer) /\ ToldCalls(t) = {}
<1> DEFINE t == C!TextEvents(answer)
           o == Opening(FALSE, "text", 0)
           c == IF Framed THEN <<Closed("text", 0)>> ELSE <<>>
           r == (o \o <<Grown("text", C!Visible(answer), 0)>>) \o c
<1>1. t = <<>> \/ t = r BY CollectedTexts DEF C!TextEvents
<1>2. Quiet(o) /\ Quiet(c) BY Quieten
<1> HIDE DEF o, c
<1>3. Listed(r) /\ Spoken(r) = C!Visible(answer) /\ ToldCalls(r) = {} BY <1>2, OneText
<1> HIDE DEF t, r
<1>4. Listed(t) /\ Spoken(t) \subseteq C!Visible(answer) /\ ToldCalls(t) = {}
  BY <1>1, <1>3, Short, Nothing
<1>5. QED BY <1>4 DEF t

(* The calls that are sent: complete ones, and each once. *)
LEMMA EmittedWhole ==
  ASSUME NEW answer, Whole(answer)
  PROVE  LET K == C!EmittedCalls(answer) IN
         /\ IsFiniteSet(K) /\ K \subseteq Nat
         /\ Framed => \A k \in K : answer.calls[k] \notin {"partial", "bad"}
         /\ Framed /\ req.cc => \A k, l \in K : answer.calls[k] = answer.calls[l] => k = l
<1> DEFINE K == C!EmittedCalls(answer)
           calls == answer.calls
<1>1. IsFiniteSet(DOMAIN calls) /\ DOMAIN calls \subseteq Nat BY DEF Whole
<1>2. K = IF ~Framed THEN DOMAIN calls
          ELSE IF req.cc THEN Deduplicated(calls, Streamable(calls)) ELSE Streamable(calls)
  BY CollectedTexts DEF C!EmittedCalls, Framed
<1> HIDE DEF K, calls
<1>3. /\ IsFiniteSet(K) /\ K \subseteq Nat
      /\ Framed => \A k \in K : calls[k] \notin {"partial", "bad"}
      /\ Framed /\ req.cc => \A k, l \in K : calls[k] = calls[l] => k = l
  <2>1. CASE ~Framed BY <1>1, <1>2, <2>1
  <2>2. CASE Framed BY <1>1, <1>2, <2>2, Emitting
  <2>3. QED BY <2>1, <2>2
<1>4. QED BY <1>3 DEF K, calls

(* An answer is sent as a whole. *)
LEMMA CollectedAnswering ==
  ASSUME Collecting, NEW answer, Whole(answer), NEW cut, C!Answer(answer, cut)
  PROVE  KernelInv'
<1> DEFINE c    == [gen EXCEPT !.calls = answer.calls, !.next = IF C!TextEvents(answer) = <<>> THEN 0 ELSE 1]
           K    == C!EmittedCalls(answer)
           last == C!StopOf(answer, cut)
           t    == C!TextEvents(answer)
           s    == <<Started>> \o t
           h    == [gen EXCEPT !.out = Concluded(s, c, K, last)]
<1>1. CASE C!Refuse BY <1>1, CollectedRefusing
<1>2. CASE ~C!Refuse
  <2>1. gen' = h /\ stage' = "done" /\ UNCHANGED <<req, prep, wire>>
    BY <1>2, CollectedTexts, CollectedOrder DEF C!Answer, C!Respond, C!CallEvents, Concluded
  <2>2. wire.text = {} /\ wire.given = <<>> /\ wire.thought \in BOOLEAN /\ Typed(gen) BY NothingYet
  <2>3. c.attempt = gen.attempt /\ c.calls = answer.calls BY <2>2 DEF Typed, Fields
  <2>4. /\ IsFiniteSet(K) /\ K \subseteq Nat
        /\ Framed => \A k \in K : c.calls[k] \notin {"partial", "bad"}
        /\ Framed /\ req.cc => \A k, l \in K : c.calls[k] = c.calls[l] => k = l
    BY <2>3, EmittedWhole
  <2>5. Listed(t) /\ Spoken(t) \subseteq C!Visible(answer) /\ ToldCalls(t) = {} BY TextEvents
  <2> HIDE DEF t
  <2>6. Listed(s) /\ Spoken(s) \subseteq C!Visible(answer) /\ ToldCalls(s) = {} BY <2>5, Quieten, Foreword
  <2>7. ~Leaky(C!Visible(answer)) /\ From(C!Visible(answer), c.attempt) BY <2>3, SeenText
  <2> HIDE DEF s, c, K, last
  <2>8. From(wire.text \cup Spoken(s), c.attempt) /\ ~Leaky(wire.text \cup Spoken(s))
    <3>1. wire.text \cup Spoken(s) \subseteq C!Visible(answer) BY <2>2, <2>6
    <3>2. QED BY <2>7, <3>1, Texts
  <2>9. DOMAIN h = Fields /\ h.out = Concluded(s, c, K, last) /\ h.calls = gen.calls BY <2>2 DEF Typed, Fields
  <2> HIDE DEF h
  <2>10. Consistent(h) /\ Says(h, s)
    <3>1. wire.given = <<>> /\ wire.thought \in BOOLEAN BY <2>2
    <3>2. Listed(s) /\ ToldCalls(s) = {} BY <2>6
    <3>3. From(wire.text \cup Spoken(s), c.attempt) BY <2>8
    <3>4. h.out = Concluded(s, c, K, last) BY <2>9
    <3>5. QED BY <2>4, <3>1, <3>2, <3>3, <3>4, Concluding
  <2>11. Typed(h) /\ ~Leaky(Heard(h)) BY <2>2, <2>8, <2>9, <2>10 DEF Typed, Says
  <2>12. QED BY <2>1, <2>10, <2>11, GoesOut DEF Collecting
<1>3. QED BY <1>1, <1>2

(* The kernel's own words are sent instead. *)
LEMMA CollectedOwn ==
  ASSUME Collecting, C!OwnAnswer
  PROVE  KernelInv'
<1> DEFINE answer == [text |-> Own(gen), reasoning |-> {}, calls |-> NoCalls]
<1>1. C!Answer(answer, FALSE) BY CollectedTexts DEF C!OwnAnswer
<1>2. Whole(answer) BY OwnIsClean, NoCallsTyped, Texts DEF Whole
<1> HIDE DEF answer
<1>3. QED BY <1>1, <1>2, CollectedAnswering

(* The steps that keep what was said, that is nothing. *)
LEMMA Keeps ==
  ASSUME Collecting
  PROVE  /\ Kept(gen) /\ Kept(C!Empty(gen)) /\ Kept([gen EXCEPT !.fault = "incomplete"])
         /\ \A g, tried : Kept(g) => Kept(C!Use(g, tried))
<1>1. gen.out = <<>> /\ Typed(gen) BY NothingYet
<1>2. Kept(gen) BY <1>1 DEF Kept, Typed
<1>3. Kept(C!Empty(gen)) BY <1>2 DEF Kept, C!Empty, Fields
<1>4. Kept([gen EXCEPT !.fault = "incomplete"]) BY <1>2 DEF Kept, Fields
<1>5. ASSUME NEW g, NEW tried, Kept(g) PROVE Kept(C!Use(g, tried)) BY <1>5 DEF Kept, C!Use, Fields
<1>6. QED BY <1>2, <1>3, <1>4, <1>5

(* The last resort: an answer of nothing but the end. *)
LEMMA CollectedGiving ==
  ASSUME Collecting, C!Give(gen)
  PROVE  KernelInv'
<1>1. C!Advance(gen) \/ C!Refuse BY DEF C!Give
<1>2. QED BY <1>1, Keeps, CollectedAdvancing, CollectedRefusing

(* An answer is sent, or another attempt made of it. *)
LEMMA CollectedJudging ==
  ASSUME Collecting, NEW original, Whole(original), DOMAIN original = {"text", "reasoning", "calls"},
         NEW cut, C!Judge(original, cut)
  PROVE  KernelInv'
<1> DEFINE answer == C!RepairedAnswer(original)
<1>1. Whole(answer)
  <2>1. CASE answer = original BY <2>1
  <2>2. CASE answer # original
    <3>1. answer = [original EXCEPT !.calls = RepairedCall, !.text = {}]
      BY <2>2, CollectedTexts DEF C!RepairedAnswer
    <3>2. answer.text = {} /\ answer.reasoning = original.reasoning /\ answer.calls = RepairedCall BY <3>1
    <3> HIDE DEF answer
    <3>3. QED BY <3>2, Repairing, Texts DEF Whole
  <2>3. QED BY <2>1, <2>2
<1>2. \/ C!Give(gen)
      \/ C!Advance(C!Empty(gen))
      \/ C!Advance(C!Use(C!Empty(gen), {"reasoning"}))
      \/ C!OwnAnswer
      \/ C!Refuse
      \/ \E tried : C!Advance(C!Use([gen EXCEPT !.fault = "incomplete"], tried))
      \/ C!Answer(answer, cut)
  BY DEF C!Judge
<1> HIDE DEF answer
<1>3. CASE C!Give(gen) BY <1>3, CollectedGiving
<1>4. CASE C!Advance(C!Empty(gen)) BY <1>4, Keeps, CollectedAdvancing
<1>5. CASE C!Advance(C!Use(C!Empty(gen), {"reasoning"})) BY <1>5, Keeps, CollectedAdvancing
<1>6. CASE C!OwnAnswer BY <1>6, CollectedOwn
<1>7. CASE C!Refuse BY <1>7, CollectedRefusing
<1>8. CASE \E tried : C!Advance(C!Use([gen EXCEPT !.fault = "incomplete"], tried))
  BY <1>8, Keeps, CollectedAdvancing
<1>9. CASE C!Answer(answer, cut) BY <1>1, <1>9, CollectedAnswering
<1>10. QED BY <1>2, <1>3, <1>4, <1>5, <1>6, <1>7, <1>8, <1>9

(* An answer has been collected. *)
LEMMA CollectedCollect ==
  ASSUME CollectionsAssumption, Collecting, NEW collected \in Collections, NEW end, NEW finish,
         C!Collect(collected, end, finish)
  PROVE  KernelInv'
<1> DEFINE answer == C!Brought(collected)
<1>1. /\ DOMAIN answer = {"text", "reasoning", "calls"} /\ answer.calls = collected.calls
      /\ answer.text = C!Tagged(collected.text) /\ answer.reasoning = C!Tagged(collected.reasoning)
  BY DEF C!Brought, CollectionsAssumption
<1>2. \A kinds : From(C!Tagged(kinds), gen.attempt) BY CollectedTexts DEF C!Tagged, From, Piece
<1>3. \/ \E cut : C!Judge(answer, cut)
      \/ C!NothingForwarded(answer)
      \/ C!Give(gen)
  <2>1. C!Outcome(answer, end) \in {"kept", "nothing", "error"} BY DEF C!Outcome
  <2> HIDE DEF answer
  <2>2. CASE C!Outcome(answer, end) = "kept" BY <2>2 DEF C!Collect, answer
  <2>3. CASE C!Outcome(answer, end) = "nothing" BY <2>3 DEF C!Collect, answer
  <2>4. CASE C!Outcome(answer, end) = "error" BY <2>4 DEF C!Collect, answer
  <2>5. QED BY <2>1, <2>2, <2>3, <2>4
<1> HIDE DEF answer
<1>4. Whole(answer) BY <1>1, <1>2 DEF Whole, CollectionsAssumption
<1>5. CASE \E cut : C!Judge(answer, cut) BY <1>1, <1>4, <1>5, CollectedJudging
<1>6. CASE C!NothingForwarded(answer)
  <2>1. \/ C!Judge(answer, FALSE)
        \/ C!OwnAnswer
        \/ C!Break(C!Empty(gen))
        \/ C!Advance(C!Use(C!Empty(gen), {"stream"}))
    BY <1>6 DEF C!NothingForwarded
  <2>2. CASE C!Judge(answer, FALSE) BY <1>1, <1>4, <2>2, CollectedJudging
  <2>3. CASE C!Break(C!Empty(gen)) BY <2>3, Keeps, CollectedAdvancing
  <2>4. CASE C!Advance(C!Use(C!Empty(gen), {"stream"})) BY <2>4, Keeps, CollectedAdvancing
  <2>5. CASE C!OwnAnswer BY <2>5, CollectedOwn
  <2>6. QED BY <2>1, <2>2, <2>3, <2>4, <2>5
<1>7. CASE C!Give(gen) BY <1>7, CollectedGiving
<1>8. QED BY <1>3, <1>5, <1>6, <1>7

(* Every step of the collecting handler. *)
LEMMA CollectedSteps ==
  ASSUME CollectionsAssumption, KernelInv, AnswerCollected
  PROVE  KernelInv'
<1>1. CASE C!FetchSucceeds
  <2>1. stage = "fetch" /\ stage' = "read" /\ UNCHANGED <<req, prep, gen, wire>>
    BY <1>1 DEF C!FetchSucceeds, C!At
  <2>2. Collecting /\ stage' \in Working BY <2>1 DEF Collecting, AnswerCollected, InMode, Working
  <2>3. QED BY <2>1, <2>2, Keeps, StillCollecting
<1>2. CASE C!Exhausted
  <2>1. stage = "finish" /\ (C!OwnAnswer \/ C!Refuse) BY <1>2 DEF C!Exhausted, C!At
  <2>2. Collecting BY <2>1 DEF Collecting, AnswerCollected, InMode, Working
  <2>3. QED BY <2>1, <2>2, CollectedOwn, CollectedRefusing
<1>3. CASE \E error \in Errors : C!FetchFails(error)
  <2>1. PICK error \in Errors : C!FetchFails(error) BY <1>3
  <2>2. stage = "fetch" /\ ((\E tried : C!Advance(C!Use(gen, tried))) \/ C!Give(gen))
    BY <2>1 DEF C!FetchFails, C!At
  <2>3. Collecting BY <2>2 DEF Collecting, AnswerCollected, InMode, Working
  <2>4. QED BY <2>2, <2>3, Keeps, CollectedAdvancing, CollectedGiving
<1>4. CASE \E answer \in Collections, end \in C!Ends, finish \in Finishes : C!Collect(answer, end, finish)
  <2>1. PICK answer \in Collections, end \in C!Ends, finish \in Finishes : C!Collect(answer, end, finish) BY <1>4
  <2>2. stage = "read" BY <2>1 DEF C!Collect, C!At
  <2>3. Collecting BY <2>2 DEF Collecting, AnswerCollected, InMode, Working
  <2>4. QED BY <2>1, <2>3, CollectedCollect
<1>5. QED BY <1>1, <1>2, <1>3, <1>4 DEF AnswerCollected

-----------------------------------------------------------------------------
(* The handlers as wholes *)

(* Every step of the Anthropic handler. *)
LEMMA AnthropicSteps ==
  ASSUME DeltasAssumption, KernelInv, AnswerAnthropic
  PROVE  KernelInv'
<1>1. prep.mode = "anthropic" /\ prep.mode # "collected" BY DEF AnswerAnthropic, InMode
<1>2. \A step \in Working : stage = step /\ gen.out = <<>> => Handling(step)
  BY <1>1, HandlingHolds
<1>3. "fetch" \in Working /\ "read" \in Working /\ "settle" \in Working /\ "finish" \in Working BY DEF Working
<1>4. CASE A!FetchSucceeds
  <2>1. Handling("fetch") BY <1>2, <1>3, <1>4 DEF A!FetchSucceeds, A!At
  <2>2. QED BY <1>4, <2>1, AnthropicFetchSucceeds
<1>5. CASE A!Stall
  <2>1. Handling("read") BY <1>2, <1>3, <1>5 DEF A!Stall, A!At
  <2>2. QED BY <1>5, <2>1, AnthropicStall
<1>6. CASE A!StreamFails
  <2>1. Handling("read") BY <1>2, <1>3, <1>6 DEF A!StreamFails, A!At
  <2>2. QED BY <1>6, <2>1, AnthropicStreamFails
<1>7. CASE A!Settle
  <2>1. Handling("settle") BY <1>2, <1>3, <1>7 DEF A!Settle, A!At
  <2>2. QED BY <1>1, <1>7, <2>1, AnthropicSettle
<1>8. CASE \E error \in Errors : A!FetchFails(error)
  <2>1. PICK error \in Errors : A!FetchFails(error) BY <1>8
  <2>2. Handling("fetch") BY <1>2, <1>3, <2>1 DEF A!FetchFails, A!At
  <2>3. QED BY <2>1, <2>2, AnthropicFetchFails
<1>9. CASE \E kind \in ContentKinds : A!Content(kind)
  <2>1. PICK kind \in ContentKinds : A!Content(kind) BY <1>9
  <2>2. Handling("read") BY <1>2, <1>3, <2>1 DEF A!Content, A!Reading, A!At
  <2>3. QED BY <2>1, <2>2, AnthropicContent
<1>10. CASE \E kind \in ReasoningKinds : A!Reasoning(kind)
  <2>1. PICK kind \in ReasoningKinds : A!Reasoning(kind) BY <1>10
  <2>2. Handling("read") BY <1>2, <1>3, <2>1 DEF A!Reasoning, A!Reading, A!At
  <2>3. QED BY <2>1, <2>2, AnthropicReasoning
<1>11. CASE \E delta \in Deltas : A!ToolDelta(delta)
  <2>1. PICK delta \in Deltas : A!ToolDelta(delta) BY <1>11
  <2>2. Handling("read") BY <1>2, <1>3, <2>1 DEF A!ToolDelta, A!Reading, A!At
  <2>3. QED BY <2>1, <2>2, AnthropicToolDelta
<1>12. CASE \E finish \in Finishes : A!StreamEnds(finish)
  <2>1. PICK finish \in Finishes : A!StreamEnds(finish) BY <1>12
  <2>2. Handling("read") BY <1>2, <1>3, <2>1 DEF A!StreamEnds, A!At
  <2>3. QED BY <2>1, <2>2, AnthropicStreamEnds
<1>13. CASE \E long \in BOOLEAN : A!End(long)
  <2>1. PICK long \in BOOLEAN : A!End(long) BY <1>13
  <2>2. Handling("finish") BY <1>2, <1>3, <2>1 DEF A!End, A!At
  <2>3. QED BY <2>1, <2>2, AnthropicEnd
<1>14. QED BY <1>4, <1>5, <1>6, <1>7, <1>8, <1>9, <1>10, <1>11, <1>12, <1>13 DEF AnswerAnthropic

(* Every step of the OpenAI handler. *)
LEMMA OpenAiSteps ==
  ASSUME DeltasAssumption, KernelInv, AnswerOpenai
  PROVE  KernelInv'
<1>1. prep.mode = "openai" /\ prep.mode # "collected" BY DEF AnswerOpenai, InMode
<1>2. \A step \in Working : stage = step /\ gen.out = <<>> => Handling(step)
  BY <1>1, HandlingHolds
<1>3. "fetch" \in Working /\ "read" \in Working /\ "settle" \in Working /\ "finish" \in Working BY DEF Working
<1>4. CASE O!FetchSucceeds
  <2>1. Handling("fetch") BY <1>2, <1>3, <1>4 DEF O!FetchSucceeds, O!At
  <2>2. QED BY <1>4, <2>1, OpenAiFetchSucceeds
<1>5. CASE O!StreamFails
  <2>1. Handling("read") BY <1>2, <1>3, <1>5 DEF O!StreamFails, O!At
  <2>2. QED BY <1>5, <2>1, OpenAiStreamFails
<1>6. CASE O!Settle
  <2>1. Handling("settle") BY <1>2, <1>3, <1>6 DEF O!Settle, O!At
  <2>2. QED BY <1>6, <2>1, OpenAiSettle
<1>7. CASE O!End
  <2>1. Handling("finish") BY <1>2, <1>3, <1>7 DEF O!End, O!At
  <2>2. QED BY <1>1, <1>7, <2>1, OpenAiEnd
<1>8. CASE \E error \in Errors : O!FetchFails(error)
  <2>1. PICK error \in Errors : O!FetchFails(error) BY <1>8
  <2>2. Handling("fetch") BY <1>2, <1>3, <2>1 DEF O!FetchFails, O!At
  <2>3. QED BY <2>1, <2>2, OpenAiFetchFails
<1>9. CASE \E kind \in ContentKinds : O!Content(kind)
  <2>1. PICK kind \in ContentKinds : O!Content(kind) BY <1>9
  <2>2. Handling("read") BY <1>2, <1>3, <2>1 DEF O!Content, O!Reading, O!At
  <2>3. QED BY <2>1, <2>2, OpenAiContent
<1>10. CASE \E kind \in ReasoningKinds : O!Reasoning(kind)
  <2>1. PICK kind \in ReasoningKinds : O!Reasoning(kind) BY <1>10
  <2>2. Handling("read") BY <1>2, <1>3, <2>1 DEF O!Reasoning, O!Reading, O!At
  <2>3. QED BY <2>1, <2>2, OpenAiReasoning
<1>11. CASE \E delta \in Deltas : O!ToolDelta(delta)
  <2>1. PICK delta \in Deltas : O!ToolDelta(delta) BY <1>11
  <2>2. Handling("read") BY <1>2, <1>3, <2>1 DEF O!ToolDelta, O!Reading, O!At
  <2>3. QED BY <2>1, <2>2, OpenAiToolDelta
<1>12. CASE \E finish \in Finishes : O!StreamEnds(finish)
  <2>1. PICK finish \in Finishes : O!StreamEnds(finish) BY <1>12
  <2>2. Handling("read") BY <1>2, <1>3, <2>1 DEF O!StreamEnds, O!At
  <2>3. QED BY <2>1, <2>2, OpenAiStreamEnds
<1>13. QED BY <1>4, <1>5, <1>6, <1>7, <1>8, <1>9, <1>10, <1>11, <1>12 DEF AnswerOpenai

-----------------------------------------------------------------------------
(* The theorems *)

(* A step that changes nothing. *)
LEMMA StutterKeeps ==
  ASSUME KernelInv, UNCHANGED vars
  PROVE  KernelInv'
<1> USE Carried
<1>1. stage' = stage /\ prep' = prep /\ gen' = gen /\ req' = req /\ wire' = wire BY DEF vars
<1>2. Shapes' BY <1>1 DEF KernelInv, Shapes
<1>3. Stages' BY <1>1 DEF KernelInv, Stages
<1>4. Streaming' BY <1>1 DEF KernelInv, Streaming
<1>5. Clean' BY <1>1 DEF KernelInv, Clean
<1>6. Consistent(gen)' BY <1>1 DEF KernelInv
<1>7. QED BY <1>2, <1>3, <1>4, <1>5, <1>6 DEF KernelInv

\* The invariant, on which the others rest: what the client has or is about
\* to get is the present attempt's as long as the handler may give the
\* attempt up.
THEOREM KernelInvariant == Spec => []KernelInv
<1>1. Init => KernelInv BY RequestsAssumption, InitHolds
<1>2. KernelInv /\ [Next]_vars => KernelInv'
  <2> SUFFICES ASSUME KernelInv, [Next]_vars PROVE KernelInv' OBVIOUS
  <2>1. CASE GuardBefore \/ Govern \/ GuardAfter \/ Translate \/ ShortenContext \/ AnchorInstruction \/ Canonicalize
    BY <2>1, EarlySteps
  <2>2. CASE Dispatch BY <2>2, Dispatching
  <2>3. CASE AnswerAnthropic BY <2>3, DeltasAssumption, AnthropicSteps
  <2>4. CASE AnswerOpenai BY <2>4, DeltasAssumption, OpenAiSteps
  <2>5. CASE AnswerCollected BY <2>5, CollectionsAssumption, CollectedSteps
  <2>6. CASE Deliver BY <2>6, Delivering
  <2>7. CASE HangUp BY <2>7, HangingUp
  <2>8. CASE UNCHANGED vars BY <2>8, StutterKeeps
  <2>9. QED BY <2>1, <2>2, <2>3, <2>4, <2>5, <2>6, <2>7, <2>8 DEF Next, Work
<1>3. QED BY <1>1, <1>2, PTL DEF Spec

\* Tool markup reaches a client as text only once a call has come: whatever
\* the handler shows, holds back or repairs (dsml_guard.rs).
THEOREM MarkupStaysBack == Spec => []MarkupWithheld
<1>1. KernelInv => MarkupWithheld
  <2> SUFFICES ASSUME KernelInv, stage # "gone", Leaky(wire.text) PROVE gen.calls # NoCalls
    BY DEF MarkupWithheld
  <2>1. Leaky(Heard(gen)) BY Texts DEF Heard
  <2>2. QED BY <2>1 DEF KernelInv, Clean
<1>2. QED BY <1>1, KernelInvariant, PTL

\* The text and the calls of an answer are one attempt's, unless reasoning
\* had been shown: the retries of the three handlers never mix two answers.
THEOREM AnswerOfOneAttempt == Spec => []OneAttempt
<1>1. KernelInv => OneAttempt
  <2> SUFFICES ASSUME KernelInv, ~wire.thought
               PROVE  Cardinality(AttemptsOf(wire.text) \cup {wire.given[n].from : n \in DOMAIN wire.given}) <= 1
    BY DEF OneAttempt
  <2> DEFINE S == AttemptsOf(wire.text) \cup {wire.given[n].from : n \in DOMAIN wire.given}
  <2>1. S \subseteq Sources(gen) BY DEF Sources, AttemptsOf, Heard, Calls, In
  <2>2. \A x, y \in Sources(gen) : x = y BY DEF KernelInv, Consistent
  <2> HIDE DEF S
  <2>3. CASE S = {}
    <3>1. Cardinality(S) = 0 BY <2>3, FS_EmptySet
    <3>2. QED BY <3>1 DEF S
  <2>4. CASE S # {}
    <3>1. PICK x : x \in S BY <2>4
    <3>2. S = {x} BY <2>1, <2>2, <3>1
    <3>3. Cardinality(S) = 1 BY <3>2, FS_Singleton
    <3>4. QED BY <3>3 DEF S
  <2>5. QED BY <2>3, <2>4
<1>2. QED BY <1>1, KernelInvariant, PTL

\* An Anthropic client gets no call with incomplete or refused arguments, and
\* Claude Code none twice (streamable_anthropic_tool_call,
\* should_skip_duplicate_claude_code_tool_call).
THEOREM CallsAreWhole == Spec => []WholeCalls
<1>1. KernelInv => WholeCalls
  <2> SUFFICES ASSUME KernelInv, Framed
               PROVE  /\ \A n \in DOMAIN wire.given : wire.given[n].what \notin {"partial", "bad"}
                      /\ req.cc => \A m, n \in DOMAIN wire.given :
                                     wire.given[m].what = wire.given[n].what => m = n
    BY DEF WholeCalls
  <2>1. \A n \in DOMAIN wire.given : wire.given[n] \in Calls(gen) BY DEF Calls, In
  <2>2. \A n \in DOMAIN wire.given : wire.given[n].what \notin {"partial", "bad"}
    BY <2>1 DEF KernelInv, Consistent
  <2>3. req.cc => OnceEach(wire.given, gen.out) BY DEF KernelInv, Consistent
  <2>4. QED BY <2>2, <2>3 DEF OnceEach
<1>2. QED BY <1>1, KernelInvariant, PTL
=============================================================================
