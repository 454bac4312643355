------------------------ MODULE KernelMessage_proofs -------------------------
(***************************************************************************)
(* Proofs about Kernel, on those of Kernel_proofs: that what a client gets *)
(* from each of the three handlers is one message (MessageStream), for any *)
(* requests, deltas, collected answers and numbers of attempts.            *)
(*                                                                         *)
(* The client takes one event at a time, and whether it may take it was    *)
(* decided when the handler queued it, many steps before.  MessageInv      *)
(* therefore speaks of the events on their way as a whole: from what the   *)
(* client has they lead, one step of MessageStream after the other         *)
(* (Leads), to a message v.  While a handler streams it knows v (Tells):   *)
(*   - what it takes for started or open is, and no call has been sent;    *)
(*   - the index it would give to a block is the next one of v, but for a  *)
(*     block of text that it opened or, on a repair, forgot (Placed);      *)
(*   - the text of v is what was heard, and of attempts up to the present  *)
(*     one;                                                                *)
(*   - what it held back or recorded is in range too, so that it may still *)
(*     send it (InRange), and with no call it remembers what v has (Echo). *)
(* When it has ended the answer, v is no finished message of Claude Code's *)
(* that announces a tool call without making it (NotFinal).                *)
(***************************************************************************)
EXTENDS Kernel_proofs

-----------------------------------------------------------------------------
(* The answer as a message: the events on their way, one after the other *)

Tries  == 0..Attempts - 1
Whats  == {delta[2] : delta \in Deltas} \cup {"repaired"}
Stops  == {"stop", "length", "tool_use", "error"}
Strict == req.cc \/ ~Framed

\* The text is of attempts up to the n-th.
UpTo(text, n) == \A piece \in text : piece.attempt \in 0..n

\* What a client can have.
Sane(w) ==
  /\ DOMAIN w = WireFields
  /\ w.phase \in {"waiting", "open", "ended"}
  /\ w.blocks \in [Blocks -> SUBSET Nat] /\ w.top \in Nat
  /\ \A kind \in Blocks : \A n \in w.blocks[kind] : n < w.top
  /\ w.stop \in Stops \cup {"none"} /\ (w.phase # "ended" => w.stop = "none")
  /\ UpTo(w.text, Attempts - 1)

\* An index that no block has had, and the last one while it is that of a
\* block of text that is open.
Untaken(w, at)  == at = w.top
Shared(w, at) == at + 1 = w.top /\ at \in w.blocks["text"]
Free(w, at)   == at \in Nat /\ (Untaken(w, at) \/ Shared(w, at))

\* The steps of MessageStream, as events that a client may get.
Follows(w, e) ==
  \/ e.e = "start" /\ w.phase # "ended" /\ w.given = <<>> /\ (Strict => w.starts = 0)
  \/ e.e = "open" /\ Framed /\ w.phase = "open" /\ w.given = <<>> /\ e.kind \in Blocks /\ Free(w, e.at)
  \/ /\ e.e = "grow" /\ w.phase = "open" /\ w.given = <<>> /\ e.kind \in Blocks
     /\ Framed => e.at \in w.blocks[e.kind]
     /\ e.kind = "text" => UpTo(e.text, Attempts - 1)
  \/ e.e = "close" /\ w.phase = "open" /\ w.given = <<>> /\ e.kind \in Blocks /\ e.at \in w.blocks[e.kind]
  \/ /\ e.e = "call" /\ w.phase = "open" /\ e.call \in [from : Tries, what : Whats]
     /\ \A piece \in w.text : e.call.from >= piece.attempt
     /\ Framed => Free(w, e.at) /\ (~Untaken(w, e.at) => e.call.what = "repaired")
  \/ e.e = "end" /\ w.phase # "ended" /\ e.stop \in Stops

\* The events of s, each of which may follow the one before it, lead a client
\* from w to v.
Leads(w, s, v) ==
  \E f : /\ DOMAIN f = 0..Len(s) /\ f[0] = w /\ f[Len(s)] = v
         /\ \A i \in 1..Len(s) : Follows(f[i - 1], s[i]) /\ f[i] = Received(f[i - 1], s[i])

(* No events lead nowhere else. *)
LEMMA Standing ==
  ASSUME NEW u, NEW w
  PROVE  Leads(u, <<>>, w) <=> u = w
<1>1. Len(<<>>) = 0 /\ 1..0 = {} OBVIOUS
<1>2. Leads(u, <<>>, w) => u = w BY <1>1 DEF Leads
<1>3. Leads(u, <<>>, u)
  <2> DEFINE f == [i \in 0..0 |-> u]
  <2>1. DOMAIN f = 0..0 /\ f[0] = u OBVIOUS
  <2> HIDE DEF f
  <2>2. QED BY <1>1, <2>1 DEF Leads
<1>4. QED BY <1>2, <1>3

(* One event. *)
LEMMA OneStep ==
  ASSUME NEW w, NEW e, Follows(w, e)
  PROVE  Leads(w, <<e>>, Received(w, e))
<1> DEFINE f == [i \in 0..1 |-> IF i = 0 THEN w ELSE Received(w, e)]
<1>1. DOMAIN f = 0..1 /\ f[0] = w /\ f[1] = Received(w, e) OBVIOUS
<1>2. Len(<<e>>) = 1 /\ <<e>>[1] = e OBVIOUS
<1> HIDE DEF f
<1>3. \A i \in 1..1 : Follows(f[i - 1], <<e>>[i]) /\ f[i] = Received(f[i - 1], <<e>>[i])
  <2> SUFFICES ASSUME NEW i \in 1..1
               PROVE  Follows(f[i - 1], <<e>>[i]) /\ f[i] = Received(f[i - 1], <<e>>[i])
    OBVIOUS
  <2>1. i = 1 /\ i - 1 = 0 OBVIOUS
  <2>2. QED BY <1>1, <1>2, <2>1
<1>4. QED BY <1>1, <1>2, <1>3 DEF Leads

(* More events. *)
LEMMA Onward ==
  ASSUME NEW s, Listed(s), NEW t, Listed(t), NEW u, NEW w, NEW v, Leads(u, s, w), Leads(w, t, v)
  PROVE  Leads(u, s \o t, v)
<1> DEFINE m == Len(s)
           n == Len(t)
           r == s \o t
<1>1. /\ m \in Nat /\ n \in Nat /\ Len(r) = m + n
      /\ \A i \in 1..m : r[i] = s[i]
      /\ \A i \in 1..n : r[m + i] = t[i]
  BY Concatenation
<1>2. PICK f : /\ DOMAIN f = 0..m /\ f[0] = u /\ f[m] = w
               /\ \A i \in 1..m : Follows(f[i - 1], s[i]) /\ f[i] = Received(f[i - 1], s[i])
  BY DEF Leads
<1>3. PICK g : /\ DOMAIN g = 0..n /\ g[0] = w /\ g[n] = v
               /\ \A i \in 1..n : Follows(g[i - 1], t[i]) /\ g[i] = Received(g[i - 1], t[i])
  BY DEF Leads
<1> HIDE DEF m, n, r
<1> DEFINE h == [i \in 0..(m + n) |-> IF i <= m THEN f[i] ELSE g[i - m]]
<1>4. DOMAIN h = 0..(m + n) /\ h[0] = u BY <1>1, <1>2
<1>5. \A j \in 0..n : h[m + j] = g[j]
  <2> SUFFICES ASSUME NEW j \in 0..n PROVE h[m + j] = g[j] OBVIOUS
  <2>1. m + j \in 0..(m + n) /\ (m + j <= m <=> j = 0) /\ (m + j) - m = j BY <1>1
  <2>2. CASE j = 0 BY <1>1, <1>2, <1>3, <2>1, <2>2
  <2>3. CASE j # 0 BY <2>1, <2>3
  <2>4. QED BY <2>2, <2>3
<1>6. \A j \in 0..m : h[j] = f[j] BY <1>1
<1> HIDE DEF h
<1>7. ASSUME NEW i \in 1..(m + n) PROVE Follows(h[i - 1], r[i]) /\ h[i] = Received(h[i - 1], r[i])
  <2>1. CASE i <= m
    <3>1. i \in 1..m /\ i \in 0..m /\ i - 1 \in 0..m BY <1>1, <2>1
    <3>2. h[i - 1] = f[i - 1] /\ h[i] = f[i] /\ r[i] = s[i] BY <1>1, <1>6, <3>1
    <3>3. QED BY <1>2, <3>1, <3>2
  <2>2. CASE ~(i <= m)
    <3> DEFINE j == i - m
    <3>1. j \in 1..n /\ j \in 0..n /\ j - 1 \in 0..n /\ i = m + j /\ i - 1 = m + (j - 1) BY <1>1, <2>2
    <3> HIDE DEF j
    <3>2. h[i - 1] = g[j - 1] /\ h[i] = g[j] /\ r[i] = t[j] BY <1>1, <1>5, <3>1
    <3>3. QED BY <1>3, <3>1, <3>2
  <2>3. QED BY <2>1, <2>2
<1>8. h[m + n] = v BY <1>1, <1>3, <1>5
<1>9. \E k : /\ DOMAIN k = 0..Len(r) /\ k[0] = u /\ k[Len(r)] = v
             /\ \A i \in 1..Len(r) : Follows(k[i - 1], r[i]) /\ k[i] = Received(k[i - 1], r[i])
  BY <1>1, <1>4, <1>7, <1>8
<1>10. QED BY <1>9 DEF Leads, r

(* The first event, and the rest. *)
LEMMA FirstStep ==
  ASSUME NEW s, Listed(s), s # <<>>, NEW w, NEW v, Leads(w, s, v)
  PROVE  Follows(w, Head(s)) /\ Leads(Received(w, Head(s)), Tail(s), v)
<1> DEFINE n == Len(s)
           t == Tail(s)
<1>1. /\ n \in Nat \ {0} /\ Head(s) = s[1]
      /\ DOMAIN t = 1..(n - 1) /\ Listed(t)
      /\ \A i \in 1..(n - 1) : t[i] = s[i + 1]
  BY Taken
<1>2. Len(t) = n - 1
  <2>1. PICK k \in Nat : t = [i \in 1..k |-> t[i]] BY <1>1 DEF Listed
  <2>2. Len(t) = k BY <2>1
  <2>3. 1..k = 1..(n - 1) BY <1>1, <2>1
  <2>4. k = n - 1 BY <1>1, <2>3
  <2>5. QED BY <2>2, <2>4
<1>3. PICK f : /\ DOMAIN f = 0..n /\ f[0] = w /\ f[n] = v
               /\ \A i \in 1..n : Follows(f[i - 1], s[i]) /\ f[i] = Received(f[i - 1], s[i])
  BY DEF Leads
<1> HIDE DEF n, t
<1>4. 1 \in 1..n /\ 1 - 1 = 0 BY <1>1
<1>5. Follows(w, Head(s)) /\ f[1] = Received(w, Head(s)) BY <1>1, <1>3, <1>4
<1> DEFINE g == [i \in 0..(n - 1) |-> f[i + 1]]
<1>6. DOMAIN g = 0..(n - 1) /\ g[0] = f[1] /\ g[n - 1] = v BY <1>1, <1>3
<1>7. ASSUME NEW i \in 1..(n - 1) PROVE Follows(g[i - 1], t[i]) /\ g[i] = Received(g[i - 1], t[i])
  <2>1. i + 1 \in 1..n /\ (i + 1) - 1 = i /\ i \in 0..(n - 1) /\ i - 1 \in 0..(n - 1) /\ (i - 1) + 1 = i
    BY <1>1
  <2>2. g[i] = f[i + 1] /\ g[i - 1] = f[i] BY <2>1
  <2> HIDE DEF g
  <2>3. QED BY <1>1, <1>3, <2>1, <2>2
<1> HIDE DEF g
<1>8. Leads(f[1], t, v) BY <1>2, <1>6, <1>7 DEF Leads
<1>9. QED BY <1>5, <1>8 DEF t

(* A block opens below the new top, and the blocks that are open stay below it. *)
LEMMA Topping ==
  ASSUME NEW w, Sane(w), NEW at \in Nat
  PROVE  /\ Later(w, at) \in Nat /\ Later(w, at) >= w.top /\ w.top \in Nat
         /\ Framed => at < Later(w, at)
         /\ Framed /\ Free(w, at) => Later(w, at) = at + 1
         /\ \A kind \in Blocks : \A n \in w.blocks[kind] : n \in Nat /\ n < Later(w, at)
<1>1. w.top \in Nat /\ w.blocks \in [Blocks -> SUBSET Nat] /\ \A kind \in Blocks : \A n \in w.blocks[kind] : n < w.top
  BY DEF Sane
<1>2. Later(w, at) = IF Framed /\ at >= w.top THEN at + 1 ELSE w.top BY DEF Later
<1>3. Later(w, at) \in Nat /\ Later(w, at) >= w.top /\ (Framed => at < Later(w, at)) BY <1>1, <1>2
<1>4. Framed /\ Free(w, at) => Later(w, at) = at + 1 BY <1>1, <1>2 DEF Free, Untaken, Shared
<1>5. ASSUME NEW kind \in Blocks, NEW n \in w.blocks[kind] PROVE n \in Nat /\ n < Later(w, at)
  <2>1. n \in Nat /\ n < w.top BY <1>1
  <2>2. QED BY <1>1, <1>3, <2>1
<1>6. QED BY <1>1, <1>3, <1>4, <1>5

(* A client that could have what it has gets nothing it could not. *)
LEMMA Following ==
  ASSUME NEW w, Sane(w), NEW e, Follows(w, e)
  PROVE  Sane(Received(w, e))
<1>1. CASE e.e = "start" BY <1>1 DEF Sane, Follows, Received, WireFields
<1>2. CASE e.e = "open"
  <2> DEFINE blocks == [w.blocks EXCEPT ![e.kind] = @ \cup {e.at}]
             top    == Later(w, e.at)
  <2>1. Received(w, e) = [w EXCEPT !.blocks[e.kind] = @ \cup {e.at}, !.top = top] BY <1>2 DEF Received
  <2>2. e.kind \in Blocks /\ Framed /\ e.at \in Nat BY <1>2 DEF Follows, Free
  <2>3. blocks \in [Blocks -> SUBSET Nat] /\ blocks[e.kind] = w.blocks[e.kind] \cup {e.at} BY <2>2 DEF Sane
  <2>4. \A kind \in Blocks : kind # e.kind => blocks[kind] = w.blocks[kind] BY DEF Sane
  <2>5. top \in Nat /\ e.at < top /\ \A kind \in Blocks : \A n \in w.blocks[kind] : n < top BY <2>2, Topping
  <2> HIDE DEF top
  <2>6. LET u == Received(w, e) IN
        /\ DOMAIN u = WireFields /\ u.phase = w.phase /\ u.stop = w.stop /\ u.text = w.text
        /\ u.blocks = blocks /\ u.top = top
    BY <2>1 DEF Sane, WireFields
  <2> HIDE DEF blocks
  <2>7. \A kind \in Blocks : \A n \in blocks[kind] : n < top BY <2>3, <2>4, <2>5
  <2>8. QED BY <2>3, <2>5, <2>6, <2>7 DEF Sane
<1>3. CASE e.e = "grow" BY <1>3 DEF Sane, Follows, Received, WireFields, UpTo
<1>4. CASE e.e = "close"
  <2> DEFINE blocks == [w.blocks EXCEPT ![e.kind] = @ \ {e.at}]
  <2>1. Received(w, e) = [w EXCEPT !.blocks[e.kind] = @ \ {e.at}] BY <1>4 DEF Received
  <2>2. blocks \in [Blocks -> SUBSET Nat] /\ \A kind \in Blocks : blocks[kind] \subseteq w.blocks[kind] BY DEF Sane
  <2>3. LET u == Received(w, e) IN
        /\ DOMAIN u = WireFields /\ u.phase = w.phase /\ u.stop = w.stop /\ u.text = w.text
        /\ u.blocks = blocks /\ u.top = w.top
    BY <2>1 DEF Sane, WireFields
  <2> HIDE DEF blocks
  <2>4. QED BY <2>2, <2>3 DEF Sane
<1>5. CASE e.e = "call"
  <2> DEFINE top == Later(w, e.at)
  <2>1. Received(w, e) = [w EXCEPT !.given = Append(@, e.call), !.top = top] BY <1>5 DEF Received
  <2>2. top \in Nat /\ \A kind \in Blocks : \A n \in w.blocks[kind] : n < top
    <3>1. CASE Framed
      <4>1. e.at \in Nat BY <1>5, <3>1 DEF Follows, Free
      <4>2. QED BY <4>1, Topping
    <3>2. CASE ~Framed BY <3>2 DEF Later, Sane
    <3>3. QED BY <3>1, <3>2
  <2> HIDE DEF top
  <2>3. LET u == Received(w, e) IN
        /\ DOMAIN u = WireFields /\ u.phase = w.phase /\ u.stop = w.stop /\ u.text = w.text
        /\ u.blocks = w.blocks /\ u.top = top
    BY <2>1 DEF Sane, WireFields
  <2>4. QED BY <2>2, <2>3 DEF Sane
<1>6. CASE e.e = "end" BY <1>6 DEF Sane, Follows, Received, WireFields, Stops
<1>7. QED BY <1>1, <1>2, <1>3, <1>4, <1>5, <1>6 DEF Follows

\* A message that has started and has no call yet.
Ongoing(v) == Sane(v) /\ v.given = <<>> /\ v.phase = "open"

\* The last text block is not counted: it is open, or forgotten in a repair.
Uncounted(g, v) ==
  /\ v.text # {} /\ g.next \in v.blocks["text"]
  /\ g.textOpen => g.textAt = g.next
  /\ ~g.textOpen => g.calls = RepairedCall

\* Where g takes the blocks to be.
Placed(g, v) ==
  /\ g.next \in Nat /\ v.top \in {g.next, g.next + 1}
  /\ v.top = g.next + 1 => Uncounted(g, v)
  /\ g.textOpen => g.textAt \in v.blocks["text"]
  /\ g.thinkOpen => g.thinkAt \in v.blocks["thinking"]

\* What g takes the client to have.
Tells(g, v) ==
  /\ Sane(v) /\ v.given = <<>> /\ v.phase # "ended"
  /\ g.started => v.phase = "open"
  /\ Strict /\ ~g.started => v.starts = 0
  /\ Framed /\ (g.textOpen \/ g.thinkOpen) => v.phase = "open"
  /\ Framed => Placed(g, v)
  /\ UpTo(v.text, g.attempt) /\ v.text = Heard(g)

\* And it will have that when it has taken what is on its way.
Tell(g) == \E v : Leads(wire, g.out, v) /\ Tells(g, v)

\* The texts and calls g keeps are of attempts and deltas there have been.
InRange(g) ==
  /\ g.attempt \in Tries /\ UpTo(g.held \cup g.hold, g.attempt)
  /\ \A k \in DOMAIN g.calls : g.calls[k] \in Whats
  /\ req.cc => ~g.fence
  /\ g.finish \in {"stop", "length"}

\* Without a call g remembers what the client has.
Echo(g) == g.calls = NoCalls => Heard(g) = g.text

\* What starts an OpenAI message is a piece of text.
Voiced(g) == ~Framed /\ g.started => g.text # {}

Good(g) == Typed(g) /\ Tell(g) /\ InRange(g) /\ Echo(g) /\ Voiced(g)

(* A later attempt may be the one that a text is of. *)
LEMMA Upwards ==
  /\ \A text, m, n : m \in Int /\ n \in Int /\ m <= n /\ UpTo(text, m) => UpTo(text, n)
  /\ \A n : UpTo({}, n)
  /\ \A s, t, n : UpTo(s \cup t, n) <=> UpTo(s, n) /\ UpTo(t, n)
  /\ \A s, t, n : s \subseteq t /\ UpTo(t, n) => UpTo(s, n)
BY DEF UpTo

(* The attempts are numbered with integers. *)
LEMMA Trying ==
  ASSUME KernelAssumption, NEW n \in Tries
  PROVE  /\ n \in Int /\ n <= Attempts - 1 /\ Attempts \in Nat /\ n \in 0..n
         /\ \A text : UpTo(text, n) => UpTo(text, Attempts - 1)
<1>1. Attempts \in Nat \ {0} /\ n \in 0..Attempts - 1 BY DEF KernelAssumption, Tries
<1>2. n \in Int /\ n <= Attempts - 1 /\ Attempts - 1 \in Int /\ n \in 0..n BY <1>1
<1>3. QED BY <1>1, <1>2, Upwards

(* message_start, unless it was. *)
LEMMA Beginning ==
  ASSUME NEW g, NEW v, Sane(v), v.given = <<>>, v.phase # "ended",
         g.started => v.phase = "open", Strict /\ ~g.started => v.starts = 0
  PROVE  \E u : Leads(v, Starting(g), u) /\ Ongoing(u) /\ u.blocks = v.blocks /\ u.top = v.top /\ u.text = v.text
<1>1. CASE g.started
  <2>1. Starting(g) = <<>> BY <1>1 DEF Starting
  <2>2. QED BY <1>1, <2>1, Standing DEF Ongoing
<1>2. CASE ~g.started
  <2> DEFINE u == Received(v, Started)
  <2>1. Starting(g) = <<Started>> BY <1>2 DEF Starting
  <2>2. Started.e = "start" BY DEF Started
  <2>3. Follows(v, Started) BY <1>2, <2>2 DEF Follows
  <2>4. u = [v EXCEPT !.phase = "open", !.starts = @ + 1] BY <2>2 DEF Received
  <2>5. Sane(u) BY <2>3, Following
  <2>6. u.given = <<>> /\ u.phase = "open" /\ u.blocks = v.blocks /\ u.top = v.top /\ u.text = v.text
    BY <2>4 DEF Sane, WireFields
  <2>7. Leads(v, Starting(g), u) BY <2>1, <2>3, OneStep
  <2>8. QED BY <2>5, <2>6, <2>7 DEF Ongoing
<1>3. QED BY <1>1, <1>2

\* A delta of a block may go to an index: the block is open, or may open there.
Fits(open, kind, at, v) == Framed => IF open THEN at \in v.blocks[kind] ELSE Free(v, at)

\* The block is open, others too, and it was counted if it was opened.
Unfolded(open, kind, at, v, u) ==
  /\ Framed => at \in u.blocks[kind]
  /\ \A k \in Blocks : v.blocks[k] \subseteq u.blocks[k]
  /\ u.top = IF open \/ ~Framed THEN v.top ELSE at + 1

(* content_block_start, unless it was. *)
LEMMA Unfolding ==
  ASSUME NEW open, NEW kind \in Blocks, NEW at, NEW v, Ongoing(v), Fits(open, kind, at, v)
  PROVE  \E u : /\ Leads(v, Opening(open, kind, at), u) /\ Ongoing(u) /\ u.text = v.text
                /\ Unfolded(open, kind, at, v, u)
<1>1. CASE open \/ ~Framed
  <2>1. Opening(open, kind, at) = <<>> BY <1>1 DEF Opening
  <2>2. Unfolded(open, kind, at, v, v) BY <1>1 DEF Unfolded, Fits
  <2>3. QED BY <2>1, <2>2, Standing
<1>2. CASE ~open /\ Framed
  <2> DEFINE e == Opened(kind, at)
             u == Received(v, e)
  <2>1. Opening(open, kind, at) = <<e>> BY <1>2 DEF Opening
  <2>2. e.e = "open" /\ e.kind = kind /\ e.at = at BY DEF Opened
  <2> HIDE DEF e
  <2>3. Free(v, at) /\ at \in Nat BY <1>2 DEF Fits, Free
  <2>4. Follows(v, e) BY <1>2, <2>2, <2>3 DEF Follows, Ongoing
  <2>5. u = [v EXCEPT !.blocks[kind] = @ \cup {at}, !.top = Later(v, at)] BY <2>2 DEF Received
  <2>6. Sane(u) BY <2>4, Following DEF Ongoing
  <2>7. u.given = <<>> /\ u.phase = "open" /\ u.blocks = [v.blocks EXCEPT ![kind] = @ \cup {at}]
        /\ u.text = v.text /\ u.top = Later(v, at)
    BY <2>5 DEF Ongoing, Sane, WireFields
  <2>8. \A k \in Blocks : v.blocks[k] \subseteq u.blocks[k]
    <3> SUFFICES ASSUME NEW k \in Blocks PROVE v.blocks[k] \subseteq u.blocks[k] OBVIOUS
    <3> HIDE DEF u
    <3>1. QED BY <2>7 DEF Ongoing, Sane
  <2>9. at \in u.blocks[kind]
    <3> HIDE DEF u
    <3>1. QED BY <2>7 DEF Ongoing, Sane
  <2>10. Later(v, at) = at + 1 BY <1>2, <2>3, Topping DEF Ongoing
  <2>11. Leads(v, Opening(open, kind, at), u) BY <2>1, <2>4, OneStep
  <2> HIDE DEF u
  <2>12. Unfolded(open, kind, at, v, u) BY <1>2, <2>7, <2>8, <2>9, <2>10 DEF Unfolded
  <2>13. QED BY <2>6, <2>7, <2>11, <2>12 DEF Ongoing
<1>3. QED BY <1>1, <1>2

(* A delta. *)
LEMMA Uttering ==
  ASSUME NEW kind \in Blocks, NEW t, NEW at, NEW v, Ongoing(v), Framed => at \in v.blocks[kind],
         kind = "text" => UpTo(t, Attempts - 1)
  PROVE  \E u : /\ Leads(v, <<Grown(kind, t, at)>>, u) /\ Ongoing(u) /\ u.blocks = v.blocks /\ u.top = v.top
                /\ u.text = IF kind = "text" THEN v.text \cup t ELSE v.text
<1> DEFINE e == Grown(kind, t, at)
           u == Received(v, e)
<1>1. e.e = "grow" /\ e.kind = kind /\ e.text = t /\ e.at = at BY DEF Grown
<1> HIDE DEF e
<1>2. Follows(v, e) BY <1>1 DEF Follows, Ongoing
<1>3. u = IF kind = "text" THEN [v EXCEPT !.text = @ \cup t] ELSE [v EXCEPT !.thought = TRUE]
  BY <1>1 DEF Received
<1>4. Sane(u) BY <1>2, Following DEF Ongoing
<1>5. u.given = <<>> /\ u.phase = "open" /\ u.blocks = v.blocks /\ u.top = v.top
      /\ u.text = IF kind = "text" THEN v.text \cup t ELSE v.text
  BY <1>3 DEF Ongoing, Sane, WireFields
<1>6. Leads(v, <<e>>, u) BY <1>2, OneStep
<1>7. QED BY <1>4, <1>5, <1>6 DEF Ongoing, e

\* After the events r the client has t of a block, and what it has anyway.
Adds(g, kind, open, at, t, r) ==
  \E v, u : /\ Tells(g, v) /\ Leads(wire, r, u) /\ Ongoing(u)
            /\ Unfolded(open, kind, at, v, u)
            /\ u.text = IF kind = "text" THEN v.text \cup t ELSE v.text

(* Where text goes and reasoning, a delta may go. *)
LEMMA Fitting ==
  ASSUME NEW g, NEW v, Sane(v), Framed => Placed(g, v)
  PROVE  Fits(g.textOpen, "text", TextAt(g), v) /\ Fits(g.thinkOpen, "thinking", ThinkAt(g), v)
<1>1. CASE ~Framed BY <1>1 DEF Fits
<1>2. CASE Framed
  <2>1. Free(v, g.next)
    <3>1. g.next \in Nat /\ (v.top = g.next \/ (v.top = g.next + 1 /\ g.next \in v.blocks["text"]))
      BY <1>2 DEF Placed, Uncounted
    <3>2. QED BY <3>1 DEF Free, Untaken, Shared
  <2>2. Fits(g.textOpen, "text", TextAt(g), v) BY <1>2, <2>1 DEF Fits, TextAt, Placed
  <2>3. Fits(g.thinkOpen, "thinking", ThinkAt(g), v) BY <1>2, <2>1 DEF Fits, ThinkAt, Placed
  <2>4. QED BY <2>2, <2>3
<1>3. QED BY <1>1, <1>2

(* What has to come before a delta, and the delta. *)
LEMMA Speaking ==
  ASSUME NEW g, Typed(g), Tell(g), NEW kind \in Blocks, NEW open, NEW at,
         kind = "text" => open = g.textOpen /\ at = TextAt(g),
         kind = "thinking" => open = g.thinkOpen /\ at = ThinkAt(g),
         NEW t, kind = "text" => UpTo(t, Attempts - 1)
  PROVE  Adds(g, kind, open, at, t,
              ((g.out \o Starting(g)) \o Opening(open, kind, at)) \o <<Grown(kind, t, at)>>)
<1>1. PICK v : Leads(wire, g.out, v) /\ Tells(g, v) BY DEF Tell
<1>2. PICK a : Leads(v, Starting(g), a) /\ Ongoing(a) /\ a.blocks = v.blocks /\ a.top = v.top /\ a.text = v.text
  BY <1>1, Beginning DEF Tells
<1>3. Fits(open, kind, at, a)
  <2>1. Fits(g.textOpen, "text", TextAt(g), v) /\ Fits(g.thinkOpen, "thinking", ThinkAt(g), v)
    BY <1>1, Fitting DEF Tells
  <2>2. kind = "text" \/ kind = "thinking" BY DEF Blocks
  <2>3. Fits(open, kind, at, v) BY <2>1, <2>2
  <2>4. QED BY <1>2, <2>3 DEF Fits, Free, Untaken, Shared
<1>4. PICK b : /\ Leads(a, Opening(open, kind, at), b) /\ Ongoing(b) /\ b.text = a.text
               /\ Unfolded(open, kind, at, a, b)
  BY <1>2, <1>3, Unfolding
<1>5. PICK u : /\ Leads(b, <<Grown(kind, t, at)>>, u) /\ Ongoing(u) /\ u.blocks = b.blocks /\ u.top = b.top
               /\ u.text = IF kind = "text" THEN b.text \cup t ELSE b.text
  <2>1. Framed => at \in b.blocks[kind] BY <1>4 DEF Unfolded
  <2>2. Ongoing(b) BY <1>4
  <2>3. QED BY <2>1, <2>2, Uttering
<1>6. /\ Listed(g.out) /\ Listed(Starting(g)) /\ Listed(Opening(open, kind, at)) /\ Listed(<<Grown(kind, t, at)>>)
      /\ Listed(g.out \o Starting(g)) /\ Listed((g.out \o Starting(g)) \o Opening(open, kind, at))
  <2>1. /\ Listed(g.out) /\ Listed(Starting(g)) /\ Listed(Opening(open, kind, at)) /\ Listed(<<Grown(kind, t, at)>>)
    BY Short, Quieten DEF Typed, Quiet
  <2>2. Listed(g.out \o Starting(g)) BY <2>1, Concatenation
  <2>3. QED BY <2>1, <2>2, Concatenation
<1>7. Leads(wire, g.out \o Starting(g), a) BY <1>1, <1>2, <1>6, Onward
<1>8. Leads(wire, (g.out \o Starting(g)) \o Opening(open, kind, at), b) BY <1>4, <1>6, <1>7, Onward
<1>9. Leads(wire, ((g.out \o Starting(g)) \o Opening(open, kind, at)) \o <<Grown(kind, t, at)>>, u)
  BY <1>5, <1>6, <1>8, Onward
<1>10. Unfolded(open, kind, at, v, u) BY <1>2, <1>4, <1>5 DEF Unfolded
<1>11. u.text = IF kind = "text" THEN v.text \cup t ELSE v.text BY <1>2, <1>4, <1>5
<1>12. QED BY <1>1, <1>5, <1>9, <1>10, <1>11 DEF Adds

\* A block of text that is not counted is one for h too, if there was text.
KeepsCount(g, h) ==
  \/ Heard(g) = {}
  \/ h.calls = RepairedCall
  \/ (g.textOpen => h.textOpen) /\ (g.textOpen \/ h.calls = g.calls)

\* h has the blocks where g has them.
SamePlaces(g, h) ==
  /\ h.next = g.next /\ KeepsCount(g, h)
  /\ h.textOpen => g.textOpen /\ h.textAt = g.textAt
  /\ h.thinkOpen => g.thinkOpen /\ h.thinkAt = g.thinkAt

\* h says what g says, and takes no more for said.
Quieter(g, h) ==
  /\ DOMAIN h = Fields /\ h.out = g.out
  /\ (h.started => g.started) /\ (Strict /\ g.started => h.started)
  /\ Framed => SamePlaces(g, h)
  /\ g.attempt \in Int /\ h.attempt \in Int /\ g.attempt <= h.attempt

(* Then the client will have what h takes it to have. *)
LEMMA QuieterTells ==
  ASSUME NEW g, Tell(g), NEW h, Quieter(g, h)
  PROVE  Tell(h) /\ Heard(h) = Heard(g)
<1>1. PICK v : Leads(wire, g.out, v) /\ Tells(g, v) BY DEF Tell
<1>2. Heard(h) = Heard(g) BY DEF Quieter, Heard
<1>3. UpTo(v.text, h.attempt) BY <1>1, Upwards DEF Tells, Quieter
<1>4. ASSUME Framed PROVE Placed(h, v) /\ (h.textOpen \/ h.thinkOpen => v.phase = "open")
  <2>1. Placed(g, v) /\ (g.textOpen \/ g.thinkOpen => v.phase = "open") /\ v.text = Heard(g)
    BY <1>1, <1>4 DEF Tells
  <2>2. SamePlaces(g, h) BY <1>4 DEF Quieter
  <2>3. Uncounted(g, v) => Uncounted(h, v) BY <2>1, <2>2 DEF Uncounted, SamePlaces, KeepsCount
  <2>4. Placed(h, v) BY <2>1, <2>2, <2>3 DEF Placed, SamePlaces
  <2>5. QED BY <2>1, <2>2, <2>4 DEF SamePlaces
<1>5. Tells(h, v) BY <1>1, <1>2, <1>3, <1>4 DEF Tells, Quieter
<1>6. QED BY <1>1, <1>2, <1>5 DEF Tell, Quieter

\* h differs from g in nothing that can be heard or is counted.
Same(g, h) ==
  /\ DOMAIN h = Fields /\ h.out = g.out /\ h.attempt = g.attempt /\ h.chunks = g.chunks /\ h.calls = g.calls
  /\ h.started = g.started /\ h.textOpen = g.textOpen /\ h.thinkOpen = g.thinkOpen /\ h.text = g.text
  /\ h.textAt = g.textAt /\ h.thinkAt = g.thinkAt /\ h.next = g.next

(* Then it is as good, if what it keeps is in range. *)
LEMMA SameIsGood ==
  ASSUME KernelAssumption, NEW g, Good(g), NEW h, Same(g, h), InRange(h)
  PROVE  Good(h)
<1>1. g.attempt \in Int BY Trying DEF Good, InRange
<1>2. Quieter(g, h) BY <1>1 DEF Same, Quieter, SamePlaces, KeepsCount
<1>3. Tell(h) /\ Heard(h) = Heard(g) BY <1>2, QuieterTells DEF Good
<1>4. Typed(h) BY DEF Good, Typed, Same
<1>5. Echo(h) /\ Voiced(h) BY <1>3 DEF Good, Echo, Voiced, Same
<1>6. QED BY <1>3, <1>4, <1>5 DEF Good

\* What h keeps is what g keeps.
Keeping(g, h) ==
  /\ h.attempt = g.attempt /\ h.chunks = g.chunks /\ h.calls = g.calls
  /\ h.held = g.held /\ h.hold = g.hold /\ h.fence = g.fence /\ h.finish = g.finish /\ h.fault = g.fault

(* What was said of text in its block leaves the blocks where the generator takes them to be. *)
LEMMA TextPlaced ==
  ASSUME Framed, NEW g, NEW v, Sane(v), Placed(g, v), NEW u, u.text # {},
         Unfolded(g.textOpen, "text", TextAt(g), v, u),
         NEW h, h.next = g.next, h.textOpen = TRUE, h.textAt = TextAt(g),
         h.thinkOpen = g.thinkOpen, h.thinkAt = g.thinkAt
  PROVE  Placed(h, u)
<1>1. "text" \in Blocks /\ "thinking" \in Blocks BY DEF Blocks
<1>2. h.textAt \in u.blocks["text"] BY DEF Unfolded
<1>3. h.thinkOpen => h.thinkAt \in u.blocks["thinking"] BY <1>1 DEF Unfolded, Placed
<1>4. CASE g.textOpen
  <2>1. u.top = v.top /\ TextAt(g) = g.textAt BY <1>4 DEF Unfolded, TextAt
  <2>2. v.top = g.next + 1 => Uncounted(h, u) BY <1>1, <1>4, <2>1 DEF Placed, Uncounted, Unfolded
  <2>3. QED BY <1>2, <1>3, <2>1, <2>2 DEF Placed
<1>5. CASE ~g.textOpen
  <2>1. u.top = g.next + 1 /\ TextAt(g) = g.next BY <1>5 DEF Unfolded, TextAt
  <2>2. Uncounted(h, u) BY <1>2, <2>1 DEF Uncounted
  <2>3. QED BY <1>2, <1>3, <2>1, <2>2 DEF Placed
<1>6. QED BY <1>4, <1>5

(* So does reasoning, whose block is counted at once. *)
LEMMA ThoughtPlaced ==
  ASSUME Framed, NEW g, NEW v, Sane(v), Placed(g, v), NEW u, u.text = v.text,
         Unfolded(g.thinkOpen, "thinking", ThinkAt(g), v, u),
         NEW h, h.next = IF g.thinkOpen THEN g.next ELSE g.next + 1, h.calls = g.calls,
         h.thinkOpen = TRUE, h.thinkAt = ThinkAt(g), h.textOpen = g.textOpen, h.textAt = g.textAt
  PROVE  Placed(h, u)
<1>1. "text" \in Blocks /\ "thinking" \in Blocks BY DEF Blocks
<1>2. h.thinkAt \in u.blocks["thinking"] BY DEF Unfolded
<1>3. h.textOpen => h.textAt \in u.blocks["text"] BY <1>1 DEF Unfolded, Placed
<1>4. CASE g.thinkOpen
  <2>1. u.top = v.top BY <1>4 DEF Unfolded
  <2>2. v.top = g.next + 1 => Uncounted(h, u) BY <1>1, <1>4, <2>1 DEF Placed, Uncounted, Unfolded
  <2>3. QED BY <1>2, <1>3, <1>4, <2>1, <2>2 DEF Placed
<1>5. CASE ~g.thinkOpen
  <2>1. u.top = g.next + 1 BY <1>5 DEF Unfolded, ThinkAt
  <2>2. h.next \in Nat /\ u.top = h.next /\ u.top # h.next + 1 BY <1>5, <2>1 DEF Placed
  <2>3. QED BY <1>2, <1>3, <2>2 DEF Placed
<1>6. QED BY <1>4, <1>5

(* Say tells the client what it has to. *)
LEMMA SayingGood ==
  ASSUME KernelAssumption, NEW g, Good(g), NEW said, UpTo(said, g.attempt)
  PROVE  LET h == Say(g, said) IN Good(h) /\ Keeping(g, h) /\ h.text = g.text \cup said /\ Heard(h) = Heard(g) \cup said
<1> DEFINE h == Say(g, said)
<1>1. Typed(h) /\ Heard(h) = Heard(g) \cup said /\ h.text = g.text \cup said BY Saying DEF Good
<1>2. CASE said = {}
  <2>1. h = g BY <1>2 DEF Say
  <2>2. QED BY <1>1, <2>1 DEF Keeping
<1>3. CASE said # {}
  <2> DEFINE at == TextAt(g)
             r  == ((g.out \o Starting(g)) \o Opening(g.textOpen, "text", at)) \o <<Grown("text", said, at)>>
  <2>1. h = [g EXCEPT !.started = TRUE, !.textOpen = Framed, !.textAt = at, !.text = @ \cup said, !.out = r]
    BY <1>3 DEF Say
  <2> HIDE DEF at
  <2>2. /\ h.started = TRUE /\ h.textOpen = Framed /\ h.thinkOpen = g.thinkOpen /\ h.out = r
        /\ h.textAt = at /\ h.thinkAt = g.thinkAt /\ h.next = g.next
        /\ Keeping(g, h)
    BY <2>1 DEF Good, Typed, Fields, Keeping
  <2> HIDE DEF h
  <2>3. g.attempt \in Tries /\ UpTo(said, Attempts - 1) BY Trying DEF Good, InRange
  <2>4. "text" \in Blocks BY DEF Blocks
  <2>5. PICK v, u : /\ Tells(g, v) /\ Leads(wire, r, u) /\ Ongoing(u)
                    /\ Unfolded(g.textOpen, "text", at, v, u)
                    /\ u.text = v.text \cup said
    <3>1. \A kind \in Blocks : kind = "text" =>
            Adds(g, kind, g.textOpen, at, said,
                 ((g.out \o Starting(g)) \o Opening(g.textOpen, kind, at)) \o <<Grown(kind, said, at)>>)
      BY <2>3, Speaking DEF Good, at
    <3>2. Adds(g, "text", g.textOpen, at, said, r) BY <2>3, <2>4, <3>1
    <3>3. QED BY <3>2 DEF Adds
  <2>6. Framed => Placed(h, u)
    <3>1. u.text # {} BY <1>3, <2>5
    <3>2. QED BY <2>2, <2>5, <3>1, TextPlaced DEF Tells, at
  <2>7. UpTo(u.text, h.attempt) BY <2>2, <2>5, Upwards DEF Tells, Keeping
  <2>8. u.text = Heard(h) BY <1>1, <2>5 DEF Tells
  <2>9. Tells(h, u) BY <2>2, <2>5, <2>6, <2>7, <2>8 DEF Tells, Ongoing
  <2>10. Tell(h) BY <2>2, <2>5, <2>9 DEF Tell
  <2>11. InRange(h) BY <2>2 DEF Good, InRange, Keeping
  <2>12. Echo(h) /\ Voiced(h) BY <1>1, <1>3, <2>2 DEF Good, Echo, Voiced, Keeping
  <2>13. QED BY <1>1, <2>2, <2>10, <2>11, <2>12 DEF Good, h
<1>4. QED BY <1>2, <1>3

(* So does Think. *)
LEMMA ThinkingGood ==
  ASSUME KernelAssumption, Framed, NEW g, Good(g), NEW thought
  PROVE  LET h == Think(g, thought) IN Good(h) /\ Keeping(g, h) /\ h.text = g.text
<1> DEFINE h == Think(g, thought)
<1>1. Typed(h) /\ Heard(h) = Heard(g) /\ h.text = g.text BY Thinking DEF Good
<1>2. CASE thought = {}
  <2>1. h = g BY <1>2 DEF Think
  <2>2. QED BY <1>1, <2>1 DEF Keeping
<1>3. CASE thought # {}
  <2> DEFINE at   == ThinkAt(g)
             next == IF g.thinkOpen THEN g.next ELSE g.next + 1
             r    == ((g.out \o Starting(g)) \o Opening(g.thinkOpen, "thinking", at)) \o <<Grown("thinking", thought, at)>>
  <2>1. h = [g EXCEPT !.started = TRUE, !.thinkOpen = TRUE, !.thinkAt = at, !.reasoning = @ \cup thought,
                      !.next = next, !.out = r]
    BY <1>3 DEF Think
  <2> HIDE DEF at, next
  <2>2. /\ h.started = TRUE /\ h.thinkOpen = TRUE /\ h.textOpen = g.textOpen /\ h.out = r
        /\ h.textAt = g.textAt /\ h.thinkAt = at /\ h.next = next
        /\ Keeping(g, h)
    BY <2>1 DEF Good, Typed, Fields, Keeping
  <2> HIDE DEF h
  <2>3. "thinking" \in Blocks /\ "thinking" # "text" BY DEF Blocks
  <2>4. PICK v, u : /\ Tells(g, v) /\ Leads(wire, r, u) /\ Ongoing(u)
                    /\ Unfolded(g.thinkOpen, "thinking", at, v, u)
                    /\ u.text = v.text
    <3>1. \A kind \in Blocks : kind = "thinking" =>
            Adds(g, kind, g.thinkOpen, at, thought,
                 ((g.out \o Starting(g)) \o Opening(g.thinkOpen, kind, at)) \o <<Grown(kind, thought, at)>>)
      BY <2>3, Speaking DEF Good, at
    <3>2. Adds(g, "thinking", g.thinkOpen, at, thought, r) BY <2>3, <3>1
    <3>3. QED BY <3>2 DEF Adds
  <2>5. Placed(h, u) BY <2>2, <2>4, ThoughtPlaced DEF Tells, at, next, Keeping
  <2>6. UpTo(u.text, h.attempt) BY <2>2, <2>4 DEF Tells, Keeping
  <2>7. u.text = Heard(h) BY <1>1, <2>4 DEF Tells
  <2>8. Tells(h, u) BY <2>2, <2>4, <2>5, <2>6, <2>7 DEF Tells, Ongoing
  <2>9. Tell(h) BY <2>2, <2>4, <2>8 DEF Tell
  <2>10. InRange(h) BY <2>2 DEF Good, InRange, Keeping
  <2>11. Echo(h) /\ Voiced(h) BY <1>1, <2>2 DEF Good, Echo, Voiced, Keeping
  <2>12. QED BY <1>1, <2>2, <2>9, <2>10, <2>11 DEF Good, h
<1>4. QED BY <1>2, <1>3

(* push_visible_chunk *)
LEMMA PushingGood ==
  ASSUME KernelAssumption, NEW g, Good(g), NEW piece, UpTo(piece, g.attempt)
  PROVE  LET h == Pushed(g, piece) IN Good(h) /\ h.attempt = g.attempt /\ h.chunks = g.chunks
<1> DEFINE holds == [g EXCEPT !.held = @ \cup piece]
           said  == Say(g, g.held \cup piece)
           says  == [said EXCEPT !.held = {}]
<1>1. Pushed(g, piece) \in {g, holds, says} BY DEF Pushed
<1>2. Typed(g) /\ InRange(g) /\ UpTo(g.held, g.attempt) /\ UpTo(g.hold, g.attempt) BY Upwards DEF Good, InRange
<1>3. Good(holds) /\ holds.attempt = g.attempt /\ holds.chunks = g.chunks
  <2>1. Same(g, holds) /\ holds.held = g.held \cup piece /\ holds.hold = g.hold /\ holds.fence = g.fence
        /\ holds.finish = g.finish
    BY <1>2 DEF Same, Typed, Fields
  <2> HIDE DEF holds
  <2>2. UpTo(holds.held \cup holds.hold, holds.attempt)
    <3>1. UpTo((g.held \cup piece) \cup g.hold, g.attempt) BY <1>2 DEF UpTo
    <3>2. QED BY <2>1, <3>1 DEF Same
  <2>3. InRange(holds) BY <1>2, <2>1, <2>2 DEF InRange, Same
  <2>4. QED BY <2>1, <2>3, SameIsGood DEF Same
<1>4. Good(says) /\ says.attempt = g.attempt /\ says.chunks = g.chunks
  <2>1. UpTo(g.held \cup piece, g.attempt) BY <1>2, Upwards
  <2>2. Good(said) /\ Keeping(g, said) BY <2>1, SayingGood
  <2> HIDE DEF said
  <2>3. Same(said, says) /\ says.held = {} /\ says.hold = said.hold /\ says.fence = said.fence
        /\ says.finish = said.finish
    BY <2>2 DEF Same, Good, Typed, Fields
  <2> HIDE DEF says
  <2>4. UpTo(says.held \cup says.hold, says.attempt) BY <1>2, <2>2, <2>3, Upwards DEF Same, Keeping
  <2>5. InRange(says) BY <2>2, <2>3, <2>4 DEF InRange, Same, Good
  <2>6. QED BY <2>2, <2>3, <2>5, SameIsGood DEF Same, Keeping
<1>5. QED BY <1>1, <1>3, <1>4

-----------------------------------------------------------------------------
(* The second invariant *)

\* Claude Code does not take an announcement for an answer.
NotFinal(v) == req.cc /\ OffersTools /\ Unfinished(v.text) /\ v.given = <<>> => v.stop # "stop"

\* The events on their way follow what the client has, to an end or not.
Leadable(g) == \E v : Leads(wire, g.out, v) /\ NotFinal(v)

Numbered(g) == g.attempt \in Tries /\ g.chunks \in 0..MaxChunks

PrepFields == {"ms", "tools", "forced", "before", "compacted", "reduced", "exact", "risky", "mode"}

Prepared ==
  /\ DOMAIN prep = PrepFields
  /\ prep.tools \in {"none", "valid", "invalid"}
  /\ prep.mode \in {"none", "anthropic", "openai", "collected"}

MessageInv ==
  /\ Sane(wire) /\ Numbered(gen) /\ Leadable(gen) /\ Prepared
  /\ stage \in Working /\ prep.mode # "collected" => Good(gen)
  /\ stage \in Working /\ prep.mode = "collected" =>
       wire = FreshWire /\ ~gen.textOpen /\ (C!Buffered => ~OffersTools)

(* As long as the client takes nothing, what is said of the next generator may
   be said of it now. *)
LEMMA Carrying ==
  ASSUME req' = req, prep' = prep, wire' = wire
  PROVE  /\ Good(gen)' <=> Good(gen')
         /\ Leadable(gen)' <=> Leadable(gen')
         /\ Numbered(gen)' <=> Numbered(gen')
         /\ Sane(wire)' <=> Sane(wire)
         /\ Prepared' <=> Prepared
         /\ C!Buffered' <=> C!Buffered
         /\ OffersTools' <=> OffersTools
<1>1. (Framed' <=> Framed) /\ (Strict' <=> Strict) BY DEF Framed, Strict
<1>2. \A w, e : Follows(w, e)' <=> Follows(w, e)
  <2> TAKE w, e
  <2>1. Whats' = Whats /\ Tries' = Tries BY DEF Whats, Tries
  <2>2. QED BY <1>1, <2>1 DEF Follows, UpTo, Stops, Blocks, Free, Untaken, Shared
<1>3. \A w, e : Received(w, e)' = Received(w, e)
  <2> TAKE w, e
  <2>1. \A at : Later(w, at)' = Later(w, at) BY <1>1 DEF Later
  <2>2. QED BY <2>1 DEF Received
<1>4. \A v : Leads(wire, gen.out, v)' <=> Leads(wire, gen'.out, v) BY <1>2, <1>3 DEF Leads
<1>5. \A v : Sane(v)' <=> Sane(v) BY DEF Sane, UpTo
<1>6. Heard(gen)' = Heard(gen') BY DEF Heard
<1>7. \A v : Tells(gen, v)' <=> Tells(gen', v)
  <2> TAKE v
  <2>1. Placed(gen, v)' <=> Placed(gen', v) BY DEF Placed, Uncounted, RepairedCall, Merged, NoCalls
  <2>2. QED BY <1>1, <1>5, <1>6, <2>1 DEF Tells, UpTo
<1>8. Tell(gen)' <=> Tell(gen') BY <1>4, <1>7 DEF Tell
<1>9. InRange(gen)' <=> InRange(gen') BY DEF InRange, UpTo, Whats, Tries
<1>10. Echo(gen)' <=> Echo(gen') BY <1>6 DEF Echo, NoCalls
<1>11. (Typed(gen)' <=> Typed(gen')) /\ (Voiced(gen)' <=> Voiced(gen')) BY <1>1 DEF Typed, Voiced
<1>12. Good(gen)' <=> Good(gen') BY <1>8, <1>9, <1>10, <1>11 DEF Good
<1>13. OffersTools' <=> OffersTools BY DEF OffersTools
<1>14. \A v : NotFinal(v)' <=> NotFinal(v) BY <1>13 DEF NotFinal, Unfinished, Has
<1>15. Leadable(gen)' <=> Leadable(gen') BY <1>4, <1>14 DEF Leadable
<1>16. Numbered(gen)' <=> Numbered(gen') BY DEF Numbered, Tries
<1>17. Sane(wire)' <=> Sane(wire) BY DEF Sane, UpTo
<1>18. Prepared' <=> Prepared BY DEF Prepared, PrepFields
<1>19. C!Buffered' <=> C!Buffered BY DEF C!Buffered
<1>20. QED BY <1>12, <1>13, <1>15, <1>16, <1>17, <1>18, <1>19

(* What is good leads somewhere. *)
LEMMA GoodLeads ==
  ASSUME NEW g, Tell(g)
  PROVE  Leadable(g)
<1>1. PICK v : Leads(wire, g.out, v) /\ Tells(g, v) BY DEF Tell
<1>2. v.stop = "none" BY <1>1 DEF Tells, Sane
<1>3. QED BY <1>1, <1>2 DEF Leadable, NotFinal

\* A step of a streaming handler that does not end the answer.
LEMMA Continuing ==
  ASSUME MessageInv, prep.mode # "collected", UNCHANGED <<req, prep, wire>>, Good(gen'), Numbered(gen')
  PROVE  MessageInv'
<1>1. Leadable(gen') BY GoodLeads DEF Good
<1>2. prep.mode' # "collected" OBVIOUS
<1>3. QED BY <1>1, <1>2, Carrying DEF MessageInv

\* A step that ends it.
LEMMA Departing ==
  ASSUME MessageInv, UNCHANGED <<req, prep, wire>>, stage' = "done", Leadable(gen'), Numbered(gen')
  PROVE  MessageInv'
<1>1. stage' \notin Working BY DEF Working
<1>2. QED BY <1>1, Carrying DEF MessageInv

(* The end can always come. *)
LEMMA Parting ==
  ASSUME NEW s, Listed(s), NEW w, NEW v, Leads(w, s, v), Sane(v), v.phase # "ended", NEW last \in Stops
  PROVE  \E u : /\ Leads(w, s \o <<Ended(last)>>, u) /\ Sane(u)
                /\ u.text = v.text /\ u.given = v.given /\ u.stop = last
<1> DEFINE e == Ended(last)
           u == Received(v, e)
<1>1. e.e = "end" /\ e.stop = last BY DEF Ended
<1> HIDE DEF e
<1>2. Follows(v, e) BY <1>1 DEF Follows
<1>3. u = [v EXCEPT !.phase = "ended", !.stop = last] BY <1>1 DEF Received
<1>4. Sane(u) BY <1>2, Following
<1>5. u.text = v.text /\ u.given = v.given /\ u.stop = last BY <1>3 DEF Sane, WireFields
<1>6. Leads(v, <<e>>, u) BY <1>2, OneStep
<1>7. Leads(w, s \o <<e>>, u) BY <1>6, Short, Onward
<1>8. QED BY <1>4, <1>5, <1>7 DEF e

\* A step that ends it with an error.
LEMMA Aborting ==
  ASSUME MessageInv, NEW g, Typed(g), Tell(g), Numbered(g),
         UNCHANGED <<req, prep, wire>>, stage' = "done",
         gen' = [g EXCEPT !.out = @ \o <<Ended("error")>>]
  PROVE  MessageInv'
<1>1. PICK v : Leads(wire, g.out, v) /\ Tells(g, v) BY DEF Tell
<1>2. "error" \in Stops BY DEF Stops
<1>3. PICK u : Leads(wire, g.out \o <<Ended("error")>>, u) /\ u.stop = "error"
  BY <1>1, <1>2, Parting DEF Tells, Typed
<1>4. /\ gen'.out = g.out \o <<Ended("error")>> /\ gen'.attempt = g.attempt /\ gen'.chunks = g.chunks
  BY DEF Typed, Fields
<1>5. Leadable(gen') BY <1>3, <1>4 DEF Leadable, NotFinal
<1>6. Numbered(gen') BY <1>4 DEF Numbered
<1>7. QED BY <1>5, <1>6, Departing

-----------------------------------------------------------------------------
(* The end of an answer *)

(* A list grows at its end. *)
LEMMA Growth ==
  ASSUME NEW F, NEW i \in Nat
  PROVE  Append([j \in 1..i |-> F[j]], F[i + 1]) = [j \in 1..(i + 1) |-> F[j]]
<1> DEFINE s == [j \in 1..i |-> F[j]]
           r == Append(s, F[i + 1])
           t == [j \in 1..(i + 1) |-> F[j]]
<1>1. Listed(s)
  <2>1. s = [j \in 1..i |-> s[j]] OBVIOUS
  <2>2. QED BY <2>1 DEF Listed
<1>2. DOMAIN s = 1..i /\ Len(s) = i /\ \A j \in 1..i : s[j] = F[j] OBVIOUS
<1> HIDE DEF s
<1>3. /\ Listed(r) /\ DOMAIN s = 1..Len(s) /\ Len(s) \in Nat /\ DOMAIN r = 1..(Len(s) + 1)
      /\ (\A j \in 1..Len(s) : r[j] = s[j]) /\ r[Len(s) + 1] = F[i + 1]
  BY <1>1, Appending
<1> HIDE DEF r
<1>4. r = [j \in 1..(i + 1) |-> r[j]]
  <2>1. PICK n \in Nat : r = [j \in 1..n |-> r[j]] BY <1>3 DEF Listed
  <2>2. DOMAIN r = 1..n BY <2>1
  <2>3. QED BY <1>3, <1>2, <2>1, <2>2
<1>5. \A j \in 1..(i + 1) : r[j] = F[j]
  <2> SUFFICES ASSUME NEW j \in 1..(i + 1) PROVE r[j] = F[j] OBVIOUS
  <2>1. CASE j = i + 1 BY <1>3, <1>2, <2>1
  <2>2. CASE j # i + 1
    <3>1. j \in 1..i BY <2>2
    <3>2. QED BY <1>2, <1>3, <3>1
  <2>3. QED BY <2>1, <2>2
<1>6. r = t
  <2>1. [j \in 1..(i + 1) |-> r[j]] = [j \in 1..(i + 1) |-> F[j]] BY <1>5
  <2>2. QED BY <1>4, <2>1
<1>7. QED BY <1>6 DEF r, s

\* The calls K of c lead from v to what has them.
Gives(v, c, K) ==
  /\ Listed(InOrder(c, K))
  /\ \E u : /\ Leads(v, InOrder(c, K), u) /\ Sane(u)
            /\ u.phase = v.phase /\ u.text = v.text /\ (u.given = <<>> => K = {})

\* The calls K of c may be numbered from where c has them.
Addressed(c, K, v) ==
  Framed /\ K # {} => /\ Free(v, CallsAt(c))
                      /\ ~Untaken(v, CallsAt(c)) => \A k \in K : c.calls[k] = "repaired"

(* The calls come one after the other. *)
LEMMA Calling ==
  ASSUME KernelAssumption, NEW c, c.attempt \in Tries, NEW K, IsFiniteSet(K), K \subseteq Nat,
         \A k \in K : c.calls[k] \in Whats,
         NEW v, Sane(v), v.given = <<>>, K # {} => v.phase = "open", UpTo(v.text, c.attempt), Addressed(c, K, v)
  PROVE  Gives(v, c, K)
<1> DEFINE q == InOrder(c, K)
           m == Cardinality(K)
<1>1. DOMAIN q = 1..m /\ m \in Nat BY FS_CardinalityType DEF InOrder
<1>2. OneByOne(q, c, K) BY Ordered
<1> HIDE DEF q
<1>3. PICK n \in Nat : \E nth \in [1..n -> K] : q = [i \in 1..n |-> Given(c, nth[i], CallsAt(c) + i - 1)]
  BY <1>2 DEF OneByOne
<1>4. PICK nth \in [1..n -> K] : q = [i \in 1..n |-> Given(c, nth[i], CallsAt(c) + i - 1)] BY <1>3
<1>5. Listed(q) BY <1>4 DEF Listed
<1>6. DOMAIN q = 1..n /\ Len(q) = n /\ \A i \in 1..n : q[i] = Given(c, nth[i], CallsAt(c) + i - 1) BY <1>4
<1>7. n = 0 => K = {}
  <2>1. SUFFICES ASSUME n = 0 PROVE m = 0 BY FS_EmptySet
  <2>2. 1..m = {} BY <1>1, <1>6, <2>1
  <2>3. QED BY <1>1, <2>2
<1> DEFINE base == CallsAt(c)
<1>8. \A i \in 1..n : /\ q[i].e = "call" /\ q[i].call \in [from : Tries, what : Whats]
                      /\ q[i].call.from = c.attempt /\ q[i].call.what = c.calls[nth[i]]
                      /\ q[i].at = base + i - 1
  <2> SUFFICES ASSUME NEW i \in 1..n
               PROVE  /\ q[i].e = "call" /\ q[i].call \in [from : Tries, what : Whats]
                      /\ q[i].call.from = c.attempt /\ q[i].call.what = c.calls[nth[i]]
                      /\ q[i].at = base + i - 1
    OBVIOUS
  <2> DEFINE at == base + i - 1
  <2>1. nth[i] \in K /\ c.calls[nth[i]] \in Whats OBVIOUS
  <2>2. q[i] = Called([from |-> c.attempt, what |-> c.calls[nth[i]]], at) BY <1>6 DEF Given
  <2> HIDE DEF at
  <2>3. q[i].e = "call" /\ q[i].call = [from |-> c.attempt, what |-> c.calls[nth[i]]] /\ q[i].at = at
    BY <2>2 DEF Called
  <2>4. QED BY <2>1, <2>3 DEF at
<1> HIDE DEF base
<1>9. \A piece \in v.text : c.attempt >= piece.attempt BY Trying DEF UpTo
<1>a. v.top \in Nat BY DEF Sane
<1>b. Framed /\ n # 0 => /\ base \in Nat /\ (base = v.top \/ Shared(v, base))
                         /\ base # v.top => \A k \in K : c.calls[k] = "repaired"
  <2>1. n # 0 => K # {} BY <1>4
  <2>2. QED BY <2>1 DEF Addressed, Free, Untaken, base
<1> DEFINE F == [j \in 1..n |-> q[j].call]
           given(i) == [j \in 1..i |-> F[j]]
           tops(i) == IF i = 0 \/ ~Framed THEN v.top ELSE base + i
           f == [i \in 0..n |-> IF i = 0 THEN v ELSE [v EXCEPT !.given = given(i), !.top = tops(i)]]
<1>10. \A i \in 0..n : f[i].phase = v.phase /\ f[i].text = v.text /\ f[i].given = given(i) /\ f[i].top = tops(i)
                       /\ DOMAIN f[i] = WireFields
                       /\ f[i].blocks = v.blocks /\ f[i].stop = v.stop
  <2> SUFFICES ASSUME NEW i \in 0..n
               PROVE  /\ f[i].phase = v.phase /\ f[i].text = v.text /\ f[i].given = given(i) /\ f[i].top = tops(i)
                      /\ DOMAIN f[i] = WireFields /\ f[i].blocks = v.blocks /\ f[i].stop = v.stop
    OBVIOUS
  <2>1. CASE i = 0
    <3>1. f[i] = v BY <2>1
    <3>2. given(i) = <<>> /\ tops(i) = v.top BY <2>1
    <3> HIDE DEF f, given, tops
    <3>3. QED BY <3>1, <3>2 DEF Sane
  <2>2. CASE i # 0
    <3>1. f[i] = [v EXCEPT !.given = given(i), !.top = tops(i)] BY <2>2
    <3> HIDE DEF f, given, tops
    <3>2. QED BY <3>1 DEF Sane, WireFields
  <2>3. QED BY <2>1, <2>2
<1>c. \A i \in 0..n : tops(i) \in Nat /\ v.top <= tops(i)
  <2> SUFFICES ASSUME NEW i \in 0..n PROVE tops(i) \in Nat /\ v.top <= tops(i) OBVIOUS
  <2>1. CASE i = 0 \/ ~Framed BY <1>a, <2>1
  <2>2. CASE i # 0 /\ Framed
    <3>1. base \in Nat /\ (base = v.top \/ base + 1 = v.top) /\ tops(i) = base + i BY <1>3, <1>b, <2>2 DEF Shared
    <3> HIDE DEF tops
    <3>2. i \in Nat /\ i >= 1 BY <1>3, <2>2
    <3>3. QED BY <1>a, <3>1, <3>2
  <2>3. QED BY <2>1, <2>2
<1>11. ASSUME NEW i \in 1..n PROVE Follows(f[i - 1], q[i]) /\ f[i] = Received(f[i - 1], q[i])
  <2>1. i - 1 \in 0..n /\ i \in 0..n /\ i - 1 \in Nat /\ (i - 1) + 1 = i /\ i \in Nat /\ n # 0 BY <1>3
  <2>2. K # {} BY <1>4
  <2>a. nth[i] \in K OBVIOUS
  <2>b. Framed => /\ q[i].at \in Nat /\ Free(f[i - 1], q[i].at)
                  /\ ~Untaken(f[i - 1], q[i].at) => c.calls[nth[i]] = "repaired"
                  /\ tops(i) = q[i].at + 1
    <3> SUFFICES ASSUME Framed
                 PROVE  /\ q[i].at \in Nat /\ Free(f[i - 1], q[i].at)
                        /\ ~Untaken(f[i - 1], q[i].at) => c.calls[nth[i]] = "repaired"
                        /\ tops(i) = q[i].at + 1
      OBVIOUS
    <3>1. base \in Nat /\ (base = v.top \/ Shared(v, base))
          /\ (base # v.top => \A k \in K : c.calls[k] = "repaired")
      BY <1>b, <2>1
    <3>2. q[i].at = base + i - 1 /\ q[i].at \in Nat BY <1>8, <2>1, <3>1
    <3>3. tops(i) = q[i].at + 1 BY <2>1, <3>1, <3>2
    <3>4. CASE i = 1
      <4>1. f[i - 1].top = v.top /\ f[i - 1].blocks = v.blocks /\ q[i].at = base
        <5>1. tops(i - 1) = v.top BY <3>4
        <5> HIDE DEF f, tops, given
        <5>2. QED BY <1>10, <2>1, <3>1, <3>2, <3>4, <5>1
      <4> HIDE DEF f, tops, given
      <4>2. QED BY <2>a, <3>1, <3>2, <3>3, <4>1 DEF Free, Untaken, Shared
    <3>5. CASE i # 1
      <4>1. f[i - 1].top = q[i].at
        <5>1. tops(i - 1) = base + (i - 1) BY <2>1, <3>5
        <5> HIDE DEF f, tops, given
        <5>2. QED BY <1>10, <2>1, <3>1, <3>2, <5>1
      <4> HIDE DEF f, tops, given
      <4>2. QED BY <3>2, <3>3, <4>1 DEF Free, Untaken
    <3>6. QED BY <3>4, <3>5
  <2>3. Follows(f[i - 1], q[i])
    <3> HIDE DEF f, F, given, tops
    <3>1. f[i - 1].phase = "open" /\ f[i - 1].text = v.text BY <1>10, <2>1, <2>2
    <3>2. QED BY <1>8, <1>9, <2>b, <3>1 DEF Follows
  <2>c. Later(f[i - 1], q[i].at) = tops(i)
    <3>1. CASE Framed
      <4> HIDE DEF f, tops
      <4>1. f[i - 1].top \in Nat BY <1>10, <1>c, <2>1
      <4>2. QED BY <2>b, <3>1, <4>1 DEF Later, Free, Untaken, Shared
    <3>2. CASE ~Framed
      <4>1. tops(i - 1) = v.top /\ tops(i) = v.top BY <3>2
      <4> HIDE DEF f, tops
      <4>2. QED BY <1>10, <2>1, <3>2, <4>1 DEF Later
    <3>3. QED BY <3>1, <3>2
  <2>4. Received(f[i - 1], q[i]) = [f[i - 1] EXCEPT !.given = Append(@, q[i].call), !.top = tops(i)]
    <3> HIDE DEF f, tops, given, F
    <3>1. QED BY <1>8, <2>c DEF Received
  <2>5. F[i] = q[i].call OBVIOUS
  <2>6. Append(given(i - 1), F[i]) = given(i)
    <3> HIDE DEF F
    <3>1. Append([j \in 1..(i - 1) |-> F[j]], F[(i - 1) + 1]) = [j \in 1..((i - 1) + 1) |-> F[j]] BY <2>1, Growth
    <3>2. QED BY <2>1, <3>1
  <2>7. Received(f[i - 1], q[i]) = [f[i - 1] EXCEPT !.given = given(i), !.top = tops(i)]
    <3> HIDE DEF f, F, given, tops
    <3>1. QED BY <1>10, <2>1, <2>4, <2>5, <2>6
  <2>8. f[i] = [v EXCEPT !.given = given(i), !.top = tops(i)] BY <2>1
  <2>9. f[i - 1] = v \/ f[i - 1] = [v EXCEPT !.given = given(i - 1), !.top = tops(i - 1)] BY <2>1
  <2>10. [f[i - 1] EXCEPT !.given = given(i), !.top = tops(i)] = [v EXCEPT !.given = given(i), !.top = tops(i)]
    <3> HIDE DEF f, F, given, tops
    <3>1. CASE f[i - 1] = v BY <3>1
    <3>2. CASE f[i - 1] = [v EXCEPT !.given = given(i - 1), !.top = tops(i - 1)] BY <3>2
    <3>3. QED BY <2>9, <3>1, <3>2
  <2> HIDE DEF f, F, given, tops
  <2>11. QED BY <2>3, <2>7, <2>8, <2>10
<1>12. DOMAIN f = 0..n /\ f[0] = v BY <1>3
<1>13. n \in 0..n BY <1>3
<1>14. given(n) = <<>> => n = 0
  <2>1. DOMAIN given(n) = 1..n BY <1>3
  <2> HIDE DEF given
  <2>2. SUFFICES ASSUME given(n) = <<>> PROVE n = 0 OBVIOUS
  <2>3. 1..n = {} BY <2>1, <2>2
  <2>4. n \in Nat BY <1>3
  <2>5. QED BY ONLY <2>3, <2>4
<1> HIDE DEF f, given, F, tops
<1>15. Leads(v, q, f[n]) BY <1>6, <1>11, <1>12 DEF Leads
<1>16. f[n].phase = v.phase /\ f[n].text = v.text /\ (f[n].given = <<>> => K = {})
  BY <1>7, <1>10, <1>13, <1>14
<1>17. Sane(f[n])
  <2>1. /\ DOMAIN f[n] = WireFields /\ f[n].phase = v.phase /\ f[n].text = v.text /\ f[n].stop = v.stop
        /\ f[n].blocks = v.blocks /\ f[n].top \in Nat /\ v.top <= f[n].top
    BY <1>10, <1>13, <1>c
  <2>2. ASSUME NEW kind \in Blocks, NEW k \in v.blocks[kind] PROVE k < f[n].top
    <3>1. k \in Nat /\ k < v.top BY <2>2 DEF Sane
    <3>2. QED BY <1>a, <2>1, <3>1
  <2>3. QED BY <2>1, <2>2 DEF Sane
<1>18. QED BY <1>5, <1>15, <1>16, <1>17 DEF q, Gives

(* A generator that keeps less than a good one is good. *)
LEMMA QuieterIsGood ==
  ASSUME KernelAssumption, NEW g, Good(g), NEW h, Quieter(g, h), InRange(h), Voiced(h),
         IsFiniteSet(DOMAIN h.calls), DOMAIN h.calls \subseteq Nat,
         h.calls = NoCalls => Heard(g) = h.text
  PROVE  Good(h) /\ Heard(h) = Heard(g)
<1>1. Tell(h) /\ Heard(h) = Heard(g) BY QuieterTells DEF Good
<1>2. Typed(h) BY DEF Quieter, Typed, Good
<1>3. Echo(h) BY <1>1 DEF Echo
<1>4. QED BY <1>1, <1>2, <1>3 DEF Good

\* What leads the client to the end of a message with a text and the calls K.
Sent(out, text, K, last) ==
  \E u : Leads(wire, out, u) /\ u.text = text /\ u.stop = last /\ (u.given = <<>> => K = {})

(* The last events do. *)
LEMMA Sending ==
  ASSUME KernelAssumption, NEW s, Listed(s), NEW v, Leads(wire, s, v), Sane(v), v.given = <<>>, v.phase # "ended",
         NEW c, c.attempt \in Tries, UpTo(v.text, c.attempt),
         NEW K, IsFiniteSet(K), K \subseteq Nat, \A k \in K : c.calls[k] \in Whats, K # {} => v.phase = "open",
         Addressed(c, K, v), NEW last \in Stops
  PROVE  Sent(Concluded(s, c, K, last), v.text, K, last)
<1> DEFINE q == InOrder(c, K)
<1>0. Gives(v, c, K) BY Calling
<1>1. /\ Listed(q)
      /\ \E u : Leads(v, q, u) /\ Sane(u) /\ u.phase = v.phase /\ u.text = v.text /\ (u.given = <<>> => K = {})
  BY <1>0 DEF Gives
<1> HIDE DEF q
<1>2. PICK u : Leads(v, q, u) /\ Sane(u) /\ u.phase = v.phase /\ u.text = v.text /\ (u.given = <<>> => K = {})
  BY <1>1
<1>3. Listed(s \o q) BY <1>1, Concatenation
<1>4. Leads(wire, s \o q, u) BY <1>1, <1>2, Onward
<1>5. PICK x : Leads(wire, (s \o q) \o <<Ended(last)>>, x) /\ x.text = u.text /\ x.given = u.given /\ x.stop = last
  BY <1>2, <1>3, <1>4, Parting
<1>6. QED BY <1>2, <1>5 DEF Sent, Concluded, q

(* A message may end so, unless it is an announcement without its call. *)
LEMMA Ending ==
  ASSUME MessageInv, UNCHANGED <<req, prep, wire>>, stage' = "done", Numbered(gen'),
         NEW text, NEW K, NEW last, Sent(gen'.out, text, K, last),
         req.cc /\ OffersTools /\ Unfinished(text) /\ K = {} => last # "stop"
  PROVE  MessageInv'
<1>1. PICK u : Leads(wire, gen'.out, u) /\ u.text = text /\ u.stop = last /\ (u.given = <<>> => K = {})
  BY DEF Sent
<1>2. Leadable(gen') BY <1>1 DEF Leadable, NotFinal
<1>3. QED BY <1>2, Departing

\* What the client has from v to u is the same but for its blocks.
Rests(v, u) ==
  Sane(u) /\ u.given = <<>> /\ u.phase = v.phase /\ u.starts = v.starts /\ u.text = v.text /\ u.top = v.top

\* Where a block that may be open is closed.
Folds(kind, open, at, v) ==
  \E u : /\ Leads(v, IF open THEN <<Closed(kind, at)>> ELSE <<>>, u) /\ Rests(v, u)
         /\ \A k \in Blocks : k # kind \/ ~open => u.blocks[k] = v.blocks[k]

(* content_block_stop, if the block is open. *)
LEMMA Folding ==
  ASSUME NEW kind \in Blocks, NEW open, NEW at, NEW v, Sane(v), v.given = <<>>,
         open => at \in v.blocks[kind] /\ v.phase = "open"
  PROVE  Folds(kind, open, at, v)
<1>1. CASE ~open
  <2>1. Rests(v, v) BY DEF Rests
  <2>2. Leads(v, <<>>, v) BY Standing
  <2>3. QED BY <1>1, <2>1, <2>2 DEF Folds
<1>2. CASE open
  <2> DEFINE e == Closed(kind, at)
             u == Received(v, e)
  <2>1. e.e = "close" /\ e.kind = kind /\ e.at = at BY DEF Closed
  <2> HIDE DEF e
  <2>2. Follows(v, e) BY <1>2, <2>1 DEF Follows
  <2>3. u = [v EXCEPT !.blocks[kind] = @ \ {at}] BY <2>1 DEF Received
  <2>4. Sane(u) BY <2>2, Following
  <2>5. /\ u.given = v.given /\ u.phase = v.phase /\ u.starts = v.starts /\ u.text = v.text /\ u.top = v.top
        /\ u.blocks = [v.blocks EXCEPT ![kind] = @ \ {at}]
    BY <2>3 DEF Sane, WireFields
  <2>6. Leads(v, <<e>>, u) BY <2>2, OneStep
  <2> HIDE DEF u
  <2>7. Rests(v, u) BY <2>4, <2>5 DEF Rests
  <2>8. \A k \in Blocks : k # kind => u.blocks[k] = v.blocks[k] BY <2>5 DEF Sane
  <2>9. QED BY <1>2, <2>6, <2>7, <2>8 DEF e, Folds
<1>3. QED BY <1>1, <1>2

(* The blocks that are open are closed. *)
LEMMA ClosingBlocks ==
  ASSUME Framed, NEW g, NEW v, Tells(g, v)
  PROVE  /\ Listed(A!Closings(g))
         /\ \E u : /\ Leads(v, A!Closings(g), u) /\ Rests(v, u)
                   /\ ~g.textOpen => u.blocks["text"] = v.blocks["text"]
<1> DEFINE a == IF g.thinkOpen THEN <<Closed("thinking", g.thinkAt)>> ELSE <<>>
           b == IF g.textOpen THEN <<Closed("text", g.textAt)>> ELSE <<>>
<1>1. A!Closings(g) = a \o b
  <2>1. \A kind, at : A!Closed(kind, at) = Closed(kind, at) BY DEF A!Closed, Closed
  <2>2. QED BY <2>1 DEF A!Closings
<1>2. "thinking" \in Blocks /\ "text" \in Blocks /\ "text" # "thinking" BY DEF Blocks
<1>3. PICK w : /\ Leads(v, a, w) /\ Rests(v, w) /\ w.blocks["text"] = v.blocks["text"]
  <2>1. /\ Sane(v) /\ v.given = <<>>
        /\ g.thinkOpen => g.thinkAt \in v.blocks["thinking"] /\ v.phase = "open"
    BY DEF Tells, Placed
  <2>2. Folds("thinking", g.thinkOpen, g.thinkAt, v) BY <1>2, <2>1, Folding
  <2>3. QED BY <1>2, <2>2 DEF Folds
<1>4. g.textOpen => g.textAt \in w.blocks["text"] /\ w.phase = "open" BY <1>3 DEF Tells, Placed, Rests
<1>5. PICK u : Leads(w, b, u) /\ Rests(w, u) /\ (~g.textOpen => u.blocks["text"] = w.blocks["text"])
  <2>1. Sane(w) /\ w.given = <<>> BY <1>3 DEF Rests
  <2>2. Folds("text", g.textOpen, g.textAt, w) BY <1>2, <1>4, <2>1, Folding
  <2>3. QED BY <1>2, <2>2 DEF Folds
<1>6. Listed(a) /\ Listed(b) BY Short
<1> HIDE DEF a, b
<1>7. Leads(v, a \o b, u) BY <1>3, <1>5, <1>6, Onward
<1>8. Rests(v, u) BY <1>3, <1>5 DEF Rests
<1>9. Listed(a \o b) BY <1>6, Concatenation
<1>10. QED BY <1>1, <1>3, <1>5, <1>7, <1>8, <1>9

(* The calls come after the blocks. *)
LEMMA Numbering ==
  ASSUME Framed, NEW g, NEW v, Tells(g, v), NEW u, Sane(u), u.top = v.top,
         ~g.textOpen => u.blocks["text"] = v.blocks["text"], NEW K, K \subseteq DOMAIN g.calls
  PROVE  Addressed(g, K, u)
<1>1. Sane(v) /\ Placed(g, v) BY DEF Tells
<1>2. v.top \in Nat /\ "text" \in Blocks BY <1>1 DEF Sane, Blocks
<1>3. CASE g.textOpen
  <2>1. g.textAt \in Nat /\ g.textAt < v.top /\ g.next \in Nat BY <1>1, <1>2, <1>3 DEF Placed, Sane
  <2>2. v.top = g.next \/ (v.top = g.next + 1 /\ g.textAt = g.next) BY <1>1, <1>3 DEF Placed, Uncounted
  <2>3. CallsAt(g) = v.top BY <1>3, <2>1, <2>2 DEF CallsAt
  <2>4. QED BY <1>2, <2>3 DEF Addressed, Free, Untaken
<1>4. CASE ~g.textOpen
  <2>1. CallsAt(g) = g.next /\ g.next \in Nat BY <1>1, <1>4 DEF CallsAt, Placed
  <2>2. CASE v.top = g.next BY <2>1, <2>2 DEF Addressed, Free, Untaken
  <2>3. CASE v.top # g.next
    <3>1. v.top = g.next + 1 /\ g.next \in u.blocks["text"] /\ g.calls = RepairedCall
      BY <1>1, <1>4, <2>3 DEF Placed, Uncounted
    <3>2. \A k \in K : g.calls[k] = "repaired" BY <3>1 DEF RepairedCall, Merged, NoCalls
    <3>3. QED BY <2>1, <3>1, <3>2 DEF Addressed, Free, Untaken, Shared
  <2>4. QED BY <2>2, <2>3
<1>5. QED BY <1>3, <1>4

-----------------------------------------------------------------------------
(* The Anthropic handler, with respect to the message *)

(* The kernel's own words are of the present attempt. *)
LEMMA OwnIsUpTo ==
  ASSUME KernelAssumption, NEW g, g.attempt \in Tries
  PROVE  UpTo(Own(g), g.attempt) /\ ~Unfinished(Own(g)) /\ \A text : ~Unfinished(text \cup Own(g))
<1>1. g.attempt \in 0..g.attempt BY Trying
<1>2. Own(g) = {[kind |-> "own", attempt |-> g.attempt]} BY DEF Own, Piece
<1>3. UpTo(Own(g), g.attempt) BY <1>1, <1>2 DEF UpTo
<1>4. Has(Own(g), {"word", "fence", "own"}) BY <1>2 DEF Has
<1>5. QED BY <1>3, <1>4 DEF Unfinished, Has

(* An attempt is given up: what was heard is remembered, or nothing was. *)
LEMMA AnthropicRetryingMessage ==
  ASSUME KernelAssumption, MessageInv, prep.mode # "collected", Framed,
         NEW g, Good(g), g.chunks \in 0..MaxChunks, Heard(g) = {}, NEW tried, A!Retry(g, tried)
  PROVE  MessageInv'
<1> DEFINE marked == [g EXCEPT !.used = @ \cup tried]
           h      == A!Again(marked)
<1>1. /\ gen' = IF A!More(g) THEN h ELSE marked
      /\ UNCHANGED <<req, prep, wire>>
  BY DEF A!Retry
<1>2. Typed(g) /\ InRange(g) BY DEF Good
<1>3. Same(g, marked) /\ marked.held = g.held /\ marked.hold = g.hold /\ marked.fence = g.fence
      /\ marked.finish = g.finish /\ DOMAIN marked = Fields /\ marked.chunks = g.chunks
  BY <1>2 DEF Typed, Fields, Same
<1>4. h = IF marked.started THEN [marked EXCEPT !.attempt = @ + 1, !.chunks = 0]
          ELSE [FreshGen EXCEPT !.attempt = marked.attempt + 1, !.used = marked.used, !.fence = marked.fence,
                                !.next = marked.next, !.out = marked.out]
  BY AnthropicTexts DEF A!Again
<1> HIDE DEF marked, h
<1>5. Good(marked) /\ Heard(marked) = {}
  <2>1. InRange(marked) BY <1>2, <1>3 DEF InRange, Same
  <2>2. QED BY <1>3, <2>1, SameIsGood DEF Same, Heard
<1>6. Numbered(marked) BY <1>2, <1>3 DEF Numbered, InRange, Same
<1>7. ASSUME A!More(g) PROVE Good(h) /\ Numbered(h)
  <2> DEFINE n == g.attempt + 1
  <2>1. n \in Tries /\ UpTo(marked.held \cup marked.hold, n) /\ g.attempt \in Int /\ n \in Int /\ g.attempt <= n
    <3>1. g.attempt \in 0..Attempts - 1 /\ Attempts \in Nat /\ g.attempt + 1 < Attempts
      BY <1>2, <1>7 DEF InRange, Tries, KernelAssumption, A!More
    <3>2. n \in 0..Attempts - 1 /\ g.attempt \in Int /\ n \in Int /\ g.attempt <= n BY <3>1
    <3>3. UpTo(marked.held \cup marked.hold, g.attempt) BY <1>2, <1>3 DEF InRange
    <3>4. UpTo(marked.held \cup marked.hold, n) BY <3>2, <3>3, Upwards
    <3>5. QED BY <3>2, <3>4 DEF Tries
  <2>2. 0 \in 0..MaxChunks BY DEF KernelAssumption
  <2>3. CASE g.started
    <3>1. /\ DOMAIN h = Fields /\ h.out = g.out /\ h.started = g.started /\ h.textOpen = g.textOpen
          /\ h.thinkOpen = g.thinkOpen /\ h.text = g.text /\ h.calls = g.calls /\ h.held = marked.held
          /\ h.hold = marked.hold /\ h.fence = g.fence /\ h.finish = g.finish /\ h.attempt = n /\ h.chunks = 0
          /\ h.textAt = g.textAt /\ h.thinkAt = g.thinkAt /\ h.next = g.next
      BY <1>3, <1>4, <2>3 DEF Same, Fields
    <3> HIDE DEF n
    <3>a. SamePlaces(g, h) BY <3>1 DEF SamePlaces, KeepsCount
    <3>2. Quieter(g, h) BY <2>1, <3>1, <3>a DEF Quieter
    <3>3. InRange(h) BY <1>2, <2>1, <3>1 DEF InRange
    <3>4. Voiced(h) BY DEF Voiced
    <3>5. h.calls = NoCalls => Heard(g) = h.text BY <3>1 DEF Good, Echo
    <3>6. Good(h) BY <1>2, <3>1, <3>2, <3>3, <3>4, <3>5, QuieterIsGood DEF Typed
    <3>7. Numbered(h) BY <2>1, <2>2, <3>1 DEF Numbered
    <3>8. QED BY <3>6, <3>7
  <2>4. CASE ~g.started
    <3>1. /\ DOMAIN h = Fields /\ h.out = g.out /\ ~h.started /\ ~h.textOpen /\ ~h.thinkOpen /\ h.text = {}
          /\ h.calls = NoCalls /\ h.held = {} /\ h.hold = {} /\ h.fence = g.fence /\ h.finish = "stop"
          /\ h.attempt = n /\ h.chunks = 0 /\ h.next = g.next
      BY <1>3, <1>4, <2>4 DEF Same, Fields, FreshGen
    <3> HIDE DEF n
    <3>a. SamePlaces(g, h) BY <3>1 DEF SamePlaces, KeepsCount
    <3>2. Quieter(g, h) BY <2>1, <2>4, <3>1, <3>a DEF Quieter
    <3>3. InRange(h)
      <4>1. DOMAIN h.calls = {} BY <3>1 DEF NoCalls
      <4>2. UpTo(h.held \cup h.hold, h.attempt) BY <3>1 DEF UpTo
      <4>3. QED BY <1>2, <2>1, <3>1, <4>1, <4>2 DEF InRange
    <3>4. Voiced(h) BY DEF Voiced
    <3>5. Good(h) BY <3>1, <3>2, <3>3, <3>4, NoCallsTyped, QuieterIsGood
    <3>6. Numbered(h) BY <2>1, <2>2, <3>1 DEF Numbered
    <3>7. QED BY <3>5, <3>6
  <2>5. QED BY <2>3, <2>4
<1>8. Good(gen') /\ Numbered(gen') BY <1>1, <1>5, <1>6, <1>7
<1>9. QED BY <1>1, <1>8, Continuing

(* In a step of a streaming handler the generator is good. *)
LEMMA HandlingGood ==
  ASSUME MessageInv, NEW step, Handling(step)
  PROVE  Good(gen) /\ Numbered(gen) /\ (prep.mode = "anthropic" => Framed) /\ (prep.mode = "openai" => ~Framed)
BY DEF MessageInv, Handling, KernelInv, Stages

\* h differs from g in nothing that the answer is made of.
Equal(g, h) ==
  Same(g, h) /\ h.held = g.held /\ h.hold = g.hold /\ h.fence = g.fence /\ h.finish = g.finish

\* h is good too, and counts the same.
AsGood(g, h) == Good(h) /\ h.attempt = g.attempt /\ h.chunks = g.chunks

(* Then it is as good. *)
LEMMA EqualIsGood ==
  ASSUME KernelAssumption, NEW g, Good(g), NEW h, Equal(g, h)
  PROVE  AsGood(g, h) /\ Heard(h) = Heard(g) /\ (Numbered(g) => Numbered(h))
<1>1. InRange(h) BY DEF Good, InRange, Equal, Same
<1>2. Good(h) BY <1>1, SameIsGood DEF Equal
<1>3. Heard(h) = Heard(g) BY DEF Equal, Same, Heard
<1>4. QED BY <1>2, <1>3 DEF AsGood, Numbered, Equal, Same

(* What is looked at, and what is let go. *)
LEMMA GuardsGood ==
  ASSUME KernelAssumption, NEW g, Good(g), NEW kind
  PROVE  LET piece == Piece(kind, g.attempt) IN
         /\ AsGood(g, Guarding(g, piece)) /\ AsGood(g, GuardingReasoning(g, piece)) /\ AsGood(g, Drained(g))
         /\ UpTo({piece}, g.attempt) /\ UpTo(Released(g.hold, piece), g.attempt) /\ UpTo(Flushed(g.hold), g.attempt)
<1> DEFINE piece == Piece(kind, g.attempt)
           h     == Guarding(g, piece)
           r     == GuardingReasoning(g, piece)
           d     == Drained(g)
<1>1. Typed(g) /\ InRange(g) /\ UpTo(g.held, g.attempt) /\ UpTo(g.hold, g.attempt) BY Upwards DEF Good, InRange
<1>2. UpTo({piece}, g.attempt)
  <2>1. piece.attempt = g.attempt /\ g.attempt \in 0..g.attempt BY <1>1, Trying DEF Piece, InRange
  <2>2. QED BY <2>1 DEF UpTo
<1> HIDE DEF piece
<1>3. UpTo(g.hold \cup {piece}, g.attempt) BY <1>1, <1>2, Upwards
<1>4. /\ UpTo(Released(g.hold, piece), g.attempt) /\ UpTo(Flushed(g.hold), g.attempt)
      /\ UpTo(HeldBack(g.hold, piece), g.attempt)
  <2>1. /\ Released(g.hold, piece) \subseteq g.hold \cup {piece} /\ Flushed(g.hold) \subseteq g.hold
        /\ HeldBack(g.hold, piece) \subseteq g.hold \cup {piece}
    BY Holding
  <2>2. QED BY <1>1, <1>3, <2>1, Upwards
<1>5. ASSUME NEW x, Same(g, x), x.held = g.held, x.fence = g.fence, x.finish = g.finish, UpTo(x.hold, g.attempt)
      PROVE  AsGood(g, x)
  <2>1. UpTo(x.held \cup x.hold, x.attempt)
    <3>1. UpTo(g.held \cup x.hold, g.attempt) BY <1>1, <1>5, Upwards
    <3>2. QED BY <1>5, <3>1 DEF Same
  <2>2. InRange(x) BY <1>1, <1>5, <2>1 DEF InRange, Same
  <2>3. QED BY <1>5, <2>2, SameIsGood DEF AsGood, Same
<1>6. AsGood(g, h)
  <2>1. Same(g, h) /\ h.held = g.held /\ h.fence = g.fence /\ h.finish = g.finish /\ h.hold = HeldBack(g.hold, piece)
    BY <1>1 DEF Same, Typed, Fields, Guarding
  <2> HIDE DEF h
  <2>2. QED BY <1>4, <1>5, <2>1
<1>7. AsGood(g, r)
  <2>1. Same(g, r) /\ r.held = g.held /\ r.fence = g.fence /\ r.finish = g.finish /\ r.hold = g.hold
    BY <1>1 DEF Same, Typed, Fields, GuardingReasoning
  <2> HIDE DEF r
  <2>2. QED BY <1>1, <1>5, <2>1
<1>8. AsGood(g, d)
  <2>1. Same(g, d) /\ d.held = g.held /\ d.fence = g.fence /\ d.finish = g.finish /\ d.hold \subseteq g.hold
    BY <1>1 DEF Same, Typed, Fields, Drained
  <2> HIDE DEF d
  <2>2. UpTo(d.hold, g.attempt) BY <1>1, <2>1, Upwards
  <2>3. QED BY <1>5, <2>1, <2>2
<1>9. QED BY <1>2, <1>4, <1>6, <1>7, <1>8 DEF piece

(* The upstream answers. *)
LEMMA FetchSucceedsMessage ==
  ASSUME MessageInv, Handling("fetch"), UNCHANGED <<req, prep, gen, wire>>
  PROVE  MessageInv'
BY HandlingGood, Continuing DEF Handling

(* The answer goes to its end. *)
LEMMA AnthropicFinishingMessage ==
  ASSUME MessageInv, prep.mode # "collected", NEW g, Good(g), Numbered(g), A!Finish(g)
  PROVE  MessageInv'
<1>1. gen' = g /\ UNCHANGED <<req, prep, wire>> BY DEF A!Finish
<1>2. QED BY <1>1, Continuing

(* The answer ends with an error. *)
LEMMA AnthropicFailingMessage ==
  ASSUME MessageInv, NEW g, Good(g), Numbered(g), A!Fail(g)
  PROVE  MessageInv'
<1>1. gen' = [g EXCEPT !.out = @ \o <<Ended("error")>>] /\ stage' = "done" /\ UNCHANGED <<req, prep, wire>>
  BY AnthropicTexts DEF A!Fail
<1>2. QED BY <1>1, Aborting DEF Good

(* The upstream refuses or cannot be reached. *)
LEMMA AnthropicFetchFailsMessage ==
  ASSUME KernelAssumption, MessageInv, Handling("fetch"), prep.mode = "anthropic", NEW error, A!FetchFails(error)
  PROVE  MessageInv'
<1> DEFINE g == [gen EXCEPT !.fault = "error"]
<1>1. Good(gen) /\ Numbered(gen) /\ Framed BY HandlingGood
<1>2. Equal(gen, g) BY <1>1 DEF Equal, Same, Good, Typed, Fields
<1>3. \/ \E tried : A!Retry(g, tried)
      \/ A!Fail(g)
      \/ A!Finish(g)
  BY DEF A!FetchFails
<1> HIDE DEF g
<1>4. Good(g) /\ Heard(g) = {} /\ Numbered(g) /\ g.chunks \in 0..MaxChunks
  BY <1>1, <1>2, EqualIsGood DEF AsGood, Handling, Numbered
<1>5. prep.mode # "collected" OBVIOUS
<1>6. CASE \E tried : A!Retry(g, tried)
  <2>1. PICK tried : A!Retry(g, tried) BY <1>6
  <2>2. QED BY <1>1, <1>4, <1>5, <2>1, AnthropicRetryingMessage
<1>7. CASE A!Fail(g) BY <1>4, <1>7, AnthropicFailingMessage
<1>8. CASE A!Finish(g) BY <1>4, <1>5, <1>8, AnthropicFinishingMessage
<1>9. QED BY <1>3, <1>6, <1>7, <1>8

(* The handler reads on. *)
LEMMA KeepingMessage ==
  ASSUME KernelAssumption, MessageInv, prep.mode # "collected", gen.chunks \in 0..MaxChunks, gen.chunks < MaxChunks,
         NEW g, Good(g), g.chunks = gen.chunks,
         gen' = [g EXCEPT !.chunks = @ + 1], UNCHANGED <<req, prep, wire>>
  PROVE  MessageInv'
<1> DEFINE h == [g EXCEPT !.chunks = @ + 1]
<1>1. Typed(g) /\ InRange(g) /\ Voiced(g) /\ Echo(g) BY DEF Good
<1>2. /\ DOMAIN h = Fields /\ h.out = g.out /\ h.attempt = g.attempt /\ h.calls = g.calls /\ h.started = g.started
      /\ h.textOpen = g.textOpen /\ h.thinkOpen = g.thinkOpen /\ h.text = g.text /\ h.held = g.held
      /\ h.hold = g.hold /\ h.fence = g.fence /\ h.finish = g.finish /\ h.chunks = g.chunks + 1
      /\ h.textAt = g.textAt /\ h.thinkAt = g.thinkAt /\ h.next = g.next
  BY <1>1 DEF Typed, Fields
<1>3. gen' = h OBVIOUS
<1> HIDE DEF h
<1>4. g.attempt \in Int /\ g.attempt <= g.attempt
  <2>1. g.attempt \in Int BY <1>1, Trying DEF InRange
  <2>2. QED BY <2>1
<1>5. Quieter(g, h) BY <1>2, <1>4 DEF Quieter, SamePlaces, KeepsCount
<1>6. InRange(h) /\ Voiced(h) BY <1>1, <1>2 DEF InRange, Voiced
<1>7. h.calls = NoCalls => Heard(g) = h.text BY <1>1, <1>2 DEF Echo
<1>8. Good(h) BY <1>1, <1>2, <1>5, <1>6, <1>7, QuieterIsGood DEF Typed
<1>9. g.chunks + 1 \in 0..MaxChunks BY DEF KernelAssumption
<1>10. Numbered(h) BY <1>1, <1>2, <1>9 DEF Numbered, InRange
<1>11. QED BY <1>3, <1>8, <1>10, Continuing

(* A piece of text arrives. *)
LEMMA AnthropicContentMessage ==
  ASSUME KernelAssumption, MessageInv, Handling("read"), prep.mode = "anthropic", NEW kind, A!Content(kind)
  PROVE  MessageInv'
<1> DEFINE piece == Piece(kind, gen.attempt)
           g     == [gen EXCEPT !.fence = @ \/ (~req.cc /\ kind = "fence")]
           h     == Guarding(g, piece)
           said  == IF g.calls = NoCalls THEN Pushed(h, Released(g.hold, piece)) ELSE Pushed(g, {piece})
<1>1. Good(gen) /\ Numbered(gen) /\ Framed BY HandlingGood
<1>2. A!Keep(said) /\ gen.chunks < MaxChunks BY AnthropicTexts, AnthropicSaying DEF A!Content, A!Reading
<1>3. Good(g) /\ g.attempt = gen.attempt /\ g.chunks = gen.chunks
  <2>1. /\ Same(gen, g) /\ g.held = gen.held /\ g.hold = gen.hold /\ g.finish = gen.finish
        /\ g.fence = (gen.fence \/ (~req.cc /\ kind = "fence"))
    BY <1>1 DEF Same, Good, Typed, Fields
  <2> HIDE DEF g
  <2>2. InRange(g) BY <1>1, <2>1 DEF InRange, Same, Good
  <2>3. QED BY <1>1, <2>1, <2>2, SameIsGood DEF Same
<1>4. piece = Piece(kind, g.attempt) BY <1>3
<1> HIDE DEF g, piece
<1>5. /\ Good(h) /\ h.attempt = g.attempt /\ h.chunks = g.chunks
      /\ UpTo({piece}, g.attempt) /\ UpTo(Released(g.hold, piece), g.attempt)
  BY <1>3, <1>4, GuardsGood DEF AsGood
<1> HIDE DEF h
<1>6. Good(said) /\ said.chunks = gen.chunks
  <2>1. Good(Pushed(h, Released(g.hold, piece))) /\ Pushed(h, Released(g.hold, piece)).chunks = h.chunks
    BY <1>5, PushingGood
  <2>2. Good(Pushed(g, {piece})) /\ Pushed(g, {piece}).chunks = g.chunks BY <1>3, <1>5, PushingGood
  <2>3. QED BY <1>3, <1>5, <2>1, <2>2
<1> HIDE DEF said
<1>7. gen' = [said EXCEPT !.chunks = @ + 1] /\ UNCHANGED <<req, prep, wire>> BY <1>2 DEF A!Keep
<1>8. gen.chunks \in 0..MaxChunks /\ prep.mode # "collected" BY <1>1 DEF Numbered
<1>9. QED BY <1>2, <1>6, <1>7, <1>8, KeepingMessage

(* A piece of reasoning arrives. *)
LEMMA AnthropicReasoningMessage ==
  ASSUME KernelAssumption, MessageInv, Handling("read"), prep.mode = "anthropic", NEW kind, A!Reasoning(kind)
  PROVE  MessageInv'
<1> DEFINE piece == Piece(kind, gen.attempt)
           h     == GuardingReasoning(gen, piece)
           t     == Think(h, Released(gen.rhold, piece))
<1>1. Good(gen) /\ Numbered(gen) /\ Framed BY HandlingGood
<1>2. A!Keep(t) /\ gen.chunks < MaxChunks BY AnthropicTexts, AnthropicSaying DEF A!Reasoning, A!Reading
<1>3. Good(h) /\ h.chunks = gen.chunks BY <1>1, GuardsGood DEF AsGood
<1> HIDE DEF h
<1>4. Good(t) /\ t.chunks = gen.chunks BY <1>1, <1>3, ThinkingGood DEF Keeping
<1> HIDE DEF t
<1>5. gen' = [t EXCEPT !.chunks = @ + 1] /\ UNCHANGED <<req, prep, wire>> BY <1>2 DEF A!Keep
<1>6. gen.chunks \in 0..MaxChunks /\ prep.mode # "collected" BY <1>1 DEF Numbered
<1>7. QED BY <1>2, <1>4, <1>5, <1>6, KeepingMessage

(* A delta of a call is recorded. *)
LEMMA RecordingGood ==
  ASSUME KernelAssumption, DeltasAssumption, NEW g, Good(g), Framed => g.textOpen \/ Heard(g) = {}, NEW delta \in Deltas
  PROVE  AsGood(g, [g EXCEPT !.calls = Merged(@, delta[1], delta[2])])
<1> DEFINE m == Merged(g.calls, delta[1], delta[2])
           h == [g EXCEPT !.calls = Merged(@, delta[1], delta[2])]
<1>1. Typed(g) /\ InRange(g) /\ Voiced(g) BY DEF Good
<1>2. IsFiniteSet(DOMAIN m) /\ DOMAIN m \subseteq Nat /\ m # NoCalls
  BY <1>1, Merging DEF DeltasAssumption, Typed
<1>3. \A k \in DOMAIN m : m[k] \in Whats
  <2>1. delta[2] \in Whats BY DEF Whats
  <2>2. DOMAIN m = DOMAIN g.calls \cup {delta[1]} /\ \A k \in DOMAIN m : m[k] = IF k = delta[1] THEN delta[2] ELSE g.calls[k]
    BY DEF Merged
  <2>3. QED BY <1>1, <2>1, <2>2 DEF InRange
<1>4. /\ DOMAIN h = Fields /\ h.out = g.out /\ h.attempt = g.attempt /\ h.calls = m /\ h.started = g.started
      /\ h.textOpen = g.textOpen /\ h.thinkOpen = g.thinkOpen /\ h.text = g.text /\ h.held = g.held
      /\ h.hold = g.hold /\ h.fence = g.fence /\ h.finish = g.finish /\ h.chunks = g.chunks
      /\ h.textAt = g.textAt /\ h.thinkAt = g.thinkAt /\ h.next = g.next
  BY <1>1 DEF Typed, Fields
<1> HIDE DEF h, m
<1>5. g.attempt \in Int /\ g.attempt <= g.attempt
  <2>1. g.attempt \in Int BY <1>1, Trying DEF InRange
  <2>2. QED BY <2>1
<1>6. Quieter(g, h) BY <1>4, <1>5 DEF Quieter, SamePlaces, KeepsCount
<1>7. InRange(h) /\ Voiced(h) BY <1>1, <1>3, <1>4 DEF InRange, Voiced
<1>8. Good(h) BY <1>2, <1>4, <1>6, <1>7, QuieterIsGood
<1>9. QED BY <1>4, <1>8 DEF AsGood, h

(* A delta of a call arrives. *)
LEMMA AnthropicToolDeltaMessage ==
  ASSUME KernelAssumption, DeltasAssumption, MessageInv, Handling("read"), prep.mode = "anthropic",
         NEW delta \in Deltas, A!ToolDelta(delta)
  PROVE  MessageInv'
<1> DEFINE h == [gen EXCEPT !.calls = Merged(@, delta[1], delta[2])]
<1>1. Good(gen) /\ Numbered(gen) BY HandlingGood
<1>2. A!Keep(h) /\ gen.chunks < MaxChunks BY AnthropicTexts DEF A!ToolDelta, A!Reading
<1>a. Framed => gen.textOpen \/ Heard(gen) = {} BY DEF Handling, Shown
<1>3. Good(h) /\ h.chunks = gen.chunks BY <1>1, <1>a, RecordingGood DEF AsGood
<1> HIDE DEF h
<1>4. gen' = [h EXCEPT !.chunks = @ + 1] /\ UNCHANGED <<req, prep, wire>> BY <1>2 DEF A!Keep
<1>5. gen.chunks \in 0..MaxChunks /\ prep.mode # "collected" BY <1>1 DEF Numbered
<1>6. QED BY <1>2, <1>3, <1>4, <1>5, KeepingMessage

(* The upstream is silent for too long. *)
LEMMA AnthropicStallMessage ==
  ASSUME KernelAssumption, MessageInv, Handling("read"), prep.mode = "anthropic", A!Stall
  PROVE  MessageInv'
<1>1. gen.text = {} /\ gen.calls = NoCalls /\ A!Retry(gen, A!LastChance(gen)) BY AnthropicTexts DEF A!Stall, A!Silent
<1>2. Good(gen) /\ Numbered(gen) /\ Framed BY HandlingGood
<1>3. Heard(gen) = {} BY <1>1, <1>2 DEF Good, Echo
<1>4. gen.chunks \in 0..MaxChunks /\ prep.mode # "collected" BY <1>2 DEF Numbered
<1>5. QED BY <1>1, <1>2, <1>3, <1>4, AnthropicRetryingMessage

(* The stream breaks. *)
LEMMA AnthropicStreamFailsMessage ==
  ASSUME KernelAssumption, MessageInv, Handling("read"), prep.mode = "anthropic", A!StreamFails
  PROVE  MessageInv'
<1> DEFINE g == [gen EXCEPT !.fault = "error"]
<1>1. Good(gen) /\ Numbered(gen) /\ Framed BY HandlingGood
<1>2. Equal(gen, g) BY <1>1 DEF Equal, Same, Good, Typed, Fields
<1>3. \/ g.text = {} /\ g.calls = NoCalls /\ A!Retry(g, A!LastChance(g))
      \/ A!Finish(g)
  BY AnthropicTexts DEF A!StreamFails, A!CanRetryErrorBeforeOutput, A!Silent
<1> HIDE DEF g
<1>4. Good(g) /\ Numbered(g) /\ g.chunks \in 0..MaxChunks BY <1>1, <1>2, EqualIsGood DEF AsGood, Numbered
<1>5. prep.mode # "collected" OBVIOUS
<1>6. CASE g.text = {} /\ g.calls = NoCalls /\ A!Retry(g, A!LastChance(g))
  <2>1. Heard(g) = {} BY <1>4, <1>6 DEF Good, Echo
  <2>2. QED BY <1>1, <1>4, <1>5, <1>6, <2>1, AnthropicRetryingMessage
<1>7. CASE A!Finish(g) BY <1>4, <1>5, <1>7, AnthropicFinishingMessage
<1>8. QED BY <1>3, <1>6, <1>7

(* What is held back is let go. *)
LEMMA LettingGoGood ==
  ASSUME KernelAssumption, NEW g, Good(g), NEW finish \in Finishes
  PROVE  AsGood(g, Pushed(Drained([g EXCEPT !.finish = finish]), Flushed(g.hold)))
<1> DEFINE x == [g EXCEPT !.finish = finish]
           d == Drained(x)
           h == Pushed(d, Flushed(g.hold))
<1>1. Same(g, x) /\ x.held = g.held /\ x.hold = g.hold /\ x.fence = g.fence /\ x.finish = finish
  BY DEF Same, Good, Typed, Fields
<1> HIDE DEF x
<1>2. InRange(x) BY <1>1 DEF Good, InRange, Same, Finishes
<1>3. Good(x) BY <1>1, <1>2, SameIsGood
<1>4. AsGood(x, d) /\ UpTo(Flushed(x.hold), x.attempt) BY <1>3, GuardsGood
<1> HIDE DEF d
<1>5. Good(d) /\ UpTo(Flushed(g.hold), d.attempt) BY <1>1, <1>4 DEF AsGood, Same
<1>6. Good(h) /\ h.attempt = d.attempt /\ h.chunks = d.chunks BY <1>5, PushingGood
<1> HIDE DEF h
<1>7. AsGood(g, h) BY <1>1, <1>4, <1>6 DEF AsGood, Same
<1>8. QED BY <1>7 DEF h, d, x

(* The upstream says that it is done. *)
LEMMA AnthropicStreamEndsMessage ==
  ASSUME KernelAssumption, MessageInv, Handling("read"), prep.mode = "anthropic",
         NEW finish \in Finishes, A!StreamEnds(finish)
  PROVE  MessageInv'
<1> DEFINE h == Pushed(Drained([gen EXCEPT !.finish = finish]), Flushed(gen.hold))
           t == Think(h, Flushed(gen.rhold))
<1>1. gen' = t /\ UNCHANGED <<req, prep, wire>> BY AnthropicTexts, AnthropicSaying DEF A!StreamEnds
<1>2. Good(gen) /\ Numbered(gen) /\ Framed BY HandlingGood
<1>3. AsGood(gen, h) BY <1>2, LettingGoGood
<1> HIDE DEF h
<1>4. Good(t) /\ Keeping(h, t) BY <1>2, <1>3, ThinkingGood DEF AsGood
<1> HIDE DEF t
<1>5. Numbered(t) BY <1>2, <1>3, <1>4 DEF Numbered, AsGood, Keeping
<1>6. prep.mode # "collected" OBVIOUS
<1>7. QED BY <1>1, <1>4, <1>5, <1>6, Continuing

(* Markup that was held back is dropped or becomes a call. *)
LEMMA AnthropicAfterLeakGood ==
  ASSUME KernelAssumption, Framed, NEW g, Good(g)
  PROVE  LET h == A!AfterLeak(g) IN
         AsGood(g, h) /\ (Equal(g, h) \/ (h.calls # NoCalls /\ ~A!OnlyIncomplete(h.calls)))
<1> DEFINE h == A!AfterLeak(g)
<1>1. Typed(g) /\ InRange(g) BY DEF Good
<1>2. CASE A!Repairs(g)
  <2>1. /\ DOMAIN h = Fields /\ h.out = g.out /\ h.attempt = g.attempt /\ h.calls = RepairedCall
        /\ h.chunks = g.chunks /\ h.started = g.started /\ h.textOpen = FALSE /\ h.thinkOpen = g.thinkOpen
        /\ h.held = {} /\ h.hold = {} /\ h.fence = g.fence /\ h.finish = g.finish
        /\ h.textAt = g.textAt /\ h.thinkAt = g.thinkAt /\ h.next = g.next
    BY <1>1, <1>2, AnthropicTexts DEF A!AfterLeak, A!Repaired, Typed, Fields
  <2>2. ~A!OnlyIncomplete(RepairedCall) BY Repairing DEF A!OnlyIncomplete, A!Streamable
  <2> HIDE DEF h
  <2>3. g.attempt \in Int /\ g.attempt <= g.attempt
    <3>1. g.attempt \in Int BY <1>1, Trying DEF InRange
    <3>2. QED BY <3>1
  <2>4. Quieter(g, h) BY <2>1, <2>3 DEF Quieter, SamePlaces, KeepsCount
  <2>5. InRange(h)
    <3>1. \A k \in DOMAIN RepairedCall : RepairedCall[k] \in Whats
      <4>1. \A k \in DOMAIN RepairedCall : RepairedCall[k] = "repaired" BY DEF RepairedCall, Merged, NoCalls
      <4>2. QED BY <4>1 DEF Whats
    <3>2. UpTo(h.held \cup h.hold, h.attempt) BY <2>1 DEF UpTo
    <3>3. QED BY <1>1, <2>1, <3>1, <3>2 DEF InRange
  <2>6. Voiced(h) BY DEF Voiced
  <2>7. IsFiniteSet(DOMAIN h.calls) /\ DOMAIN h.calls \subseteq Nat /\ h.calls # NoCalls BY <2>1, Repairing
  <2>8. Good(h) BY <2>4, <2>5, <2>6, <2>7, QuieterIsGood
  <2>9. QED BY <2>1, <2>2, <2>7, <2>8 DEF AsGood, h
<1>3. CASE ~A!Repairs(g)
  <2>1. Equal(g, h) BY <1>1, <1>3 DEF A!AfterLeak, Equal, Same, Typed, Fields
  <2> HIDE DEF h
  <2>2. QED BY <2>1, EqualIsGood DEF h
<1>4. QED BY <1>2, <1>3

\* h is g without some of what it keeps.
Forgets(g, h) ==
  /\ DOMAIN h = Fields /\ h.out = g.out /\ h.attempt = g.attempt /\ h.chunks = g.chunks
  /\ h.started = g.started /\ h.textOpen = g.textOpen /\ (h.thinkOpen => g.thinkOpen)
  /\ h.held \subseteq g.held /\ h.hold = g.hold /\ h.fence = g.fence /\ h.finish = g.finish
  /\ h.calls \in {g.calls, NoCalls} /\ h.text \in {g.text, {}}
  /\ h.textAt = g.textAt /\ h.thinkAt = g.thinkAt /\ h.next = g.next

(* What may be forgotten when nothing was heard. *)
LEMMA ForgettingIsGood ==
  ASSUME KernelAssumption, Framed, NEW g, Good(g), NEW h, Forgets(g, h), Heard(g) = {}, h.text = {}
  PROVE  AsGood(g, h) /\ Heard(h) = {}
<1>1. Typed(g) /\ InRange(g) BY DEF Good
<1>2. g.attempt \in Int /\ g.attempt <= g.attempt
  <2>1. g.attempt \in Int BY <1>1, Trying DEF InRange
  <2>2. QED BY <2>1
<1>3. Quieter(g, h) BY <1>2 DEF Quieter, Forgets, SamePlaces, KeepsCount
<1>4. DOMAIN NoCalls = {} BY DEF NoCalls
<1>5. InRange(h)
  <2>1. UpTo(h.held \cup h.hold, h.attempt) BY <1>1 DEF InRange, UpTo, Forgets
  <2>2. \A k \in DOMAIN h.calls : h.calls[k] \in Whats BY <1>1, <1>4 DEF InRange, Forgets
  <2>3. QED BY <1>1, <2>1, <2>2 DEF InRange, Forgets
<1>6. Voiced(h) BY DEF Voiced
<1>7. IsFiniteSet(DOMAIN h.calls) /\ DOMAIN h.calls \subseteq Nat BY <1>1, NoCallsTyped DEF Typed, Forgets
<1>8. QED BY <1>3, <1>5, <1>6, <1>7, QuieterIsGood DEF AsGood, Forgets

(* The handler decides between an answer, another attempt and an error. *)
LEMMA AnthropicSettleMessage ==
  ASSUME KernelAssumption, MessageInv, Handling("settle"), prep.mode = "anthropic", A!Settle
  PROVE  MessageInv'
<1> DEFINE g == A!AfterLeak(gen)
           forgotten  == [g EXCEPT !.text = {}, !.held = {}, !.reasoning = {}]
           uncalled   == [g EXCEPT !.calls = A!NoCalls]
           incomplete == [g EXCEPT !.fault = "incomplete"]
           unthought  == [g EXCEPT !.reasoning = {}, !.thinkOpen = FALSE]
<1>1. Good(gen) /\ Numbered(gen) /\ Framed BY HandlingGood
<1>2. AsGood(gen, g) /\ (Equal(gen, g) \/ (g.calls # NoCalls /\ ~A!OnlyIncomplete(g.calls)))
  BY <1>1, AnthropicAfterLeakGood
<1>3. \/ A!RetriesLeak(gen) /\ A!Retry(gen, {"compat"})
      \/ A!RetriesUnfinished(g) /\ A!Retry(forgotten, {"missing"})
      \/ A!Incomplete(g) /\ A!Retry(uncalled, A!LastChance(g))
      \/ A!Finish(incomplete)
      \/ A!RetriesReasoning(g) /\ A!Retry(unthought, {"missing"})
      \/ A!Finish(g)
  BY DEF A!Settle
<1> HIDE DEF g
<1>4. Good(g) /\ Typed(g) /\ Numbered(g) /\ g.chunks \in 0..MaxChunks
  BY <1>1, <1>2 DEF AsGood, Good, Numbered
<1>5. Forgets(g, forgotten) /\ forgotten.text = {} BY <1>4 DEF Forgets, Typed, Fields
<1>6. Forgets(g, uncalled) /\ uncalled.text = g.text BY <1>4, AnthropicTexts DEF Forgets, Typed, Fields
<1>7. Forgets(g, unthought) /\ unthought.text = g.text BY <1>4 DEF Forgets, Typed, Fields
<1>8. Equal(g, incomplete) BY <1>4 DEF Equal, Same, Typed, Fields
<1> HIDE DEF forgotten, uncalled, incomplete, unthought
<1>9. prep.mode # "collected" OBVIOUS
<1>10. Equal(gen, g) => Heard(g) = Heard(gen) /\ g.text = gen.text /\ g.textOpen = gen.textOpen
  BY <1>1, EqualIsGood DEF Equal, Same
<1>11. Equal(gen, g) /\ g.text = {} => Heard(g) = {} BY <1>10 DEF Handling, Shown
<1>12. ASSUME NEW h, Forgets(g, h), h.text = {}, Heard(g) = {}, NEW tried, A!Retry(h, tried) PROVE MessageInv'
  <2>1. AsGood(g, h) /\ Heard(h) = {} BY <1>1, <1>4, <1>12, ForgettingIsGood
  <2>2. Good(h) /\ h.chunks \in 0..MaxChunks BY <1>4, <2>1 DEF AsGood
  <2>3. QED BY <1>1, <1>9, <1>12, <2>1, <2>2, AnthropicRetryingMessage
<1>13. CASE A!RetriesLeak(gen) /\ A!Retry(gen, {"compat"})
  <2>1. ~gen.started BY <1>13 DEF A!RetriesLeak
  <2>2. Heard(gen) = {} BY <2>1 DEF Handling, Sound, Begun
  <2>3. gen.chunks \in 0..MaxChunks BY <1>1 DEF Numbered
  <2>4. QED BY <1>1, <1>9, <1>13, <2>2, <2>3, AnthropicRetryingMessage
<1>14. CASE A!RetriesUnfinished(g) /\ A!Retry(forgotten, {"missing"})
  <2>1. g.calls = NoCalls /\ ~g.textOpen BY <1>14, AnthropicTexts DEF A!RetriesUnfinished
  <2>2. Heard(g) = {} BY <1>1, <1>2, <1>10, <2>1 DEF Handling, Shown
  <2>3. QED BY <1>5, <1>12, <1>14, <2>2
<1>15. CASE A!Incomplete(g) /\ A!Retry(uncalled, A!LastChance(g))
  <2>1. g.text = {} /\ A!OnlyIncomplete(g.calls) BY <1>15 DEF A!Incomplete
  <2>2. QED BY <1>2, <1>6, <1>11, <1>12, <1>15, <2>1
<1>16. CASE A!Finish(incomplete)
  <2>1. Good(incomplete) /\ Numbered(incomplete) BY <1>4, <1>8, EqualIsGood DEF AsGood
  <2>2. QED BY <1>9, <1>16, <2>1, AnthropicFinishingMessage
<1>17. CASE A!RetriesReasoning(g) /\ A!Retry(unthought, {"missing"})
  <2>1. g.calls = NoCalls /\ g.text = {} BY <1>17, AnthropicTexts DEF A!RetriesReasoning, A!Silent
  <2>2. QED BY <1>2, <1>7, <1>11, <1>12, <1>17, <2>1
<1>18. CASE A!Finish(g) BY <1>4, <1>9, <1>18, AnthropicFinishingMessage
<1>19. QED BY <1>3, <1>13, <1>14, <1>15, <1>16, <1>17, <1>18

(* Words of the kernel's own may be said, and are no announcement. *)
LEMMA SayingOwnGood ==
  ASSUME KernelAssumption, NEW g, Good(g)
  PROVE  LET h == Say(g, Own(g)) IN
         AsGood(g, h) /\ Keeping(g, h) /\ h.started = TRUE /\ h.textOpen = Framed /\ ~Unfinished(h.text)
<1> DEFINE h == Say(g, Own(g))
<1>1. g.attempt \in Tries /\ Typed(g) BY DEF Good, InRange
<1>2. UpTo(Own(g), g.attempt) /\ ~Unfinished(g.text \cup Own(g)) BY <1>1, OwnIsUpTo
<1>3. Good(h) /\ Keeping(g, h) /\ h.text = g.text \cup Own(g) BY <1>2, SayingGood
<1>4. h.started = TRUE /\ h.textOpen = Framed BY <1>1, OwnIsClean DEF Say, Typed, Fields
<1> HIDE DEF h
<1>5. QED BY <1>2, <1>3, <1>4 DEF AsGood, Keeping, h

\* h is what c becomes at the end: it says no more, or ends with words of its own.
Completes(c, h) ==
  /\ AsGood(c, h) /\ h.calls = c.calls /\ h.finish = c.finish
  /\ h.text = c.text \/ ~Unfinished(h.text)

(* The held text is said at the end. *)
LEMMA AnthropicCompleteGood ==
  ASSUME KernelAssumption, NEW g, Good(g)
  PROVE  LET c == A!Complete(g) IN
         /\ AsGood(g, c) /\ c.calls = g.calls
         /\ c.text = IF g.fault = "none" THEN g.text \cup g.held ELSE g.text
         /\ A!Shortened(g) => c.finish = "length"
<1> DEFINE s == Say(g, g.held)
           l == A!Leftover(g)
           c == A!Complete(g)
<1>1. Typed(g) /\ InRange(g) /\ UpTo(g.held, g.attempt) /\ UpTo(g.hold, g.attempt) BY Upwards DEF Good, InRange
<1>2. AsGood(g, l) /\ l.calls = g.calls /\ l.text = IF g.fault = "none" THEN g.text \cup g.held ELSE g.text
  <2>1. l = IF g.fault = "none" THEN [s EXCEPT !.held = {}] ELSE g BY AnthropicSaying DEF A!Leftover
  <2>2. Good(s) /\ Keeping(g, s) /\ s.text = g.text \cup g.held BY <1>1, SayingGood
  <2> HIDE DEF s, l
  <2>3. CASE g.fault # "none" BY <2>1, <2>3 DEF AsGood
  <2>4. CASE g.fault = "none"
    <3>1. Same(s, l) /\ l.held = {} /\ l.hold = s.hold /\ l.fence = s.fence /\ l.finish = s.finish
      BY <2>1, <2>2, <2>4 DEF Same, Good, Typed, Fields
    <3>2. UpTo(l.held \cup l.hold, l.attempt) BY <1>1, <2>2, <3>1, Upwards DEF Same, Keeping
    <3>3. InRange(l) BY <2>2, <3>1, <3>2 DEF InRange, Same, Good
    <3>4. Good(l) BY <2>2, <3>1, <3>3, SameIsGood
    <3>5. QED BY <2>2, <2>4, <3>1, <3>4 DEF AsGood, Same, Keeping
  <2>5. QED BY <2>3, <2>4
<1>3. c = [l EXCEPT !.finish = IF A!Shortened(g) THEN "length" ELSE @] BY DEF A!Complete
<1> HIDE DEF l, c
<1>4. /\ Same(l, c) /\ c.held = l.held /\ c.hold = l.hold /\ c.fence = l.fence
      /\ c.finish = IF A!Shortened(g) THEN "length" ELSE l.finish
  BY <1>2, <1>3 DEF AsGood, Same, Good, Typed, Fields
<1>5. InRange(c) BY <1>2, <1>4 DEF AsGood, InRange, Same, Good
<1>6. Good(c) BY <1>2, <1>4, <1>5, SameIsGood DEF AsGood
<1>7. QED BY <1>2, <1>4, <1>6 DEF AsGood, Same, c

(* So are words of the kernel's own. *)
LEMMA AnthropicLastGood ==
  ASSUME KernelAssumption, Framed, NEW c, Good(c), NEW long
  PROVE  Completes(c, A!Answered(A!Bridged(A!CloseFence(c), long)))
<1>1. Completes(c, c) BY DEF Completes, AsGood
<1>2. ASSUME NEW g, Completes(c, g) PROVE Completes(c, Say(g, Own(g)))
  <2> DEFINE h == Say(g, Own(g))
  <2>1. AsGood(g, h) /\ Keeping(g, h) /\ ~Unfinished(h.text) BY <1>2, SayingOwnGood DEF Completes, AsGood
  <2> HIDE DEF h
  <2>2. Completes(c, h) BY <1>2, <2>1 DEF Completes, AsGood, Keeping
  <2>3. QED BY <2>2 DEF h
<1>3. ASSUME NEW g, Completes(c, g) PROVE Completes(c, A!CloseFence(g))
  <2> DEFINE s == Say(g, Own(g))
             h == [s EXCEPT !.started = g.started, !.fence = FALSE]
  <2>1. A!CloseFence(g) = IF g.fence THEN h ELSE g BY AnthropicSaying DEF A!CloseFence
  <2>2. CASE ~g.fence BY <1>3, <2>1, <2>2
  <2>3. CASE g.fence
    <3>1. Completes(c, s) BY <1>2, <1>3
    <3>2. Good(g) /\ s.started = TRUE BY <1>3, SayingOwnGood DEF Completes, AsGood
    <3>3. ~Strict BY <2>3, <3>2 DEF Strict, Good, InRange
    <3>4. Good(s) /\ Typed(s) /\ InRange(s) BY <3>1 DEF Completes, AsGood, Good
    <3>5. s.attempt \in Int /\ s.attempt <= s.attempt
      <4>1. s.attempt \in Int BY <3>4, Trying DEF InRange
      <4> HIDE DEF s
      <4>2. QED BY <4>1
    <3> HIDE DEF s
    <3>6. /\ DOMAIN h = Fields /\ h.out = s.out /\ h.attempt = s.attempt /\ h.chunks = s.chunks /\ h.calls = s.calls
          /\ h.textOpen = s.textOpen /\ h.thinkOpen = s.thinkOpen /\ h.text = s.text /\ h.finish = s.finish
          /\ h.held = s.held /\ h.hold = s.hold /\ ~h.fence
          /\ h.textAt = s.textAt /\ h.thinkAt = s.thinkAt /\ h.next = s.next
      BY <3>4 DEF Typed, Fields
    <3> HIDE DEF h
    <3>7. Quieter(s, h) BY <3>2, <3>3, <3>5, <3>6 DEF Quieter, SamePlaces, KeepsCount
    <3>8. InRange(h) BY <3>4, <3>6 DEF InRange
    <3>9. Voiced(h) BY DEF Voiced
    <3>10. Good(h) BY <3>4, <3>6, <3>7, <3>8, <3>9, QuieterIsGood DEF Typed, Good, Echo
    <3>11. Completes(c, h) BY <3>1, <3>6, <3>10 DEF Completes, AsGood
    <3>12. QED BY <2>1, <2>3, <3>11
  <2>4. QED BY <2>2, <2>3
<1>4. ASSUME NEW g, Completes(c, g) PROVE Completes(c, A!Bridged(g, long))
  <2>1. A!Bridged(g, long) = IF A!Bridges(g, long) THEN Say(g, Own(g)) ELSE g BY AnthropicSaying DEF A!Bridged
  <2>2. QED BY <1>2, <1>4, <2>1
<1>5. ASSUME NEW g, Completes(c, g) PROVE Completes(c, A!Answered(g))
  <2> DEFINE h == [g EXCEPT !.textOpen = FALSE]
  <2>1. (g.text = {} /\ g.calls = NoCalls /\ A!Answered(g) = Say(h, Own(g))) \/ A!Answered(g) = g
    BY AnthropicSaying, AnthropicTexts DEF A!Answered, A!Nothing
  <2>2. Good(g) /\ Typed(g) /\ InRange(g) BY <1>5 DEF Completes, AsGood, Good
  <2>3. g.attempt \in Int /\ g.attempt <= g.attempt
    <3>1. g.attempt \in Int BY <2>2, Trying DEF InRange
    <3>2. QED BY <3>1
  <2>4. /\ DOMAIN h = Fields /\ h.out = g.out /\ h.attempt = g.attempt /\ h.chunks = g.chunks /\ h.calls = g.calls
        /\ ~h.textOpen /\ h.thinkOpen = g.thinkOpen /\ h.text = g.text /\ h.finish = g.finish
        /\ h.held = g.held /\ h.hold = g.hold /\ h.fence = g.fence /\ h.started = g.started
        /\ h.textAt = g.textAt /\ h.thinkAt = g.thinkAt /\ h.next = g.next
    BY <2>2 DEF Typed, Fields
  <2>5. Own(g) = Own(h) BY <2>4 DEF Own
  <2> HIDE DEF h
  <2>6. CASE A!Answered(g) = g BY <1>5, <2>6
  <2>7. CASE g.text = {} /\ g.calls = NoCalls /\ A!Answered(g) = Say(h, Own(g))
    <3>1. Heard(g) = {} BY <2>2, <2>7 DEF Good, Echo
    <3>2. Quieter(g, h) BY <2>3, <2>4, <3>1 DEF Quieter, SamePlaces, KeepsCount
    <3>3. InRange(h) BY <2>2, <2>4 DEF InRange
    <3>4. Voiced(h) BY DEF Voiced
    <3>5. Good(h) BY <2>2, <2>4, <3>2, <3>3, <3>4, QuieterIsGood DEF Typed, Good, Echo
    <3>6. Completes(c, h) BY <1>5, <2>4, <3>5 DEF Completes, AsGood
    <3>7. QED BY <1>2, <2>5, <2>7, <3>6
  <2>8. QED BY <2>1, <2>6, <2>7
<1>6. QED BY <1>1, <1>3, <1>4, <1>5

(* An announcement without its call is said to be cut off. *)
LEMMA AnthropicShortening ==
  ASSUME NEW g, ~A!Broken(g), g.calls = NoCalls, req.cc, OffersTools,
         Unfinished(IF g.fault = "none" THEN g.text \cup g.held ELSE g.text)
  PROVE  A!Shortened(g)
<1>1. \A text : (A!Unfinished(text) <=> Unfinished(text)) /\ (A!Leaky(text) <=> Leaky(text))
  BY DEF A!Unfinished, A!Has, Unfinished, Has, A!Leaky, Leaky
<1>2. (A!OffersTools <=> OffersTools) /\ A!NoCalls = NoCalls BY AnthropicTexts DEF A!OffersTools, OffersTools
<1>3. CASE g.fault = "none" BY <1>1, <1>2, <1>3 DEF A!Shortened
<1>4. CASE g.fault # "none"
  <2>1. ~A!Leaking(g) BY <1>4 DEF A!Broken
  <2>2. ~g.leaked /\ ~Leaky(g.text \cup g.reasoning \cup g.blob) BY <1>1, <1>2, <2>1 DEF A!Leaking, A!Markup
  <2>3. ~Leaky(g.text) BY <2>2 DEF Leaky, Has
  <2>4. g.text # {} BY <1>4 DEF Unfinished, Has
  <2>5. QED BY <1>1, <1>4, <2>2, <2>3, <2>4 DEF A!Shortened
<1>5. QED BY <1>3, <1>4

(* The last events are sent. *)
LEMMA AnthropicEndMessage ==
  ASSUME KernelAssumption, MessageInv, Handling("finish"), prep.mode = "anthropic", NEW long, A!End(long)
  PROVE  MessageInv'
<1> DEFINE c      == A!Complete(gen)
           g      == A!Answered(A!Bridged(A!CloseFence(c), long))
           start  == IF g.calls # A!NoCalls THEN A!Starting(g) ELSE <<>>
           K      == A!Emitted(g)
           failed == g.calls # A!NoCalls /\ K = {}
           last   == IF failed THEN "error" ELSE IF K # {} THEN "tool_use" ELSE g.finish
           r      == g.out \o A!Closings(g) \o start \o A!InOrder(g, K) \o <<A!Ended(last)>>
<1>1. \/ A!Fail(gen) \/ A!Fail(g)
      \/ ~A!Broken(gen) /\ gen' = [g EXCEPT !.out = r] /\ stage' = "done" /\ UNCHANGED <<req, prep, wire>>
  BY DEF A!End
<1>2. Good(gen) /\ Numbered(gen) /\ Framed BY HandlingGood
<1>3. /\ AsGood(gen, c) /\ c.calls = gen.calls
      /\ c.text = IF gen.fault = "none" THEN gen.text \cup gen.held ELSE gen.text
      /\ A!Shortened(gen) => c.finish = "length"
  BY <1>2, AnthropicCompleteGood
<1> HIDE DEF c
<1>4. Completes(c, g) BY <1>2, <1>3, AnthropicLastGood DEF AsGood
<1>5. r = Concluded((g.out \o A!Closings(g)) \o start, g, K, last) BY AnthropicTexts, AnthropicSaying DEF Concluded
<1>6. K = IF req.cc THEN Deduplicated(g.calls, Streamable(g.calls)) ELSE Streamable(g.calls)
  BY AnthropicTexts DEF A!Emitted, A!Deduplicated, Deduplicated
<1>7. start = IF g.calls # NoCalls THEN Starting(g) ELSE <<>> BY AnthropicTexts, AnthropicSaying
<1>8. last = IF g.calls # NoCalls /\ K = {} THEN "error" ELSE IF K # {} THEN "tool_use" ELSE g.finish
  BY AnthropicTexts
<1> HIDE DEF g, start, K, failed, last, r
<1>9. Good(g) /\ Typed(g) /\ InRange(g) /\ Numbered(g) /\ g.calls = gen.calls
  BY <1>2, <1>3, <1>4 DEF Completes, AsGood, Numbered, Good
<1>10. CASE A!Fail(gen) \/ A!Fail(g) BY <1>2, <1>9, <1>10, AnthropicFailingMessage
<1>11. CASE ~A!Broken(gen) /\ gen' = [g EXCEPT !.out = r] /\ stage' = "done" /\ UNCHANGED <<req, prep, wire>>
  <2>1. PICK v : Leads(wire, g.out, v) /\ Tells(g, v) BY <1>9 DEF Good, Tell
  <2>2. PICK u : /\ Leads(v, A!Closings(g), u) /\ Rests(v, u)
                 /\ ~g.textOpen => u.blocks["text"] = v.blocks["text"]
    BY <1>2, <2>1, ClosingBlocks
  <2>3. Listed(A!Closings(g)) BY <1>2, <2>1, ClosingBlocks
  <2>4. /\ Sane(u) /\ u.given = <<>> /\ u.phase # "ended" /\ (g.started => u.phase = "open")
        /\ (Strict /\ ~g.started => u.starts = 0) /\ u.text = v.text
    BY <2>1, <2>2 DEF Rests, Tells
  <2>5. PICK w : Leads(u, start, w) /\ Sane(w) /\ w.given = <<>> /\ w.phase # "ended" /\ w.text = v.text
                 /\ (g.calls # NoCalls => w.phase = "open") /\ w.top = u.top /\ w.blocks = u.blocks
    <3>1. CASE g.calls = NoCalls
      <4>1. start = <<>> BY <1>7, <3>1
      <4>2. Leads(u, <<>>, u) BY Standing
      <4>3. QED BY <2>4, <3>1, <4>1, <4>2
    <3>2. CASE g.calls # NoCalls
      <4>1. start = Starting(g) BY <1>7, <3>2
      <4>2. PICK w : Leads(u, Starting(g), w) /\ Ongoing(w) /\ w.blocks = u.blocks /\ w.top = u.top /\ w.text = u.text
        BY <2>4, Beginning
      <4>3. QED BY <2>4, <4>1, <4>2 DEF Ongoing
    <3>3. QED BY <3>1, <3>2
  <2>6. Listed(g.out) /\ Listed(start) BY <1>7, <1>9, Short, Quieten DEF Typed, Quiet
  <2>7. Listed(g.out \o A!Closings(g)) /\ Listed((g.out \o A!Closings(g)) \o start)
    <3>1. Listed(g.out \o A!Closings(g)) BY <2>3, <2>6, Concatenation
    <3>2. QED BY <2>6, <3>1, Concatenation
  <2>8. Leads(wire, g.out \o A!Closings(g), u) BY <2>1, <2>2, <2>3, <2>6, Onward
  <2>9. Leads(wire, (g.out \o A!Closings(g)) \o start, w) BY <2>5, <2>6, <2>7, <2>8, Onward
  <2>10. /\ IsFiniteSet(K) /\ K \subseteq Nat /\ K \subseteq DOMAIN g.calls
    <3>1. Streamable(g.calls) \subseteq DOMAIN g.calls BY DEF Streamable
    <3>2. K \subseteq DOMAIN g.calls BY <1>6, <3>1 DEF Deduplicated
    <3>3. QED BY <1>6, <1>9, <3>2, Emitting DEF Typed
  <2>11. (\A k \in K : g.calls[k] \in Whats) /\ (K # {} => g.calls # NoCalls) /\ last \in Stops
         /\ g.attempt \in Tries /\ UpTo(w.text, g.attempt)
    <3>1. K # {} => g.calls # NoCalls
      <4>1. DOMAIN NoCalls = {} BY DEF NoCalls
      <4>2. QED BY <2>10, <4>1
    <3>2. last \in Stops BY <1>8, <1>9 DEF InRange, Stops
    <3>3. QED BY <1>9, <2>1, <2>5, <2>10, <3>1, <3>2 DEF InRange, Tells
  <2>a. w.top = v.top /\ (~g.textOpen => w.blocks["text"] = v.blocks["text"]) BY <2>2, <2>5 DEF Rests
  <2>b. Addressed(g, K, w) BY <1>2, <2>1, <2>5, <2>10, <2>a, Numbering
  <2>12. Sent(Concluded((g.out \o A!Closings(g)) \o start, g, K, last), w.text, K, last)
    BY <2>5, <2>7, <2>9, <2>10, <2>11, <2>b, Sending
  <2>13. gen'.out = r /\ gen'.attempt = g.attempt /\ gen'.chunks = g.chunks BY <1>9, <1>11 DEF Typed, Fields
  <2>14. Sent(gen'.out, v.text, K, last) BY <1>5, <2>5, <2>12, <2>13
  <2>15. ASSUME req.cc, OffersTools, Unfinished(v.text), K = {} PROVE last # "stop"
    <3>1. CASE g.calls # NoCalls BY <1>8, <2>15, <3>1
    <3>2. CASE g.calls = NoCalls
      <4>1. v.text = g.text BY <1>9, <2>1, <3>2 DEF Tells, Good, Echo
      <4>2. g.text = c.text /\ g.finish = c.finish BY <1>4, <2>15, <4>1 DEF Completes
      <4>3. A!Shortened(gen) BY <1>3, <1>9, <1>11, <2>15, <3>2, <4>1, <4>2, AnthropicShortening
      <4>4. QED BY <1>3, <1>8, <2>15, <3>2, <4>2, <4>3
    <3>3. QED BY <3>1, <3>2
  <2>16. Numbered(gen') BY <1>9, <2>13 DEF Numbered
  <2>17. QED BY <1>11, <2>14, <2>15, <2>16, Ending
<1>12. QED BY <1>1, <1>10, <1>11

-----------------------------------------------------------------------------
(* The OpenAI handler, with respect to the message *)

(* An attempt is given up: the message has not started. *)
LEMMA OpenAiRetryingMessage ==
  ASSUME KernelAssumption, MessageInv, prep.mode # "collected", ~Framed,
         NEW g, Good(g), Heard(g) = {}, ~g.started, O!More(g), O!Retry(g)
  PROVE  MessageInv'
<1> DEFINE h == O!Again(g)
           n == g.attempt + 1
<1>1. gen' = h /\ UNCHANGED <<req, prep, wire>> BY DEF O!Retry
<1>2. h = [FreshGen EXCEPT !.attempt = g.attempt + 1, !.used = g.used, !.out = g.out]
  BY OpenAiTexts DEF O!Again
<1>3. /\ DOMAIN h = Fields /\ h.out = g.out /\ h.calls = NoCalls /\ h.held = {} /\ h.hold = {} /\ h.text = {}
      /\ ~h.started /\ ~h.textOpen /\ ~h.thinkOpen /\ ~h.fence /\ h.finish = "stop"
      /\ h.attempt = n /\ h.chunks = 0
  BY <1>2 DEF Fields, FreshGen
<1> HIDE DEF h
<1>4. n \in Tries /\ g.attempt \in Int /\ n \in Int /\ g.attempt <= n
  <2>1. g.attempt \in 0..Attempts - 1 /\ Attempts \in Nat /\ g.attempt + 1 < Attempts
    BY DEF Good, InRange, Tries, KernelAssumption, O!More
  <2>2. n \in 0..Attempts - 1 /\ g.attempt \in Int /\ n \in Int /\ g.attempt <= n BY <2>1
  <2>3. QED BY <2>2 DEF Tries
<1> HIDE DEF n
<1>5. Quieter(g, h) BY <1>3, <1>4 DEF Quieter
<1>6. InRange(h)
  <2>1. DOMAIN h.calls = {} BY <1>3 DEF NoCalls
  <2>2. UpTo(h.held \cup h.hold, h.attempt) BY <1>3 DEF UpTo
  <2>3. QED BY <1>3, <1>4, <2>1, <2>2 DEF InRange
<1>7. Voiced(h) BY <1>3 DEF Voiced
<1>8. Good(h) BY <1>3, <1>5, <1>6, <1>7, NoCallsTyped, QuieterIsGood
<1>9. 0 \in 0..MaxChunks BY DEF KernelAssumption
<1>10. Numbered(h) BY <1>3, <1>4, <1>9 DEF Numbered
<1>11. QED BY <1>1, <1>8, <1>10, Continuing

(* The answer ends with an error. *)
LEMMA OpenAiFailingMessage ==
  ASSUME MessageInv, NEW g, Good(g), Numbered(g), O!Fail(g)
  PROVE  MessageInv'
<1>1. gen' = [g EXCEPT !.out = @ \o <<Ended("error")>>] /\ stage' = "done" /\ UNCHANGED <<req, prep, wire>>
  BY OpenAiTexts DEF O!Fail
<1>2. QED BY <1>1, Aborting DEF Good

(* The upstream refuses or cannot be reached. *)
LEMMA OpenAiFetchFailsMessage ==
  ASSUME KernelAssumption, MessageInv, Handling("fetch"), prep.mode = "openai", NEW error, O!FetchFails(error)
  PROVE  MessageInv'
<1> DEFINE g == [gen EXCEPT !.used = @ \cup {"missing"}]
<1>1. Good(gen) /\ Numbered(gen) BY HandlingGood
<1>2. Equal(gen, g) BY <1>1 DEF Equal, Same, Good, Typed, Fields
<1>3. (gen' = g /\ UNCHANGED <<req, stage, prep, wire>>) \/ O!Fail(gen) BY DEF O!FetchFails
<1> HIDE DEF g
<1>4. Good(g) /\ Numbered(g) BY <1>1, <1>2, EqualIsGood DEF AsGood
<1>5. prep.mode # "collected" OBVIOUS
<1>6. CASE gen' = g /\ UNCHANGED <<req, stage, prep, wire>> BY <1>4, <1>5, <1>6, Continuing
<1>7. CASE O!Fail(gen) BY <1>1, <1>7, OpenAiFailingMessage
<1>8. QED BY <1>3, <1>6, <1>7

(* A piece of text arrives. *)
LEMMA OpenAiContentMessage ==
  ASSUME KernelAssumption, MessageInv, Handling("read"), prep.mode = "openai", NEW kind, O!Content(kind)
  PROVE  MessageInv'
<1> DEFINE piece    == Piece(kind, gen.attempt)
           released == Released(gen.hold, piece)
           h        == Guarding(gen, piece)
           g        == [h EXCEPT !.fence = @ \/ (~req.cc /\ Has(released, {"fence"}))]
           said     == Pushed(g, released)
<1>1. Good(gen) /\ Numbered(gen) BY HandlingGood
<1>2. O!Keep(said) /\ gen.chunks < MaxChunks
  <2>1. \A text, kinds : O!Has(text, kinds) <=> Has(text, kinds) BY DEF O!Has, Has
  <2>2. QED BY <2>1, OpenAiTexts, OpenAiSaying DEF O!Content, O!Reading
<1>3. AsGood(gen, h) /\ UpTo(released, gen.attempt) BY <1>1, GuardsGood
<1> HIDE DEF h, released
<1>4. Good(g) /\ g.attempt = h.attempt /\ g.chunks = h.chunks
  <2>1. /\ Same(h, g) /\ g.held = h.held /\ g.hold = h.hold /\ g.finish = h.finish
        /\ g.fence = (h.fence \/ (~req.cc /\ Has(released, {"fence"})))
    BY <1>3 DEF Same, AsGood, Good, Typed, Fields
  <2> HIDE DEF g
  <2>2. InRange(g) BY <1>3, <2>1 DEF InRange, Same, Good, AsGood
  <2>3. QED BY <1>3, <2>1, <2>2, SameIsGood DEF Same, AsGood
<1> HIDE DEF g
<1>5. UpTo(released, g.attempt) BY <1>3, <1>4 DEF AsGood
<1>6. Good(said) /\ said.chunks = gen.chunks BY <1>3, <1>4, <1>5, PushingGood DEF AsGood
<1> HIDE DEF said
<1>7. gen' = [said EXCEPT !.chunks = @ + 1] /\ UNCHANGED <<req, prep, wire>> BY <1>2 DEF O!Keep
<1>8. gen.chunks \in 0..MaxChunks /\ prep.mode # "collected" BY <1>1 DEF Numbered
<1>9. QED BY <1>2, <1>6, <1>7, <1>8, KeepingMessage

(* A piece of reasoning arrives. *)
LEMMA OpenAiReasoningMessage ==
  ASSUME KernelAssumption, MessageInv, Handling("read"), prep.mode = "openai", NEW kind, O!Reasoning(kind)
  PROVE  MessageInv'
<1> DEFINE piece == Piece(kind, gen.attempt)
           h     == GuardingReasoning(gen, piece)
           g     == [h EXCEPT !.reasoning = @ \cup Released(gen.rhold, piece)]
<1>1. Good(gen) /\ Numbered(gen) BY HandlingGood
<1>2. O!Keep(g) /\ gen.chunks < MaxChunks BY OpenAiTexts, OpenAiSaying DEF O!Reasoning, O!Reading
<1>3. AsGood(gen, h) BY <1>1, GuardsGood
<1> HIDE DEF h
<1>4. Equal(h, g) BY <1>3 DEF Equal, Same, AsGood, Good, Typed, Fields
<1> HIDE DEF g
<1>5. Good(g) /\ g.chunks = gen.chunks BY <1>3, <1>4, EqualIsGood DEF AsGood
<1>6. gen' = [g EXCEPT !.chunks = @ + 1] /\ UNCHANGED <<req, prep, wire>> BY <1>2 DEF O!Keep
<1>7. gen.chunks \in 0..MaxChunks /\ prep.mode # "collected" BY <1>1 DEF Numbered
<1>8. QED BY <1>2, <1>5, <1>6, <1>7, KeepingMessage

(* A delta of a call arrives. *)
LEMMA OpenAiToolDeltaMessage ==
  ASSUME KernelAssumption, DeltasAssumption, MessageInv, Handling("read"), prep.mode = "openai",
         NEW delta \in Deltas, O!ToolDelta(delta)
  PROVE  MessageInv'
<1> DEFINE h == [gen EXCEPT !.calls = Merged(@, delta[1], delta[2])]
<1>1. Good(gen) /\ Numbered(gen) /\ ~Framed BY HandlingGood
<1>2. O!Keep(h) /\ gen.chunks < MaxChunks BY OpenAiTexts DEF O!ToolDelta, O!Reading
<1>3. Good(h) /\ h.chunks = gen.chunks BY <1>1, RecordingGood DEF AsGood
<1> HIDE DEF h
<1>4. gen' = [h EXCEPT !.chunks = @ + 1] /\ UNCHANGED <<req, prep, wire>> BY <1>2 DEF O!Keep
<1>5. gen.chunks \in 0..MaxChunks /\ prep.mode # "collected" BY <1>1 DEF Numbered
<1>6. QED BY <1>2, <1>3, <1>4, <1>5, KeepingMessage

(* The stream breaks. *)
LEMMA OpenAiStreamFailsMessage ==
  ASSUME KernelAssumption, MessageInv, Handling("read"), prep.mode = "openai", O!StreamFails
  PROVE  MessageInv'
<1>1. (~gen.started /\ O!More(gen) /\ O!Retry(gen)) \/ O!Fail(gen) BY DEF O!StreamFails
<1>2. Good(gen) /\ Numbered(gen) /\ ~Framed /\ prep.mode # "collected" BY HandlingGood
<1>3. CASE ~gen.started /\ O!More(gen) /\ O!Retry(gen)
  <2>1. Heard(gen) = {} BY <1>3, NotStarted DEF Handling
  <2>2. QED BY <1>2, <1>3, <2>1, OpenAiRetryingMessage
<1>4. CASE O!Fail(gen) BY <1>2, <1>4, OpenAiFailingMessage
<1>5. QED BY <1>1, <1>3, <1>4

(* The upstream says that it is done. *)
LEMMA OpenAiStreamEndsMessage ==
  ASSUME KernelAssumption, MessageInv, Handling("read"), prep.mode = "openai",
         NEW finish \in Finishes, O!StreamEnds(finish)
  PROVE  MessageInv'
<1> DEFINE g == Pushed(Drained([gen EXCEPT !.finish = finish]), Flushed(gen.hold))
           r == [g EXCEPT !.reasoning = @ \cup Flushed(gen.rhold)]
           s == Say(r, Own(r))
           c == [s EXCEPT !.fence = FALSE]
<1>1. gen' = O!CloseFence(r) /\ UNCHANGED <<req, prep, wire>>
  BY OpenAiTexts, OpenAiSaying DEF O!StreamEnds
<1>2. O!CloseFence(r) = c \/ O!CloseFence(r) = r BY OpenAiSaying DEF O!CloseFence
<1>3. Good(gen) /\ Numbered(gen) /\ prep.mode # "collected" BY HandlingGood
<1>4. AsGood(gen, g) BY <1>3, LettingGoGood
<1> HIDE DEF g
<1>5. Equal(g, r) BY <1>4 DEF Equal, Same, AsGood, Good, Typed, Fields
<1> HIDE DEF r
<1>6. AsGood(gen, r) BY <1>4, <1>5, EqualIsGood DEF AsGood
<1>7. AsGood(gen, s) BY <1>6, SayingOwnGood DEF AsGood
<1> HIDE DEF s
<1>8. Same(s, c) /\ c.held = s.held /\ c.hold = s.hold /\ ~c.fence /\ c.finish = s.finish
  BY <1>7 DEF Same, AsGood, Good, Typed, Fields
<1> HIDE DEF c
<1>9. InRange(c) BY <1>7, <1>8 DEF InRange, Same, AsGood, Good
<1>10. AsGood(gen, c) BY <1>7, <1>8, <1>9, SameIsGood DEF AsGood, Same
<1>11. Good(gen') /\ Numbered(gen') BY <1>1, <1>2, <1>3, <1>6, <1>10 DEF AsGood, Numbered
<1>12. QED BY <1>1, <1>3, <1>11, Continuing

(* Markup that was held back becomes a call. *)
LEMMA OpenAiAfterLeakGood ==
  ASSUME KernelAssumption, NEW g, Good(g)
  PROVE  LET h == O!AfterLeak(g) IN AsGood(g, h) /\ (h = g \/ h.calls # NoCalls)
<1> DEFINE h == O!AfterLeak(g)
<1>1. Typed(g) /\ InRange(g) /\ Voiced(g) BY DEF Good
<1>2. CASE O!Repairs(g)
  <2>1. /\ DOMAIN h = Fields /\ h.out = g.out /\ h.attempt = g.attempt /\ h.calls = RepairedCall
        /\ h.chunks = g.chunks /\ h.started = g.started /\ h.textOpen = g.textOpen /\ h.thinkOpen = g.thinkOpen
        /\ h.text = g.text /\ h.held = g.held /\ h.hold = g.hold /\ h.fence = g.fence /\ h.finish = g.finish
        /\ h.textAt = g.textAt /\ h.thinkAt = g.thinkAt /\ h.next = g.next
    BY <1>1, <1>2, OpenAiTexts DEF O!AfterLeak, Typed, Fields
  <2> HIDE DEF h
  <2>2. g.attempt \in Int /\ g.attempt <= g.attempt
    <3>1. g.attempt \in Int BY <1>1, Trying DEF InRange
    <3>2. QED BY <3>1
  <2>3. Quieter(g, h) BY <2>1, <2>2 DEF Quieter, SamePlaces, KeepsCount
  <2>4. InRange(h)
    <3>1. \A k \in DOMAIN RepairedCall : RepairedCall[k] \in Whats
      <4>1. \A k \in DOMAIN RepairedCall : RepairedCall[k] = "repaired" BY DEF RepairedCall, Merged, NoCalls
      <4>2. QED BY <4>1 DEF Whats
    <3>2. QED BY <1>1, <2>1, <3>1 DEF InRange
  <2>5. Voiced(h) BY <1>1, <2>1 DEF Voiced
  <2>6. IsFiniteSet(DOMAIN h.calls) /\ DOMAIN h.calls \subseteq Nat /\ h.calls # NoCalls BY <2>1, Repairing
  <2>7. Good(h) BY <2>3, <2>4, <2>5, <2>6, QuieterIsGood
  <2>8. QED BY <2>1, <2>6, <2>7 DEF AsGood, h
<1>3. CASE ~O!Repairs(g) BY <1>3 DEF O!AfterLeak, AsGood
<1>4. QED BY <1>2, <1>3

(* The handler decides between an answer, another attempt and an error. *)
LEMMA OpenAiSettleMessage ==
  ASSUME KernelAssumption, MessageInv, Handling("settle"), prep.mode = "openai", O!Settle
  PROVE  MessageInv'
<1> DEFINE g == O!AfterLeak(gen)
           s == Say(g, g.held)
           h == [s EXCEPT !.held = {}]
<1>1. Good(gen) /\ Numbered(gen) /\ ~Framed /\ prep.mode # "collected" BY HandlingGood
<1>2. AsGood(gen, g) /\ (g = gen \/ g.calls # NoCalls) BY <1>1, OpenAiAfterLeakGood
<1>3. \/ g.calls = NoCalls /\ ~g.started /\ O!More(g) /\ O!Retry(g)
      \/ O!Fail(g)
      \/ g.calls = NoCalls /\ g.text = {} /\ O!More(g) /\ O!Retry(g)
      \/ gen' = h /\ UNCHANGED <<req, prep, wire>>
  BY OpenAiTexts, OpenAiSaying DEF O!Settle, O!RetriesUnfinished, O!Leaking
<1> HIDE DEF g
<1>4. Good(g) /\ Numbered(g) BY <1>1, <1>2 DEF AsGood, Numbered
<1>5. ASSUME g.calls = NoCalls, ~g.started, O!More(g), O!Retry(g) PROVE MessageInv'
  <2>1. g = gen BY <1>2, <1>5
  <2>2. Heard(g) = {} BY <1>5, <2>1, NotStarted DEF Handling
  <2>3. QED BY <1>1, <1>4, <1>5, <2>2, OpenAiRetryingMessage
<1>6. CASE g.calls = NoCalls /\ ~g.started /\ O!More(g) /\ O!Retry(g) BY <1>5, <1>6
<1>7. CASE O!Fail(g) BY <1>4, <1>7, OpenAiFailingMessage
<1>8. CASE g.calls = NoCalls /\ g.text = {} /\ O!More(g) /\ O!Retry(g)
  <2>1. ~g.started BY <1>1, <1>4, <1>8 DEF Good, Voiced
  <2>2. QED BY <1>5, <1>8, <2>1
<1>9. CASE gen' = h /\ UNCHANGED <<req, prep, wire>>
  <2>1. UpTo(g.held, g.attempt) /\ UpTo(g.hold, g.attempt) BY <1>4, Upwards DEF Good, InRange
  <2>2. Good(s) /\ Keeping(g, s) BY <1>4, <2>1, SayingGood
  <2> HIDE DEF s
  <2>3. Same(s, h) /\ h.held = {} /\ h.hold = s.hold /\ h.fence = s.fence /\ h.finish = s.finish
    BY <2>2 DEF Same, Good, Typed, Fields
  <2> HIDE DEF h
  <2>4. UpTo(h.held \cup h.hold, h.attempt) BY <2>1, <2>2, <2>3, Upwards DEF Same, Keeping
  <2>5. InRange(h) BY <2>2, <2>3, <2>4 DEF InRange, Same, Good
  <2>6. Good(h) BY <2>2, <2>3, <2>5, SameIsGood
  <2>7. Numbered(h) BY <1>4, <2>2, <2>3 DEF Numbered, Same, Keeping
  <2>8. QED BY <1>1, <1>9, <2>6, <2>7, Continuing
<1>10. QED BY <1>3, <1>6, <1>7, <1>8, <1>9

(* The last events are sent. *)
LEMMA OpenAiEndMessage ==
  ASSUME KernelAssumption, MessageInv, Handling("finish"), prep.mode = "openai", O!End
  PROVE  MessageInv'
<1> DEFINE g    == O!Shown(gen)
           s    == Say(gen, Own(gen))
           K    == DOMAIN g.calls
           last == O!FinalStop(g)
           r    == g.out \o O!Starting(g) \o O!InOrder(g, K) \o <<O!Ended(last)>>
<1>1. Good(gen) /\ Numbered(gen) /\ ~Framed /\ prep.mode # "collected" BY HandlingGood
<1>2. AsGood(gen, s) /\ s.started = TRUE BY <1>1, SayingOwnGood
<1>3. g = s \/ g = gen BY OpenAiSaying DEF O!Shown
<1>4. \/ ~g.started /\ O!More(g) /\ O!Retry(g)
      \/ O!Fail(g)
      \/ gen' = [g EXCEPT !.out = r] /\ stage' = "done" /\ UNCHANGED <<req, prep, wire>>
  BY DEF O!End
<1>5. last = IF g.calls # NoCalls THEN "tool_use"
             ELSE IF req.cc /\ OffersTools /\ Unfinished(g.text) THEN "length" ELSE g.finish
  <2>1. \A text : O!Unfinished(text) <=> Unfinished(text) BY DEF O!Unfinished, O!Has, Unfinished, Has
  <2>2. (O!OffersTools <=> OffersTools) BY DEF O!OffersTools, OffersTools
  <2>3. QED BY <2>1, <2>2, OpenAiTexts DEF O!FinalStop
<1>6. r = Concluded(g.out \o Starting(g), g, K, last) BY OpenAiTexts, OpenAiSaying DEF Concluded
<1> HIDE DEF g, s, last, r
<1>7. AsGood(gen, g) BY <1>1, <1>2, <1>3 DEF AsGood
<1>8. Good(g) /\ Numbered(g) /\ Typed(g) /\ InRange(g) BY <1>1, <1>7 DEF AsGood, Numbered, Good
<1>9. CASE ~g.started /\ O!More(g) /\ O!Retry(g)
  <2>1. g = gen BY <1>2, <1>3, <1>9
  <2>2. Heard(g) = {} BY <1>9, <2>1, NotStarted DEF Handling
  <2>3. QED BY <1>1, <1>8, <1>9, <2>2, OpenAiRetryingMessage
<1>10. CASE O!Fail(g) BY <1>8, <1>10, OpenAiFailingMessage
<1>11. CASE gen' = [g EXCEPT !.out = r] /\ stage' = "done" /\ UNCHANGED <<req, prep, wire>>
  <2>1. PICK v : Leads(wire, g.out, v) /\ Tells(g, v) BY <1>8 DEF Good, Tell
  <2>2. PICK w : Leads(v, Starting(g), w) /\ Ongoing(w) /\ w.text = v.text BY <2>1, Beginning DEF Tells
  <2>3. Listed(g.out) /\ Listed(Starting(g)) BY <1>8, Short, Quieten DEF Typed, Quiet
  <2>4. Listed(g.out \o Starting(g)) BY <2>3, Concatenation
  <2>5. Leads(wire, g.out \o Starting(g), w) BY <2>1, <2>2, <2>3, Onward
  <2>6. IsFiniteSet(K) /\ K \subseteq Nat /\ (\A k \in K : g.calls[k] \in Whats) BY <1>8 DEF Typed, InRange
  <2> HIDE DEF K
  <2>7. last \in Stops BY <1>5, <1>8 DEF InRange, Stops
  <2>8. g.attempt \in Tries /\ UpTo(w.text, g.attempt) BY <1>8, <2>1, <2>2 DEF InRange, Tells
  <2>9. Sent(Concluded(g.out \o Starting(g), g, K, last), w.text, K, last)
    BY <1>1, <2>2, <2>4, <2>5, <2>6, <2>7, <2>8, Sending DEF Ongoing, Addressed
  <2>10. gen'.out = r /\ gen'.attempt = g.attempt /\ gen'.chunks = g.chunks BY <1>8, <1>11 DEF Typed, Fields
  <2>11. Sent(gen'.out, v.text, K, last) BY <1>6, <2>2, <2>9, <2>10
  <2>12. ASSUME req.cc, OffersTools, Unfinished(v.text), K = {} PROVE last # "stop"
    <3>1. CASE g.calls # NoCalls BY <1>5, <3>1
    <3>2. CASE g.calls = NoCalls
      <4>1. v.text = g.text BY <1>8, <2>1, <3>2 DEF Tells, Good, Echo
      <4>2. QED BY <1>5, <2>12, <3>2, <4>1
    <3>3. QED BY <3>1, <3>2
  <2>13. Numbered(gen') BY <1>8, <2>10 DEF Numbered
  <2>14. QED BY <1>11, <2>11, <2>12, <2>13, Ending
<1>12. QED BY <1>4, <1>9, <1>10, <1>11

-----------------------------------------------------------------------------
(* The stages before the handlers, with respect to the message *)

(* As long as the request is the same, so is what may follow. *)
LEMMA Reading ==
  ASSUME req' = req
  PROVE  /\ \A v : Leads(wire, gen.out, v)' <=> Leads(wire', gen'.out, v)
         /\ \A v : Sane(v)' <=> Sane(v)
         /\ Sane(wire)' <=> Sane(wire')
         /\ Numbered(gen)' <=> Numbered(gen')
<1>1. (Framed' <=> Framed) /\ (Strict' <=> Strict) BY DEF Framed, Strict
<1>2. \A w, e : Follows(w, e)' <=> Follows(w, e)
  <2> TAKE w, e
  <2>1. Whats' = Whats /\ Tries' = Tries BY DEF Whats, Tries
  <2>2. QED BY <1>1, <2>1 DEF Follows, UpTo, Stops, Blocks, Free, Untaken, Shared
<1>3. \A w, e : Received(w, e)' = Received(w, e)
  <2> TAKE w, e
  <2>1. \A at : Later(w, at)' = Later(w, at) BY <1>1 DEF Later
  <2>2. QED BY <2>1 DEF Received
<1>4. \A v : Leads(wire, gen.out, v)' <=> Leads(wire', gen'.out, v) BY <1>2, <1>3 DEF Leads
<1>5. \A v : Sane(v)' <=> Sane(v) BY DEF Sane, UpTo
<1>6. Sane(wire)' <=> Sane(wire') BY DEF Sane, UpTo
<1>7. Numbered(gen)' <=> Numbered(gen') BY DEF Numbered, Tries
<1>8. QED BY <1>4, <1>5, <1>6, <1>7

(* Nothing was said yet. *)
LEMMA FreshIsGood ==
  ASSUME KernelAssumption, KernelInv, stage \in Early
  PROVE  Good(gen) /\ Numbered(gen) /\ Sane(wire) /\ wire = FreshWire /\ gen = FreshGen
<1>1. /\ gen = FreshGen /\ wire = FreshWire /\ Heard(gen) = {} /\ Typed(gen)
      /\ FreshGen.out = <<>> /\ FreshGen.calls = NoCalls
  BY NotBegun DEF Sound, Ready
<1>2. /\ gen.attempt = 0 /\ gen.chunks = 0 /\ ~gen.started /\ ~gen.textOpen /\ ~gen.thinkOpen /\ ~gen.fence
      /\ gen.text = {} /\ gen.held = {} /\ gen.hold = {} /\ gen.finish = "stop" /\ gen.next = 0
  BY <1>1 DEF FreshGen
<1>3. 0 \in Tries /\ 0 \in 0..MaxChunks
  <2>1. 0 \in 0..Attempts - 1 /\ 0 \in 0..MaxChunks BY DEF KernelAssumption
  <2>2. QED BY <2>1 DEF Tries
<1>4. /\ wire.phase = "waiting" /\ wire.given = <<>> /\ wire.starts = 0 /\ wire.text = {} /\ wire.stop = "none"
      /\ DOMAIN wire = WireFields /\ wire.blocks = [kind \in Blocks |-> {}] /\ wire.top = 0
  BY <1>1 DEF FreshWire, WireFields
<1>5. Sane(wire) BY <1>4 DEF Sane, UpTo
<1>a. Placed(gen, wire)
  <2>1. wire.top # gen.next + 1 BY <1>2, <1>4
  <2>2. QED BY <1>2, <1>4, <2>1 DEF Placed
<1>6. Tells(gen, wire) BY <1>1, <1>2, <1>4, <1>5, <1>a DEF Tells, UpTo
<1>7. Leads(wire, gen.out, wire) BY <1>1, Standing
<1>8. Tell(gen) BY <1>6, <1>7 DEF Tell
<1>9. InRange(gen)
  <2>1. DOMAIN gen.calls = {} BY <1>1 DEF NoCalls
  <2>2. QED BY <1>2, <1>3, <2>1 DEF InRange, UpTo
<1>10. Echo(gen) /\ Voiced(gen) BY <1>1, <1>2 DEF Echo, Voiced
<1>11. QED BY <1>1, <1>2, <1>3, <1>5, <1>8, <1>9, <1>10 DEF Good, Numbered

\* The preparation of a request is in range.
Preparation(p) ==
  /\ DOMAIN p = PrepFields
  /\ p.tools \in {"none", "valid", "invalid"}
  /\ p.mode \in {"none", "anthropic", "openai", "collected"}

(* A request arrives. *)
LEMMA InitMessage ==
  ASSUME KernelAssumption, RequestsAssumption, Init, KernelInv
  PROVE  MessageInv
<1>1. stage \in Early /\ stage \notin Working BY DEF Init, Early, Working
<1>2. Good(gen) /\ Numbered(gen) /\ Sane(wire) BY <1>1, FreshIsGood
<1>3. Leadable(gen) BY <1>2, GoodLeads DEF Good
<1>4. Prepared BY DEF Prepared, PrepFields, Init, RequestsAssumption
<1>5. QED BY <1>1, <1>2, <1>3, <1>4 DEF MessageInv

(* A request moves on to the next stage. *)
LEMMA ProceedingMessage ==
  ASSUME KernelAssumption, KernelInv, stage \in Early, NEW next \in Early, NEW p, Preparation(p), Proceed(next, p)
  PROVE  MessageInv'
<1>1. UNCHANGED <<req, gen, wire>> /\ stage' = next /\ prep' = p BY DEF Proceed
<1>2. next \notin Working BY DEF Early, Working
<1>3. Good(gen) /\ Numbered(gen) /\ Sane(wire) /\ wire = FreshWire /\ gen = FreshGen BY FreshIsGood
<1>4. Sane(wire)' /\ Numbered(gen)' BY <1>1, <1>3, Reading
<1>5. Leads(wire, gen.out, wire)
  <2>1. gen.out = <<>> BY <1>3, NotBegun
  <2>2. QED BY <2>1, Standing
<1>6. Leads(wire, gen.out, wire)' BY <1>1, <1>5, Reading
<1>7. wire.stop = "none" BY <1>3 DEF FreshWire
<1>8. Leadable(gen)' BY <1>1, <1>6, <1>7 DEF Leadable, NotFinal
<1>9. Prepared' BY <1>1 DEF Prepared, Preparation, PrepFields
<1>10. stage' \notin Working BY <1>1, <1>2
<1>11. QED BY <1>4, <1>8, <1>9, <1>10 DEF MessageInv

(* A request is refused before it is sent. *)
LEMMA RejectingMessage ==
  ASSUME KernelAssumption, KernelInv, MessageInv, stage \in Early, Reject
  PROVE  MessageInv'
<1>1. Good(gen) /\ Numbered(gen) /\ gen = FreshGen BY FreshIsGood
<1>2. gen.out \o <<Ended("error")>> = <<Ended("error")>>
  <2>1. gen.out = <<>> BY <1>1, NotBegun
  <2>2. QED BY <2>1
<1>3. gen' = [gen EXCEPT !.out = @ \o <<Ended("error")>>] BY <1>2 DEF Reject
<1>4. stage' = "done" /\ UNCHANGED <<req, prep, wire>> BY DEF Reject
<1>5. QED BY <1>1, <1>3, <1>4, Aborting DEF Good

(* The guard leaves the tools, or repairs their names. *)
LEMMA GuardingTools ==
  ASSUME MessageInv, NEW forced
  PROVE  Guarded(req.path, Body, forced).body.tools \in {"none", "valid", "invalid"}
<1> DEFINE looked == Looked(req.path, Body, forced)
           after  == IF looked /\ GuardMode = "repair" THEN Repair(req.path, Body) ELSE Body
<1>1. Body.tools = prep.tools /\ prep.tools \in {"none", "valid", "invalid"} BY DEF Body, MessageInv, Prepared
<1>2. RepairOpenai(Body).tools = Body.tools BY DEF RepairOpenai, Body
<1>3. RepairAnthropic(Body).tools \in {"valid", Body.tools} BY DEF RepairAnthropic
<1>4. Repair(req.path, Body).tools \in {"none", "valid", "invalid"} BY <1>1, <1>2, <1>3 DEF Repair
<1>5. after.tools \in {"none", "valid", "invalid"} BY <1>1, <1>4
<1>6. Guarded(req.path, Body, forced).body = after BY DEF Guarded
<1>7. QED BY <1>5, <1>6

(* The guard, the governor and the rewriting of the history. *)
LEMMA EarlyStepsMessage ==
  ASSUME KernelAssumption, KernelInv, MessageInv,
         GuardBefore \/ Govern \/ GuardAfter \/ Translate \/ ShortenContext \/ AnchorInstruction \/ Canonicalize
  PROVE  MessageInv'
<1>1. Preparation(prep) BY DEF MessageInv, Prepared, Preparation
<1>2. CASE GuardBefore
  <2>1. stage \in Early /\ "govern" \in Early BY <1>2 DEF GuardBefore, At, Early
  <2>2. CASE Reject BY <2>1, <2>2, RejectingMessage
  <2>3. CASE ~Reject
    <3> DEFINE guarded == Guarded(req.path, Body, RawMarkers)
               tools   == guarded.body.tools
               p == [prep EXCEPT !.ms = guarded.body.ms, !.tools = guarded.body.tools,
                                 !.forced = guarded.applied \/ guarded.preInvalid]
    <3>1. Proceed("govern", p) BY <1>2, <2>3 DEF GuardBefore
    <3>2. tools \in {"none", "valid", "invalid"} BY GuardingTools
    <3>3. DOMAIN p = PrepFields /\ p.tools = tools /\ p.mode = prep.mode BY <1>1 DEF Preparation, PrepFields
    <3> HIDE DEF p, tools
    <3>4. Preparation(p) BY <1>1, <3>2, <3>3 DEF Preparation
    <3>5. QED BY <2>1, <3>1, <3>4, ProceedingMessage
  <2>4. QED BY <2>2, <2>3
<1>3. CASE Govern
  <2>1. stage \in Early /\ "guardAgain" \in Early BY <1>3 DEF Govern, At, Early
  <2>2. CASE Reject BY <2>1, <2>2, RejectingMessage
  <2>3. CASE ~Reject
    <3> DEFINE governed == Governed(req.path, prep.ms, req.exempt)
               p == [prep EXCEPT !.ms = governed.ms, !.forced = @ \/ governed.trimmed]
    <3>1. Proceed("guardAgain", p) BY <1>3, <2>3 DEF Govern
    <3>2. Preparation(p) BY <1>1 DEF Preparation, PrepFields
    <3> HIDE DEF p
    <3>3. QED BY <2>1, <3>1, <3>2, ProceedingMessage
  <2>4. QED BY <2>2, <2>3
<1>4. CASE GuardAfter
  <2>1. stage \in Early /\ "translate" \in Early BY <1>4 DEF GuardAfter, At, Early
  <2>2. CASE Reject BY <2>1, <2>2, RejectingMessage
  <2>3. CASE ~Reject
    <3> DEFINE guarded == Guarded(req.path, Body, prep.forced)
               tools   == guarded.body.tools
               p == [prep EXCEPT !.ms = guarded.body.ms, !.tools = guarded.body.tools]
    <3>1. Proceed("translate", p) BY <1>4, <2>3 DEF GuardAfter
    <3>2. tools \in {"none", "valid", "invalid"} BY GuardingTools
    <3>3. DOMAIN p = PrepFields /\ p.tools = tools /\ p.mode = prep.mode BY <1>1 DEF Preparation, PrepFields
    <3> HIDE DEF p, tools
    <3>4. Preparation(p) BY <1>1, <3>2, <3>3 DEF Preparation
    <3>5. QED BY <2>1, <3>1, <3>4, ProceedingMessage
  <2>4. QED BY <2>2, <2>3
<1>5. CASE Translate
  <2> DEFINE p == [prep EXCEPT !.ms = IF req.path = "messages" THEN AnthropicToOpenai(@) ELSE @]
  <2>1. stage \in Early /\ "shorten" \in Early BY <1>5 DEF Translate, At, Early
  <2>2. Proceed("shorten", p) BY <1>5 DEF Translate
  <2>3. Preparation(p) BY <1>1 DEF Preparation, PrepFields
  <2> HIDE DEF p
  <2>4. QED BY <2>1, <2>2, <2>3, ProceedingMessage
<1>6. CASE ShortenContext
  <2> DEFINE p == [prep EXCEPT !.ms = Shortest(prep.ms).ms, !.compacted = Shortest(prep.ms).n > 0,
                               !.before = PromptTokens(prep.ms)]
  <2>1. stage \in Early /\ "anchor" \in Early BY <1>6 DEF ShortenContext, At, Early
  <2>2. Proceed("anchor", p) BY <1>6 DEF ShortenContext
  <2>3. Preparation(p) BY <1>1 DEF Preparation, PrepFields
  <2> HIDE DEF p
  <2>4. QED BY <2>1, <2>2, <2>3, ProceedingMessage
<1>7. CASE AnchorInstruction
  <2> DEFINE anchors == req.cc /\ prep.compacted
             reduces == anchors /\ req.stream /\ ReducesToExact(prep.ms)
             p == [prep EXCEPT !.ms = IF reduces THEN ReduceToExact(@) ELSE IF anchors THEN AppendAnchor(@) ELSE @,
                               !.tools = IF reduces THEN "none" ELSE @, !.reduced = reduces]
  <2>1. stage \in Early /\ "canonicalize" \in Early BY <1>7 DEF AnchorInstruction, At, Early
  <2>2. Proceed("canonicalize", p) BY <1>7 DEF AnchorInstruction
  <2>3. DOMAIN p = PrepFields /\ p.tools \in {"none", prep.tools} /\ p.mode = prep.mode
    BY <1>1 DEF Preparation, PrepFields
  <2> HIDE DEF p
  <2>4. Preparation(p) BY <1>1, <2>3 DEF Preparation
  <2>5. QED BY <2>1, <2>2, <2>4, ProceedingMessage
<1>8. CASE Canonicalize
  <2> DEFINE ms == CanonicalizeToolHistory(prep.ms)
             p == [prep EXCEPT !.ms = ms, !.exact = UserTexts(ms, {"exact"}) # {},
                               !.risky = Downgraded(prep.ms, ms) \/ HasHistory(ms) \/ prep.tools = "invalid"]
  <2>1. stage \in Early /\ "dispatch" \in Early BY <1>8 DEF Canonicalize, At, Early
  <2>2. Proceed("dispatch", p) BY <1>8 DEF Canonicalize
  <2>3. Preparation(p) BY <1>1 DEF Preparation, PrepFields
  <2> HIDE DEF p
  <2>4. QED BY <2>1, <2>2, <2>3, ProceedingMessage
<1>9. QED BY <1>2, <1>3, <1>4, <1>5, <1>6, <1>7, <1>8

(* An answer of one text. *)
OneTextIn(w, said, s) ==
  /\ Listed(s)
  /\ \E v : /\ Leads(w, s, v) /\ Ongoing(v) /\ v.text = w.text \cup said
            /\ Framed => v.top = 1

(* It can be sent whole. *)
LEMMA OneTextLeads ==
  ASSUME NEW w, Sane(w), w.given = <<>>, w.phase # "ended", w.starts = 0, w.top = 0,
         NEW said, UpTo(said, Attempts - 1)
  PROVE  OneTextIn(w, said, ((<<Started>> \o Opening(FALSE, "text", 0)) \o <<Grown("text", said, 0)>>)
                               \o (IF Framed THEN <<Closed("text", 0)>> ELSE <<>>))
<1> DEFINE x == <<Started>>
           y == Opening(FALSE, "text", 0)
           z == <<Grown("text", said, 0)>>
           c == IF Framed THEN <<Closed("text", 0)>> ELSE <<>>
<1>1. Listed(x) /\ Listed(y) /\ Listed(z) /\ Listed(c) BY Quieten, Short DEF Quiet
<1>2. PICK a : Leads(w, x, a) /\ Ongoing(a) /\ a.text = w.text /\ a.top = 0
  <2>1. Starting(FreshGen) = x /\ ~FreshGen.started BY DEF Starting, FreshGen
  <2>2. \E u : Leads(w, Starting(FreshGen), u) /\ Ongoing(u) /\ u.blocks = w.blocks /\ u.top = w.top /\ u.text = w.text
    BY <2>1, Beginning
  <2> HIDE DEF x
  <2>3. QED BY <2>1, <2>2
<1>3. "text" \in Blocks BY DEF Blocks
<1>4. PICK b : Leads(a, y, b) /\ Ongoing(b) /\ b.text = a.text /\ (Framed => 0 \in b.blocks["text"] /\ b.top = 1)
  <2>1. Fits(FALSE, "text", 0, a) BY <1>2 DEF Fits, Free, Untaken
  <2>2. PICK u : /\ Leads(a, Opening(FALSE, "text", 0), u) /\ Ongoing(u) /\ u.text = a.text
                 /\ Unfolded(FALSE, "text", 0, a, u)
    BY <1>2, <1>3, <2>1, Unfolding
  <2>3. Framed => 0 \in u.blocks["text"] /\ u.top = 1 BY <2>2 DEF Unfolded
  <2>4. QED BY <2>2, <2>3
<1>5. PICK d : Leads(b, z, d) /\ Ongoing(d) /\ d.blocks = b.blocks /\ d.top = b.top /\ d.text = b.text \cup said
  <2>1. Framed => 0 \in b.blocks["text"] BY <1>4
  <2>2. Ongoing(b) BY <1>4
  <2>3. ASSUME NEW kind, kind = "text", NEW at, at = 0
        PROVE  \E u : /\ Leads(b, <<Grown(kind, said, at)>>, u) /\ Ongoing(u) /\ u.blocks = b.blocks /\ u.top = b.top
                      /\ u.text = b.text \cup said
    <3>1. kind \in Blocks BY <1>3, <2>3
    <3>2. Framed => at \in b.blocks[kind] BY <2>1, <2>3
    <3>3. kind = "text" => UpTo(said, Attempts - 1) OBVIOUS
    <3>4. \E u : /\ Leads(b, <<Grown(kind, said, at)>>, u) /\ Ongoing(u) /\ u.blocks = b.blocks /\ u.top = b.top
                 /\ u.text = IF kind = "text" THEN b.text \cup said ELSE b.text
      BY ONLY <2>2, <3>1, <3>2, <3>3, Uttering
    <3>5. QED BY <2>3, <3>4
  <2>4. QED BY <2>3
<1>6. PICK v : Leads(d, c, v) /\ Rests(d, v)
  <2>1. Framed => 0 \in d.blocks["text"] /\ d.phase = "open" BY <1>4, <1>5 DEF Ongoing
  <2>2. Folds("text", Framed, 0, d) BY <1>3, <1>5, <2>1, Folding DEF Ongoing
  <2>3. QED BY <2>2 DEF Folds
<1> HIDE DEF x, y, z, c
<1>7. Listed(x \o y) /\ Listed((x \o y) \o z) /\ Listed(((x \o y) \o z) \o c)
  <2>1. Listed(x \o y) BY <1>1, Concatenation
  <2>2. Listed((x \o y) \o z) BY <1>1, <2>1, Concatenation
  <2>3. QED BY <1>1, <2>1, <2>2, Concatenation
<1>8. Leads(w, x \o y, b) BY <1>1, <1>2, <1>4, Onward
<1>9. Leads(w, (x \o y) \o z, d) BY <1>1, <1>5, <1>7, <1>8, Onward
<1>10. Leads(w, ((x \o y) \o z) \o c, v) BY <1>1, <1>6, <1>7, <1>9, Onward
<1>11. Ongoing(v) /\ v.text = w.text \cup said /\ (Framed => v.top = 1)
  BY <1>2, <1>4, <1>5, <1>6 DEF Rests, Ongoing
<1>12. QED BY <1>7, <1>10, <1>11 DEF OneTextIn, x, y, z, c

(* A generator that does not change is as good as it was. *)
LEMMA GoodStays ==
  ASSUME Good(gen), UNCHANGED <<req, gen, wire>>
  PROVE  Good(gen)'
<1>1. (Framed' <=> Framed) /\ (Strict' <=> Strict) BY DEF Framed, Strict
<1>2. \A v : Leads(wire, gen.out, v)' <=> Leads(wire, gen.out, v) BY Reading
<1>3. \A v : Sane(v)' <=> Sane(v) BY Reading
<1>4. Heard(gen)' = Heard(gen) BY DEF Heard, Spoken, In
<1>5. \A v : Tells(gen, v)' <=> Tells(gen, v)
  <2> TAKE v
  <2>1. Placed(gen, v)' <=> Placed(gen, v) BY DEF Placed, Uncounted, RepairedCall, Merged, NoCalls
  <2>2. QED BY <1>1, <1>3, <1>4, <2>1 DEF Tells, UpTo
<1>6. Tell(gen)' BY <1>2, <1>5 DEF Tell, Good
<1>7. InRange(gen)' BY DEF InRange, UpTo, Whats, Tries, Good
<1>8. Echo(gen)' BY <1>4 DEF Echo, NoCalls, Good
<1>9. Typed(gen)' /\ Voiced(gen)' BY <1>1 DEF Typed, Voiced, Good, Listed, Fields
<1>10. QED BY <1>6, <1>7, <1>8, <1>9 DEF Good

(* A request is sent, or answered without the upstream. *)
LEMMA DispatchingMessage ==
  ASSUME KernelAssumption, KernelInv, MessageInv, Dispatch
  PROVE  MessageInv'
<1>1. stage \in Early BY DEF Dispatch, At, Early
<1>2. Good(gen) /\ Numbered(gen) /\ Sane(wire) /\ wire = FreshWire /\ gen = FreshGen BY <1>1, FreshIsGood
<1>3. wire.given = <<>> /\ wire.phase # "ended" /\ wire.starts = 0 /\ wire.text = {} /\ wire.top = 0
  BY <1>2 DEF FreshWire
<1>4. CASE AnsweredHere
  <2> DEFINE s == ((<<Started>> \o Opening(FALSE, "text", 0)) \o <<Grown("text", Own(gen), 0)>>)
                     \o (IF Framed THEN <<Closed("text", 0)>> ELSE <<>>)
             r == s \o <<Ended("stop")>>
  <2>1. gen' = [gen EXCEPT !.out = r] /\ stage' = "done" /\ UNCHANGED <<req, prep, wire>>
    BY <1>4 DEF Dispatch
  <2>2. gen.attempt \in Tries BY <1>2 DEF Numbered
  <2>3. UpTo(Own(gen), Attempts - 1) /\ ~Unfinished(Own(gen)) BY <2>2, OwnIsUpTo, Trying
  <2>4. OneTextIn(wire, Own(gen), s) BY <1>2, <1>3, <2>3, OneTextLeads
  <2> HIDE DEF s
  <2>5. PICK v : Listed(s) /\ Leads(wire, s, v) /\ Ongoing(v) /\ v.text = Own(gen) BY <1>3, <2>4 DEF OneTextIn
  <2>6. "stop" \in Stops BY DEF Stops
  <2>7. PICK u : Leads(wire, r, u) /\ u.text = v.text BY <2>5, <2>6, Parting DEF Ongoing
  <2> HIDE DEF r
  <2>8. gen'.out = r /\ gen'.attempt = gen.attempt /\ gen'.chunks = gen.chunks
    BY <1>2, <2>1 DEF Good, Typed, Fields
  <2>9. Leadable(gen') BY <2>3, <2>5, <2>7, <2>8 DEF Leadable, NotFinal
  <2>10. Numbered(gen') BY <1>2, <2>8 DEF Numbered
  <2>11. QED BY <2>1, <2>9, <2>10, Departing
<1>5. CASE ~AnsweredHere
  <2> DEFINE p == [prep EXCEPT !.ms = <<>>, !.before = 0, !.forced = FALSE, !.compacted = FALSE,
                               !.reduced = FALSE, !.mode = Mode]
  <2>1. stage' = "fetch" /\ prep' = p /\ UNCHANGED <<req, gen, wire>> BY <1>5 DEF Dispatch, Proceed
  <2>2. DOMAIN p = PrepFields /\ p.tools = prep.tools /\ p.mode = Mode BY DEF MessageInv, Prepared, PrepFields
  <2> HIDE DEF p
  <2>3. Mode \in {"none", "anthropic", "openai", "collected"} BY DEF Mode
  <2>4. Prepared' BY <2>1, <2>2, <2>3 DEF MessageInv, Prepared, PrepFields
  <2>5. Sane(wire)' /\ Numbered(gen)' BY <1>2, <2>1, Reading
  <2>6. Good(gen)' BY <1>2, <2>1, GoodStays
  <2>7. Leadable(gen)'
    <3>1. Leads(wire, gen.out, wire)
      <4>1. gen.out = <<>> BY <1>2, <1>1, NotBegun
      <4>2. QED BY <4>1, Standing
    <3>2. Leads(wire, gen.out, wire)' BY <2>1, <3>1, Reading
    <3>3. wire.stop = "none" BY <1>2 DEF FreshWire
    <3>4. QED BY <2>1, <3>2, <3>3 DEF Leadable, NotFinal
  <2>8. (wire = FreshWire)' /\ ~gen'.textOpen BY <1>2, <2>1 DEF FreshWire, FreshGen, Blocks
  <2>9. prep.mode' = Mode /\ prep.tools' = prep.tools BY <2>1, <2>2
  <2>10. (prep.mode = "collected")' => (C!Buffered => ~OffersTools)'
    <3>1. SUFFICES ASSUME Mode = "collected" PROVE (C!Buffered => ~OffersTools)' BY <2>9
    <3>2. req.path = "messages" /\ req.stream => ~OffersTools BY <3>1 DEF Mode, BufferedReason
    <3>3. C!Buffered' <=> req.path = "messages" /\ req.stream BY <2>1 DEF C!Buffered
    <3>4. OffersTools' <=> OffersTools BY <2>9 DEF OffersTools
    <3>5. QED BY <3>2, <3>3, <3>4
  <2>11. QED BY <2>4, <2>5, <2>6, <2>7, <2>8, <2>10 DEF MessageInv
<1>6. QED BY <1>4, <1>5

-----------------------------------------------------------------------------
(* The client, with respect to the message *)

(* What the client takes was heard of, and the rest still is. *)
LEMMA HearingOn ==
  ASSUME Typed(gen), DOMAIN wire = WireFields, Deliver
  PROVE  Heard(gen)' = Heard(gen)
<1> DEFINE e == Head(gen.out)
           t == Tail(gen.out)
<1>1. gen.out # <<>> /\ wire' = Received(wire, e) /\ gen'.out = t
  BY DEF Deliver, Typed, Fields
<1>2. In(gen.out) = {e} \cup In(t) BY <1>1, Taken DEF Typed
<1>3. wire'.text = IF e.e = "grow" /\ e.kind = "text" THEN wire.text \cup e.text ELSE wire.text
  BY <1>1, Receiving
<1> HIDE DEF e, t
<1>4. CASE e.e = "grow" /\ e.kind = "text"
  <2>1. {f \in In(gen.out) : f.e = "grow" /\ f.kind = "text"}
          = {e} \cup {f \in In(t) : f.e = "grow" /\ f.kind = "text"} BY <1>2, <1>4
  <2>2. Spoken(gen.out) = e.text \cup Spoken(t) BY <2>1 DEF Spoken
  <2>3. QED BY <1>1, <1>3, <1>4, <2>2 DEF Heard
<1>5. CASE ~(e.e = "grow" /\ e.kind = "text")
  <2>1. {f \in In(gen.out) : f.e = "grow" /\ f.kind = "text"}
          = {f \in In(t) : f.e = "grow" /\ f.kind = "text"} BY <1>2, <1>5
  <2>2. Spoken(gen.out) = Spoken(t) BY <2>1 DEF Spoken
  <2>3. QED BY <1>1, <1>3, <1>5, <2>2 DEF Heard
<1>6. QED BY <1>4, <1>5

(* The client takes an event: the rest leads it to the same message. *)
LEMMA DeliveringMessage ==
  ASSUME KernelInv, MessageInv, Deliver
  PROVE  MessageInv' /\ Follows(wire, Head(gen.out))
<1> DEFINE e == Head(gen.out)
<1>1. /\ gen.out # <<>> /\ wire' = Received(wire, e) /\ gen' = [gen EXCEPT !.out = Tail(@)]
      /\ UNCHANGED <<req, stage, prep>>
  BY DEF Deliver
<1>2. Typed(gen) /\ DOMAIN wire = WireFields /\ Listed(gen.out) BY DEF KernelInv, Shapes, Typed
<1>3. /\ DOMAIN gen' = Fields /\ gen'.out = Tail(gen.out) /\ gen'.attempt = gen.attempt /\ gen'.calls = gen.calls
      /\ gen'.chunks = gen.chunks /\ gen'.started = gen.started /\ gen'.text = gen.text
      /\ gen'.textOpen = gen.textOpen /\ gen'.thinkOpen = gen.thinkOpen
      /\ gen'.held = gen.held /\ gen'.hold = gen.hold /\ gen'.fence = gen.fence /\ gen'.finish = gen.finish
      /\ gen'.textAt = gen.textAt /\ gen'.thinkAt = gen.thinkAt /\ gen'.next = gen.next
  BY <1>1, <1>2 DEF Typed, Fields
<1>4. ASSUME NEW v, Leads(wire, gen.out, v)
      PROVE  Follows(wire, e) /\ Leads(wire', gen'.out, v)
  BY <1>1, <1>2, <1>3, <1>4, FirstStep
<1>5. Listed(gen'.out) BY <1>1, <1>2, <1>3, Taken
<1> HIDE DEF e
<1>6. PICK v : Leads(wire, gen.out, v) /\ NotFinal(v) BY DEF MessageInv, Leadable
<1>7. Follows(wire, e) BY <1>4, <1>6
<1>8. Sane(wire') BY <1>1, <1>7, Following DEF MessageInv
<1>9. Sane(wire)' BY <1>1, <1>8, Reading
<1>10. Leadable(gen)'
  <2>1. Leads(wire, gen.out, v)' BY <1>1, <1>4, <1>6, Reading
  <2>2. NotFinal(v)' BY <1>1, <1>6 DEF NotFinal, Unfinished, Has, OffersTools
  <2>3. QED BY <2>1, <2>2 DEF Leadable
<1>11. Numbered(gen)' BY <1>1, <1>3, Reading DEF MessageInv, Numbered
<1>12. Prepared' BY <1>1 DEF MessageInv, Prepared, PrepFields
<1>13. ~(stage \in Working /\ prep.mode = "collected") BY <1>1 DEF KernelInv, Stages
<1>14. ASSUME Good(gen) PROVE Good(gen)'
  <2>1. PICK u : Leads(wire, gen.out, u) /\ Tells(gen, u) BY <1>14 DEF Good, Tell
  <2>2. Leads(wire, gen.out, u)' BY <1>1, <1>4, <2>1, Reading
  <2>3. Heard(gen)' = Heard(gen) BY <1>2, HearingOn
  <2>4. (Framed' <=> Framed) /\ (Strict' <=> Strict) BY <1>1 DEF Framed, Strict
  <2>5. Sane(u)' BY <1>1, <2>1, Reading DEF Tells
  <2>a. Placed(gen, u)' <=> Placed(gen, u)
    BY <1>3 DEF Placed, Uncounted, RepairedCall, Merged, NoCalls
  <2>6. Tells(gen, u)' BY <1>3, <2>1, <2>3, <2>4, <2>5, <2>a DEF Tells, UpTo
  <2>7. Tell(gen)' BY <2>2, <2>6 DEF Tell
  <2>8. InRange(gen)' BY <1>1, <1>3, <1>14 DEF Good, InRange, UpTo, Whats, Tries
  <2>9. Echo(gen)' BY <1>3, <1>14, <2>3 DEF Good, Echo, NoCalls
  <2>10. Voiced(gen)' BY <1>3, <1>14, <2>4 DEF Good, Voiced
  <2>11. Typed(gen)' BY <1>2, <1>3, <1>5 DEF Typed
  <2>12. QED BY <2>7, <2>8, <2>9, <2>10, <2>11 DEF Good
<1>15. stage' = stage /\ prep' = prep BY <1>1
<1>16. MessageInv' BY <1>9, <1>10, <1>11, <1>12, <1>13, <1>14, <1>15 DEF MessageInv
<1>17. QED BY <1>7, <1>16 DEF e

(* The client goes away. *)
LEMMA HangingUpMessage ==
  ASSUME KernelAssumption, MessageInv, HangUp
  PROVE  MessageInv'
<1>1. stage' = "gone" /\ gen' = FreshGen /\ UNCHANGED <<req, prep, wire>> /\ wire.phase # "ended" BY DEF HangUp
<1>2. stage' \notin Working BY <1>1 DEF Working
<1>3. FreshGen.out = <<>> /\ FreshGen.attempt = 0 /\ FreshGen.chunks = 0 BY DEF FreshGen
<1>4. 0 \in Tries /\ 0 \in 0..MaxChunks
  <2>1. 0 \in 0..Attempts - 1 /\ 0 \in 0..MaxChunks BY DEF KernelAssumption
  <2>2. QED BY <2>1 DEF Tries
<1>5. Numbered(gen') BY <1>1, <1>3, <1>4 DEF Numbered
<1>6. Leads(wire, gen'.out, wire) BY <1>1, <1>3, Standing
<1>7. wire.stop = "none" BY <1>1 DEF MessageInv, Sane
<1>8. Leadable(gen') BY <1>6, <1>7 DEF Leadable, NotFinal
<1>9. QED BY <1>1, <1>2, <1>5, <1>8, Carrying DEF MessageInv

(* Nothing happens. *)
LEMMA StutterKeepsMessage ==
  ASSUME MessageInv, UNCHANGED vars
  PROVE  MessageInv'
<1>1. UNCHANGED <<req, stage, prep, gen, wire>> BY DEF vars
<1>2. (wire = FreshWire)' <=> wire = FreshWire BY <1>1 DEF FreshWire, Blocks
<1>3. QED BY <1>1, <1>2, Carrying DEF MessageInv

-----------------------------------------------------------------------------
(* The collecting handler, with respect to the message *)

\* As before, of the same attempt.
KeptOn(g) == Kept(g) /\ g.attempt = gen.attempt /\ g.chunks = gen.chunks /\ g.textOpen = gen.textOpen

\* The collecting handler is at work, and its client has got nothing.
Collected == KernelAssumption /\ MessageInv /\ Collecting

(* Then the client waits. *)
LEMMA ClientWaits ==
  ASSUME Collected
  PROVE  /\ wire = FreshWire /\ wire.given = <<>> /\ wire.phase # "ended" /\ wire.starts = 0 /\ wire.text = {}
         /\ wire.top = 0 /\ wire.stop = "none" /\ Sane(wire) /\ Numbered(gen) /\ (C!Buffered => ~OffersTools)
         /\ gen.out = <<>> /\ ~gen.textOpen /\ Typed(gen) /\ Leads(wire, <<>>, wire)
<1>1. wire = FreshWire /\ ~gen.textOpen /\ Sane(wire) /\ Numbered(gen) /\ (C!Buffered => ~OffersTools)
  BY DEF Collected, Collecting, MessageInv
<1>2. gen.out = <<>> /\ Typed(gen) BY NothingYet DEF Collected
<1>3. /\ wire.given = <<>> /\ wire.phase # "ended" /\ wire.starts = 0 /\ wire.text = {} /\ wire.stop = "none"
      /\ wire.top = 0
  BY <1>1 DEF FreshWire
<1>4. QED BY <1>1, <1>2, <1>3, Standing

(* The handler goes on without having said anything. *)
LEMMA StillCollectingMessage ==
  ASSUME Collected, NEW g, g.out = <<>>, ~g.textOpen, Numbered(g), gen' = g, stage' \in Working,
         UNCHANGED <<req, prep, wire>>
  PROVE  MessageInv'
<1>1. Leads(wire, gen'.out, wire) /\ wire.stop = "none" BY ClientWaits
<1>2. Leadable(gen') BY <1>1 DEF Leadable, NotFinal
<1>3. Numbered(gen') OBVIOUS
<1>4. (wire = FreshWire)' /\ ~gen'.textOpen BY ClientWaits DEF FreshWire, Blocks
<1>5. prep.mode' = "collected" BY DEF Collected, Collecting
<1>6. (C!Buffered => ~OffersTools)' BY ClientWaits, Carrying
<1>7. QED BY <1>2, <1>3, <1>4, <1>5, <1>6, Carrying DEF Collected, MessageInv

(* It asks again, or reads on. *)
LEMMA CollectedAdvancingMessage ==
  ASSUME Collected, NEW g, KeptOn(g), C!Advance(g) \/ C!Break(g)
  PROVE  MessageInv'
<1>1. /\ g.attempt \in Tries /\ g.chunks \in 0..MaxChunks /\ g.out = <<>> /\ DOMAIN g = Fields /\ Numbered(g)
      /\ ~g.textOpen
  BY ClientWaits DEF KeptOn, Kept, Numbered
<1>2. CASE C!Advance(g) /\ C!More(g)
  <2> DEFINE h == [g EXCEPT !.attempt = @ + 1]
  <2>1. gen' = h /\ stage' \in Working /\ UNCHANGED <<req, prep, wire>> BY <1>2 DEF C!Advance, Working
  <2>2. h.out = <<>> /\ h.attempt = g.attempt + 1 /\ h.chunks = g.chunks /\ ~h.textOpen BY <1>1 DEF Fields
  <2> HIDE DEF h
  <2>3. g.attempt + 1 \in 0..Attempts - 1 BY <1>1, <1>2 DEF C!More, Tries, Collected, KernelAssumption
  <2>4. Numbered(h) BY <1>1, <2>2, <2>3 DEF Numbered, Tries
  <2>5. QED BY <2>1, <2>2, <2>4, StillCollectingMessage
<1>3. CASE (C!Advance(g) /\ ~C!More(g)) \/ C!Break(g)
  <2>1. gen' = g /\ stage' \in Working /\ UNCHANGED <<req, prep, wire>> BY <1>3 DEF C!Advance, C!Break, Working
  <2>2. QED BY <1>1, <2>1, StillCollectingMessage
<1>4. QED BY <1>2, <1>3

(* It answers with an error. *)
LEMMA CollectedRefusingMessage ==
  ASSUME Collected, C!Refuse
  PROVE  MessageInv'
<1>1. gen' = [gen EXCEPT !.out = <<Ended("error")>>] /\ stage' = "done" /\ UNCHANGED <<req, prep, wire>>
  BY CollectedTexts DEF C!Refuse, C!Respond
<1>2. "error" \in Stops /\ Listed(gen.out) /\ gen.out \o <<Ended("error")>> = <<Ended("error")>>
  <2>1. gen.out = <<>> BY ClientWaits
  <2>2. gen.out \o <<Ended("error")>> = <<Ended("error")>> BY <2>1
  <2>3. QED BY <2>1, <2>2, Short DEF Stops
<1>3. PICK u : Leads(wire, <<Ended("error")>>, u) /\ u.stop = "error"
  <2>1. Leads(wire, gen.out, wire) /\ Sane(wire) /\ wire.phase # "ended" BY ClientWaits
  <2>2. \E u : /\ Leads(wire, gen.out \o <<Ended("error")>>, u) /\ Sane(u)
               /\ u.text = wire.text /\ u.given = wire.given /\ u.stop = "error"
    BY <1>2, <2>1, Parting
  <2>3. QED BY <1>2, <2>2
<1>4. /\ gen'.out = <<Ended("error")>> /\ gen'.attempt = gen.attempt /\ gen'.chunks = gen.chunks
  BY <1>1, ClientWaits DEF Typed, Fields
<1>5. Leadable(gen') BY <1>3, <1>4 DEF Leadable, NotFinal
<1>6. Numbered(gen') BY <1>4, ClientWaits DEF Numbered
<1>7. QED BY <1>1, <1>5, <1>6, Departing DEF Collected

\* An answer whose calls are some the upstream makes, or the repair.
Known(answer) == Whole(answer) /\ \A k \in DOMAIN answer.calls : answer.calls[k] \in Whats

\* What the index of a first call is.
Above(answer) == IF C!TextEvents(answer) = <<>> THEN 0 ELSE 1

\* What the client has after the events s: the text that is shown, and no call.
Showing(answer, s) ==
  /\ Listed(s)
  /\ \E v : /\ Leads(wire, s, v) /\ Ongoing(v) /\ UpTo(v.text, gen.attempt)
            /\ answer.calls = NoCalls => v.text = C!Visible(answer)
            /\ Framed => v.top = Above(answer)

(* The message begins, with its text. *)
LEMMA CollectedShowing ==
  ASSUME Collected, NEW answer, Whole(answer)
  PROVE  Showing(answer, <<Started>> \o C!TextEvents(answer))
<1> DEFINE said == C!Visible(answer)
           t    == C!TextEvents(answer)
           o    == Opening(FALSE, "text", 0)
           z    == <<Grown("text", said, 0)>>
           c    == IF Framed THEN <<Closed("text", 0)>> ELSE <<>>
<1>1. t = <<>> \/ t = (o \o z) \o c BY CollectedTexts DEF C!TextEvents
<1>2. (o \o z) \o c # <<>>
  <2>1. Listed(o) /\ Listed(z) /\ Listed(c) BY Quieten, Short DEF Quiet
  <2>2. In(z) = {Grown("text", said, 0)} BY Short
  <2> HIDE DEF o, z, c, t
  <2>3. Listed(o \o z) /\ In(o \o z) = In(o) \cup In(z) BY <2>1, Concatenation
  <2>4. In((o \o z) \o c) = In(o \o z) \cup In(c) BY <2>1, <2>3, Concatenation
  <2>5. QED BY <2>2, <2>3, <2>4, Short
<1>7. t = <<>> => said = {} \/ answer.calls # NoCalls
  <2>1. SUFFICES ASSUME t = <<>>, said # {}, answer.calls = NoCalls PROVE FALSE OBVIOUS
  <2>2. t = (o \o z) \o c BY <2>1, CollectedTexts DEF C!TextEvents
  <2>3. QED BY <1>2, <2>1, <2>2
<1>3. UpTo(said, gen.attempt) /\ UpTo(said, Attempts - 1)
  <2>1. gen.attempt \in Tries BY ClientWaits DEF Numbered
  <2>2. gen.attempt \in 0..gen.attempt BY <2>1, Trying DEF Collected
  <2>3. UpTo(said, gen.attempt) BY <2>2, SeenText DEF From, UpTo
  <2>4. QED BY <2>1, <2>3, Trying DEF Collected
<1> HIDE DEF said
<1>4. CASE t = <<>>
  <2>1. <<Started>> \o t = <<Started>>
    <3>1. <<Started>> \o <<>> = <<Started>> OBVIOUS
    <3>2. QED BY <1>4, <3>1
  <2>2. Starting(FreshGen) = <<Started>> /\ ~FreshGen.started BY DEF Starting, FreshGen
  <2>3. \E u : /\ Leads(wire, Starting(FreshGen), u) /\ Ongoing(u)
               /\ u.blocks = wire.blocks /\ u.top = wire.top /\ u.text = wire.text
    BY <2>2, ClientWaits, Beginning
  <2>4. PICK v : Leads(wire, <<Started>>, v) /\ Ongoing(v) /\ v.text = {} /\ v.top = 0 BY <2>2, <2>3, ClientWaits
  <2>5. UpTo(v.text, gen.attempt) BY <2>4 DEF UpTo
  <2>6. answer.calls = NoCalls => v.text = said BY <1>7, <1>4, <2>4
  <2>7. v.top = Above(answer) BY <1>4, <2>4 DEF Above
  <2>8. Listed(<<Started>>) BY Short
  <2> HIDE DEF t
  <2>9. Listed(<<Started>> \o t) /\ Leads(wire, <<Started>> \o t, v) BY <2>1, <2>4, <2>8
  <2>10. QED BY <2>4, <2>5, <2>6, <2>7, <2>9 DEF Showing, said, t
<1>5. CASE t = (o \o z) \o c
  <2>1. Listed(o) /\ Listed(z) /\ Listed(c) /\ Listed(<<Started>>) BY Quieten, Short DEF Quiet
  <2>8. Above(answer) = 1 BY <1>2, <1>5 DEF Above
  <2>2. OneTextIn(wire, said, ((<<Started>> \o o) \o z) \o c) BY <1>3, ClientWaits, OneTextLeads
  <2> HIDE DEF o, z, c, t
  <2>3. <<Started>> \o t = ((<<Started>> \o o) \o z) \o c
    <3> DEFINE first == <<Started>>
               both  == o \o z
    <3>1. Listed(first) BY <2>1
    <3> HIDE DEF first
    <3>2. (first \o o) \o z = first \o (o \o z)
      <4>1. Listed(o) BY <2>1
      <4>2. Listed(z) BY <2>1
      <4>3. QED BY ONLY <3>1, <4>1, <4>2, Associating
    <3>3. Listed(both) BY <2>1, Concatenation
    <3> HIDE DEF both
    <3>4. (first \o both) \o c = first \o (both \o c)
      <4>1. Listed(c) BY <2>1
      <4>2. QED BY ONLY <3>1, <3>3, <4>1, Associating
    <3>5. first \o t = ((first \o o) \o z) \o c BY <1>5, <3>2, <3>4 DEF both
    <3>6. QED BY <3>5 DEF first
  <2>4. OneTextIn(wire, said, <<Started>> \o t) BY <2>2, <2>3
  <2>5. PICK v : /\ Listed(<<Started>> \o t) /\ Leads(wire, <<Started>> \o t, v) /\ Ongoing(v)
                 /\ v.text = wire.text \cup said /\ (Framed => v.top = 1)
    BY <2>4 DEF OneTextIn
  <2>6. v.text = said BY <2>5, ClientWaits
  <2>7. QED BY <1>3, <2>5, <2>6, <2>8 DEF Showing, said, t
<1>6. QED BY <1>1, <1>4, <1>5

(* The calls that are sent are calls of the answer. *)
LEMMA EmittedKnown ==
  ASSUME NEW answer, Known(answer)
  PROVE  \A k \in C!EmittedCalls(answer) : answer.calls[k] \in Whats
<1>1. C!EmittedCalls(answer) \subseteq DOMAIN answer.calls
  BY DEF C!EmittedCalls, C!Deduplicated, C!Streamable
<1>2. QED BY <1>1 DEF Known

(* An answer is sent as a whole. *)
LEMMA CollectedAnsweringMessage ==
  ASSUME Collected, NEW answer, Known(answer), NEW cut, C!Answer(answer, cut)
  PROVE  MessageInv'
<1> DEFINE c    == [gen EXCEPT !.calls = answer.calls, !.next = Above(answer)]
           K    == C!EmittedCalls(answer)
           last == C!StopOf(answer, cut)
           t    == C!TextEvents(answer)
           s    == <<Started>> \o t
           r    == Concluded(s, c, K, last)
<1>1. CASE C!Refuse BY <1>1, CollectedRefusingMessage
<1>2. CASE ~C!Refuse
  <2>1. gen' = [gen EXCEPT !.out = r] /\ stage' = "done" /\ UNCHANGED <<req, prep, wire>>
    BY <1>2, CollectedTexts, CollectedOrder DEF C!Answer, C!Respond, C!CallEvents, Concluded, Above
  <2>2. K = {} /\ answer.calls # NoCalls => C!Buffered BY <1>2, CollectedTexts DEF C!Answer
  <2>3. /\ c.attempt = gen.attempt /\ c.calls = answer.calls
        /\ c.next = Above(answer) /\ ~c.textOpen
    BY ClientWaits DEF Typed, Fields
  <2>4. IsFiniteSet(K) /\ K \subseteq Nat /\ \A k \in K : c.calls[k] \in Whats
    BY <2>3, EmittedWhole, EmittedKnown DEF Known
  <2>5. last \in Stops BY DEF C!StopOf, Stops
  <2>6. K = {} /\ req.cc /\ OffersTools /\ answer.calls = NoCalls /\ Unfinished(C!Visible(answer)) => last # "stop"
    BY DEF C!StopOf, C!Unanswered, C!OffersTools, OffersTools, C!NoCalls, NoCalls, C!Unfinished, Unfinished, C!Has, Has
  <2>7. Showing(answer, s) BY CollectedShowing DEF Known
  <2> HIDE DEF s, c, K, last, r
  <2>8. PICK v : /\ Listed(s) /\ Leads(wire, s, v) /\ Ongoing(v) /\ UpTo(v.text, gen.attempt)
                 /\ answer.calls = NoCalls => v.text = C!Visible(answer)
                 /\ Framed => v.top = Above(answer)
    BY <2>7 DEF Showing
  <2>a. Addressed(c, K, v)
    <3>1. CallsAt(c) = Above(answer) BY <2>3 DEF CallsAt
    <3>2. v.top \in Nat BY <2>8 DEF Ongoing, Sane
    <3>3. QED BY <2>8, <3>1, <3>2 DEF Addressed, Free, Untaken
  <2>9. c.attempt \in Tries BY <2>3, ClientWaits DEF Numbered
  <2>10. Sent(r, v.text, K, last)
    <3>1. Sane(v) /\ v.given = <<>> /\ v.phase # "ended" /\ v.phase = "open" /\ UpTo(v.text, c.attempt)
      BY <2>3, <2>8 DEF Ongoing
    <3>2. QED BY <2>4, <2>5, <2>8, <2>9, <2>a, <3>1, Sending DEF Collected, r
  <2>11. req.cc /\ OffersTools /\ Unfinished(v.text) /\ K = {} => last # "stop"
    <3>1. SUFFICES ASSUME req.cc, OffersTools, Unfinished(v.text), K = {} PROVE last # "stop" OBVIOUS
    <3>2. answer.calls = NoCalls BY <2>2, <3>1, ClientWaits
    <3>3. QED BY <2>6, <2>8, <3>1, <3>2
  <2>12. gen'.out = r /\ gen'.attempt = gen.attempt /\ gen'.chunks = gen.chunks
    BY <2>1, ClientWaits DEF Typed, Fields
  <2>13. Numbered(gen') BY <2>12, ClientWaits DEF Numbered
  <2>14. Sent(gen'.out, v.text, K, last) BY <2>10, <2>12
  <2>15. QED BY <2>1, <2>11, <2>13, <2>14, Ending DEF Collected
<1>3. QED BY <1>1, <1>2

(* The kernel's own words are sent instead. *)
LEMMA CollectedOwnMessage ==
  ASSUME Collected, C!OwnAnswer
  PROVE  MessageInv'
<1> DEFINE answer == [text |-> Own(gen), reasoning |-> {}, calls |-> NoCalls]
<1>1. C!Answer(answer, FALSE) BY CollectedTexts DEF C!OwnAnswer
<1>2. Whole(answer) BY OwnIsClean, NoCallsTyped, Texts DEF Whole
<1>3. Known(answer) BY <1>2 DEF Known, NoCalls
<1> HIDE DEF answer
<1>4. QED BY <1>1, <1>3, CollectedAnsweringMessage

(* The steps that keep what was said, that is nothing. *)
LEMMA KeepsOn ==
  ASSUME Collecting
  PROVE  /\ KeptOn(gen) /\ KeptOn(C!Empty(gen)) /\ KeptOn([gen EXCEPT !.fault = "incomplete"])
         /\ \A g, tried : KeptOn(g) => KeptOn(C!Use(g, tried))
<1>1. Typed(gen) BY NothingYet
<1>2. KeptOn(gen) BY <1>1, Keeps DEF KeptOn
<1>3. KeptOn(C!Empty(gen))
  <2>1. LET h == C!Empty(gen) IN h.attempt = gen.attempt /\ h.chunks = gen.chunks /\ h.textOpen = gen.textOpen
    BY <1>1 DEF Typed, Fields, C!Empty
  <2>2. QED BY <2>1, Keeps DEF KeptOn
<1>4. KeptOn([gen EXCEPT !.fault = "incomplete"])
  <2> DEFINE h == [gen EXCEPT !.fault = "incomplete"]
  <2>1. h.attempt = gen.attempt /\ h.chunks = gen.chunks /\ h.textOpen = gen.textOpen /\ Kept(h)
    BY <1>1, Keeps DEF Typed, Fields
  <2> HIDE DEF h
  <2>2. KeptOn(h) BY <2>1 DEF KeptOn
  <2>3. QED BY <2>2 DEF h
<1>5. ASSUME NEW g, NEW tried, KeptOn(g) PROVE KeptOn(C!Use(g, tried))
  <2>1. LET h == C!Use(g, tried) IN h.attempt = g.attempt /\ h.chunks = g.chunks /\ h.textOpen = g.textOpen
    BY <1>5 DEF KeptOn, Kept, Fields, C!Use
  <2>2. QED BY <1>5, <2>1, Keeps DEF KeptOn
<1>6. QED BY <1>2, <1>3, <1>4, <1>5

(* The last resort: an answer of nothing but the end. *)
LEMMA CollectedGivingMessage ==
  ASSUME Collected, C!Give(gen)
  PROVE  MessageInv'
<1>1. C!Advance(gen) \/ C!Refuse BY DEF C!Give
<1>2. QED BY <1>1, KeepsOn, CollectedAdvancingMessage, CollectedRefusingMessage DEF Collected

(* An answer is sent, or another attempt made of it. *)
LEMMA CollectedJudgingMessage ==
  ASSUME Collected, NEW original, Known(original), DOMAIN original = {"text", "reasoning", "calls"},
         NEW cut, C!Judge(original, cut)
  PROVE  MessageInv'
<1> DEFINE answer == C!RepairedAnswer(original)
<1>1. Known(answer)
  <2>1. CASE answer = original BY <2>1
  <2>2. CASE answer # original
    <3>1. answer = [original EXCEPT !.calls = RepairedCall, !.text = {}]
      BY <2>2, CollectedTexts DEF C!RepairedAnswer
    <3>2. answer.text = {} /\ answer.reasoning = original.reasoning /\ answer.calls = RepairedCall BY <3>1
    <3> HIDE DEF answer
    <3>3. Whole(answer) BY <3>2, Repairing, Texts DEF Whole, Known
    <3>4. \A k \in DOMAIN RepairedCall : RepairedCall[k] = "repaired" BY Repairing
    <3>5. "repaired" \in Whats BY DEF Whats
    <3>6. QED BY <3>2, <3>3, <3>4, <3>5 DEF Known
  <2>3. QED BY <2>1, <2>2
<1>2. \/ C!Give(gen)
      \/ C!Advance(C!Empty(gen))
      \/ C!Advance(C!Use(C!Empty(gen), {"reasoning"}))
      \/ C!OwnAnswer
      \/ C!Refuse
      \/ \E tried : C!Advance(C!Use([gen EXCEPT !.fault = "incomplete"], tried))
      \/ C!Answer(answer, cut)
  BY DEF C!Judge
<1> HIDE DEF answer
<1>3. Collecting BY DEF Collected
<1>4. CASE C!Give(gen) BY <1>4, CollectedGivingMessage
<1>5. CASE C!Advance(C!Empty(gen)) BY <1>3, <1>5, KeepsOn, CollectedAdvancingMessage
<1>6. CASE C!Advance(C!Use(C!Empty(gen), {"reasoning"})) BY <1>3, <1>6, KeepsOn, CollectedAdvancingMessage
<1>7. CASE C!OwnAnswer BY <1>7, CollectedOwnMessage
<1>8. CASE C!Refuse BY <1>8, CollectedRefusingMessage
<1>9. CASE \E tried : C!Advance(C!Use([gen EXCEPT !.fault = "incomplete"], tried))
  BY <1>3, <1>9, KeepsOn, CollectedAdvancingMessage
<1>10. CASE C!Answer(answer, cut) BY <1>1, <1>10, CollectedAnsweringMessage
<1>11. QED BY <1>2, <1>4, <1>5, <1>6, <1>7, <1>8, <1>9, <1>10

(* An answer has been collected. *)
LEMMA CollectedCollectMessage ==
  ASSUME CollectionsAssumption, Collected, NEW collected \in Collections, NEW end, NEW finish,
         C!Collect(collected, end, finish)
  PROVE  MessageInv'
<1> DEFINE answer == C!Brought(collected)
<1>1. /\ DOMAIN answer = {"text", "reasoning", "calls"} /\ answer.calls = collected.calls
      /\ answer.text = C!Tagged(collected.text) /\ answer.reasoning = C!Tagged(collected.reasoning)
  BY DEF C!Brought, CollectionsAssumption
<1>2. \A kinds : From(C!Tagged(kinds), gen.attempt) BY CollectedTexts DEF C!Tagged, From, Piece
<1>3. \/ \E cut : C!Judge(answer, cut)
      \/ C!NothingForwarded(answer)
      \/ C!Give(gen)
  <2>1. C!Outcome(answer, end) \in {"kept", "nothing", "error"} BY DEF C!Outcome
  <2> HIDE DEF answer
  <2>2. CASE C!Outcome(answer, end) = "kept" BY <2>2 DEF C!Collect, answer
  <2>3. CASE C!Outcome(answer, end) = "nothing" BY <2>3 DEF C!Collect, answer
  <2>4. CASE C!Outcome(answer, end) = "error" BY <2>4 DEF C!Collect, answer
  <2>5. QED BY <2>1, <2>2, <2>3, <2>4
<1> HIDE DEF answer
<1>4. Whole(answer) BY <1>1, <1>2 DEF Whole, CollectionsAssumption
<1>5. Known(answer) BY <1>1, <1>4 DEF Known, CollectionsAssumption, Whats
<1>6. Collecting BY DEF Collected
<1>7. CASE \E cut : C!Judge(answer, cut) BY <1>1, <1>5, <1>7, CollectedJudgingMessage
<1>8. CASE C!NothingForwarded(answer)
  <2>1. \/ C!Judge(answer, FALSE) \/ C!OwnAnswer
        \/ C!Break(C!Empty(gen))
        \/ C!Advance(C!Use(C!Empty(gen), {"stream"}))
    BY <1>8 DEF C!NothingForwarded
  <2>2. CASE C!Judge(answer, FALSE) BY <1>1, <1>5, <2>2, CollectedJudgingMessage
  <2>3. CASE C!Break(C!Empty(gen)) BY <1>6, <2>3, KeepsOn, CollectedAdvancingMessage
  <2>4. CASE C!Advance(C!Use(C!Empty(gen), {"stream"})) BY <1>6, <2>4, KeepsOn, CollectedAdvancingMessage
  <2>5. CASE C!OwnAnswer BY <2>5, CollectedOwnMessage
  <2>6. QED BY <2>1, <2>2, <2>3, <2>4, <2>5
<1>9. CASE C!Give(gen) BY <1>9, CollectedGivingMessage
<1>10. QED BY <1>3, <1>7, <1>8, <1>9

(* Every step of the collecting handler. *)
LEMMA CollectedStepsMessage ==
  ASSUME KernelAssumption, CollectionsAssumption, KernelInv, MessageInv, AnswerCollected
  PROVE  MessageInv'
<1>0. prep.mode = "collected" BY DEF AnswerCollected, InMode
<1>1. CASE C!FetchSucceeds
  <2>1. stage = "fetch" /\ stage' = "read" /\ UNCHANGED <<req, prep, gen, wire>>
    BY <1>1 DEF C!FetchSucceeds, C!At
  <2>2. Collected /\ stage' \in Working BY <1>0, <2>1 DEF Collected, Collecting, Working
  <2>3. gen' = gen BY <2>1
  <2>4. QED BY <2>1, <2>2, <2>3, ClientWaits, StillCollectingMessage
<1>2. CASE C!Exhausted
  <2>1. stage = "finish" /\ (C!OwnAnswer \/ C!Refuse) BY <1>2 DEF C!Exhausted, C!At
  <2>2. Collected BY <1>0, <2>1 DEF Collected, Collecting, Working
  <2>3. QED BY <2>1, <2>2, CollectedOwnMessage, CollectedRefusingMessage
<1>3. CASE \E error \in Errors : C!FetchFails(error)
  <2>1. PICK error \in Errors : C!FetchFails(error) BY <1>3
  <2>2. stage = "fetch" /\ ((\E tried : C!Advance(C!Use(gen, tried))) \/ C!Give(gen))
    BY <2>1 DEF C!FetchFails, C!At
  <2>3. Collected /\ Collecting BY <1>0, <2>2 DEF Collected, Collecting, Working
  <2>4. QED BY <2>2, <2>3, KeepsOn, CollectedAdvancingMessage, CollectedGivingMessage
<1>4. CASE \E answer \in Collections, end \in C!Ends, finish \in Finishes : C!Collect(answer, end, finish)
  <2>1. PICK answer \in Collections, end \in C!Ends, finish \in Finishes : C!Collect(answer, end, finish) BY <1>4
  <2>2. stage = "read" BY <2>1 DEF C!Collect, C!At
  <2>3. Collected BY <1>0, <2>2 DEF Collected, Collecting, Working
  <2>4. QED BY <2>1, <2>3, CollectedCollectMessage
<1>5. QED BY <1>1, <1>2, <1>3, <1>4 DEF AnswerCollected

-----------------------------------------------------------------------------
(* The handlers as wholes, with respect to the message *)

(* Every step of the Anthropic handler. *)
LEMMA AnthropicStepsMessage ==
  ASSUME KernelAssumption, DeltasAssumption, KernelInv, MessageInv, AnswerAnthropic
  PROVE  MessageInv'
<1>1. prep.mode = "anthropic" /\ prep.mode # "collected" BY DEF AnswerAnthropic, InMode
<1>2. \A step \in Working : stage = step /\ gen.out = <<>> => Handling(step)
  BY <1>1, HandlingHolds
<1>3. "fetch" \in Working /\ "read" \in Working /\ "settle" \in Working /\ "finish" \in Working BY DEF Working
<1>4. CASE A!FetchSucceeds
  <2>1. Handling("fetch") BY <1>2, <1>3, <1>4 DEF A!FetchSucceeds, A!At
  <2>2. QED BY <1>4, <2>1, <1>1, FetchSucceedsMessage DEF A!FetchSucceeds
<1>5. CASE A!Stall
  <2>1. Handling("read") BY <1>2, <1>3, <1>5 DEF A!Stall, A!At
  <2>2. QED BY <1>5, <2>1, <1>1, AnthropicStallMessage
<1>6. CASE A!StreamFails
  <2>1. Handling("read") BY <1>2, <1>3, <1>6 DEF A!StreamFails, A!At
  <2>2. QED BY <1>6, <2>1, <1>1, AnthropicStreamFailsMessage
<1>7. CASE A!Settle
  <2>1. Handling("settle") BY <1>2, <1>3, <1>7 DEF A!Settle, A!At
  <2>2. QED BY <1>7, <2>1, <1>1, AnthropicSettleMessage
<1>8. CASE \E error \in Errors : A!FetchFails(error)
  <2>1. PICK error \in Errors : A!FetchFails(error) BY <1>8
  <2>2. Handling("fetch") BY <1>2, <1>3, <2>1 DEF A!FetchFails, A!At
  <2>3. QED BY <2>1, <2>2, <1>1, AnthropicFetchFailsMessage
<1>9. CASE \E kind \in ContentKinds : A!Content(kind)
  <2>1. PICK kind \in ContentKinds : A!Content(kind) BY <1>9
  <2>2. Handling("read") BY <1>2, <1>3, <2>1 DEF A!Content, A!Reading, A!At
  <2>3. QED BY <2>1, <2>2, <1>1, AnthropicContentMessage
<1>10. CASE \E kind \in ReasoningKinds : A!Reasoning(kind)
  <2>1. PICK kind \in ReasoningKinds : A!Reasoning(kind) BY <1>10
  <2>2. Handling("read") BY <1>2, <1>3, <2>1 DEF A!Reasoning, A!Reading, A!At
  <2>3. QED BY <2>1, <2>2, <1>1, AnthropicReasoningMessage
<1>11. CASE \E delta \in Deltas : A!ToolDelta(delta)
  <2>1. PICK delta \in Deltas : A!ToolDelta(delta) BY <1>11
  <2>2. Handling("read") BY <1>2, <1>3, <2>1 DEF A!ToolDelta, A!Reading, A!At
  <2>3. QED BY <2>1, <2>2, <1>1, AnthropicToolDeltaMessage
<1>12. CASE \E finish \in Finishes : A!StreamEnds(finish)
  <2>1. PICK finish \in Finishes : A!StreamEnds(finish) BY <1>12
  <2>2. Handling("read") BY <1>2, <1>3, <2>1 DEF A!StreamEnds, A!At
  <2>3. QED BY <2>1, <2>2, <1>1, AnthropicStreamEndsMessage
<1>13. CASE \E long \in BOOLEAN : A!End(long)
  <2>1. PICK long \in BOOLEAN : A!End(long) BY <1>13
  <2>2. Handling("finish") BY <1>2, <1>3, <2>1 DEF A!End, A!At
  <2>3. QED BY <2>1, <2>2, <1>1, AnthropicEndMessage
<1>14. QED BY <1>4, <1>5, <1>6, <1>7, <1>8, <1>9, <1>10, <1>11, <1>12, <1>13 DEF AnswerAnthropic

(* Every step of the OpenAI handler. *)
LEMMA OpenAiStepsMessage ==
  ASSUME KernelAssumption, DeltasAssumption, KernelInv, MessageInv, AnswerOpenai
  PROVE  MessageInv'
<1>1. prep.mode = "openai" /\ prep.mode # "collected" BY DEF AnswerOpenai, InMode
<1>2. \A step \in Working : stage = step /\ gen.out = <<>> => Handling(step)
  BY <1>1, HandlingHolds
<1>3. "fetch" \in Working /\ "read" \in Working /\ "settle" \in Working /\ "finish" \in Working BY DEF Working
<1>4. CASE O!FetchSucceeds
  <2>1. Handling("fetch") BY <1>2, <1>3, <1>4 DEF O!FetchSucceeds, O!At
  <2>2. QED BY <1>4, <2>1, <1>1, FetchSucceedsMessage DEF O!FetchSucceeds
<1>5. CASE O!StreamFails
  <2>1. Handling("read") BY <1>2, <1>3, <1>5 DEF O!StreamFails, O!At
  <2>2. QED BY <1>5, <2>1, <1>1, OpenAiStreamFailsMessage
<1>6. CASE O!Settle
  <2>1. Handling("settle") BY <1>2, <1>3, <1>6 DEF O!Settle, O!At
  <2>2. QED BY <1>6, <2>1, <1>1, OpenAiSettleMessage
<1>7. CASE O!End
  <2>1. Handling("finish") BY <1>2, <1>3, <1>7 DEF O!End, O!At
  <2>2. QED BY <1>7, <2>1, <1>1, OpenAiEndMessage
<1>8. CASE \E error \in Errors : O!FetchFails(error)
  <2>1. PICK error \in Errors : O!FetchFails(error) BY <1>8
  <2>2. Handling("fetch") BY <1>2, <1>3, <2>1 DEF O!FetchFails, O!At
  <2>3. QED BY <2>1, <2>2, <1>1, OpenAiFetchFailsMessage
<1>9. CASE \E kind \in ContentKinds : O!Content(kind)
  <2>1. PICK kind \in ContentKinds : O!Content(kind) BY <1>9
  <2>2. Handling("read") BY <1>2, <1>3, <2>1 DEF O!Content, O!Reading, O!At
  <2>3. QED BY <2>1, <2>2, <1>1, OpenAiContentMessage
<1>10. CASE \E kind \in ReasoningKinds : O!Reasoning(kind)
  <2>1. PICK kind \in ReasoningKinds : O!Reasoning(kind) BY <1>10
  <2>2. Handling("read") BY <1>2, <1>3, <2>1 DEF O!Reasoning, O!Reading, O!At
  <2>3. QED BY <2>1, <2>2, <1>1, OpenAiReasoningMessage
<1>11. CASE \E delta \in Deltas : O!ToolDelta(delta)
  <2>1. PICK delta \in Deltas : O!ToolDelta(delta) BY <1>11
  <2>2. Handling("read") BY <1>2, <1>3, <2>1 DEF O!ToolDelta, O!Reading, O!At
  <2>3. QED BY <2>1, <2>2, <1>1, OpenAiToolDeltaMessage
<1>12. CASE \E finish \in Finishes : O!StreamEnds(finish)
  <2>1. PICK finish \in Finishes : O!StreamEnds(finish) BY <1>12
  <2>2. Handling("read") BY <1>2, <1>3, <2>1 DEF O!StreamEnds, O!At
  <2>3. QED BY <2>1, <2>2, <1>1, OpenAiStreamEndsMessage
<1>13. QED BY <1>4, <1>5, <1>6, <1>7, <1>8, <1>9, <1>10, <1>11, <1>12 DEF AnswerOpenai

-----------------------------------------------------------------------------
(* What the client does not see *)

AllStages == Early \cup Working \cup {"done", "gone"}

\* A step that the client has no part in.
Apart == UNCHANGED <<req, wire>> /\ stage' \in AllStages \cup {stage}

(* No step before the handlers reaches the client. *)
LEMMA EarlyStepsApart ==
  ASSUME GuardBefore \/ Govern \/ GuardAfter \/ Translate \/ ShortenContext \/ AnchorInstruction \/ Canonicalize
         \/ Dispatch
  PROVE  Apart
<1>1. Reject => Apart BY DEF Reject, Apart, AllStages
<1>2. \A next \in Early \cup Working : \A p : Proceed(next, p) => Apart BY DEF Proceed, Apart, AllStages
<1> DEFINE goes == \E next \in Early \cup Working : \E p : Proceed(next, p)
<1>3. CASE GuardBefore
  <2>1. Reject \/ goes BY <1>3 DEF GuardBefore, Early
  <2>2. QED BY <1>1, <1>2, <2>1
<1>4. CASE Govern
  <2>1. Reject \/ goes BY <1>4 DEF Govern, Early
  <2>2. QED BY <1>1, <1>2, <2>1
<1>5. CASE GuardAfter
  <2>1. Reject \/ goes BY <1>5 DEF GuardAfter, Early
  <2>2. QED BY <1>1, <1>2, <2>1
<1>6. CASE Translate \/ ShortenContext \/ AnchorInstruction \/ Canonicalize
  <2>1. goes BY <1>6 DEF Translate, ShortenContext, AnchorInstruction, Canonicalize, Early
  <2>2. QED BY <1>2, <2>1
<1>7. CASE Dispatch
  <2>1. (stage' = "done" /\ UNCHANGED <<req, wire>>) \/ goes BY <1>7 DEF Dispatch, Working
  <2>2. QED BY <1>2, <2>1 DEF Apart, AllStages
<1>8. QED BY <1>3, <1>4, <1>5, <1>6, <1>7

(* Nor does the Anthropic handler. *)
LEMMA AnthropicApart ==
  ASSUME AnswerAnthropic
  PROVE  Apart
<1>1. \A g, tried : A!Retry(g, tried) => Apart BY DEF A!Retry, Apart, AllStages, Working
<1>2. \A g : A!Finish(g) \/ A!Fail(g) => Apart BY DEF A!Finish, A!Fail, Apart, AllStages, Working
<1>3. \A g : A!Keep(g) => Apart BY DEF A!Keep, Apart
<1>4. CASE A!FetchSucceeds \/ A!Stall BY <1>1, <1>4 DEF A!FetchSucceeds, A!Stall, Apart, AllStages, Working
<1>5. CASE A!StreamFails BY <1>1, <1>2, <1>5 DEF A!StreamFails
<1>6. CASE A!Settle BY <1>1, <1>2, <1>6 DEF A!Settle
<1>7. CASE \E error \in Errors : A!FetchFails(error) BY <1>1, <1>2, <1>7 DEF A!FetchFails
<1>8. CASE \E kind \in ContentKinds : A!Content(kind) BY <1>3, <1>8 DEF A!Content
<1>9. CASE \E kind \in ReasoningKinds : A!Reasoning(kind) BY <1>3, <1>9 DEF A!Reasoning
<1>10. CASE \E delta \in Deltas : A!ToolDelta(delta) BY <1>3, <1>10 DEF A!ToolDelta
<1>11. CASE \E finish \in Finishes : A!StreamEnds(finish) BY <1>11 DEF A!StreamEnds, Apart, AllStages, Working
<1>12. CASE \E long \in BOOLEAN : A!End(long) BY <1>2, <1>12 DEF A!End, Apart, AllStages
<1>13. QED BY <1>4, <1>5, <1>6, <1>7, <1>8, <1>9, <1>10, <1>11, <1>12 DEF AnswerAnthropic

(* Nor the OpenAI handler. *)
LEMMA OpenAiApart ==
  ASSUME AnswerOpenai
  PROVE  Apart
<1>1. \A g : O!Retry(g) \/ O!Fail(g) => Apart BY DEF O!Retry, O!Fail, Apart, AllStages, Working
<1>2. \A g : O!Keep(g) => Apart BY DEF O!Keep, Apart
<1>3. CASE O!FetchSucceeds BY <1>3 DEF O!FetchSucceeds, Apart, AllStages, Working
<1>4. CASE O!StreamFails BY <1>1, <1>4 DEF O!StreamFails
<1>5. CASE O!Settle BY <1>1, <1>5 DEF O!Settle, Apart, AllStages, Working
<1>6. CASE O!End BY <1>1, <1>6 DEF O!End, Apart, AllStages
<1>7. CASE \E error \in Errors : O!FetchFails(error) BY <1>1, <1>7 DEF O!FetchFails, Apart
<1>8. CASE \E kind \in ContentKinds : O!Content(kind) BY <1>2, <1>8 DEF O!Content
<1>9. CASE \E kind \in ReasoningKinds : O!Reasoning(kind) BY <1>2, <1>9 DEF O!Reasoning
<1>10. CASE \E delta \in Deltas : O!ToolDelta(delta) BY <1>2, <1>10 DEF O!ToolDelta
<1>11. CASE \E finish \in Finishes : O!StreamEnds(finish) BY <1>11 DEF O!StreamEnds, Apart, AllStages, Working
<1>12. QED BY <1>3, <1>4, <1>5, <1>6, <1>7, <1>8, <1>9, <1>10, <1>11 DEF AnswerOpenai

(* Nor the collecting handler. *)
LEMMA CollectedApart ==
  ASSUME AnswerCollected
  PROVE  Apart
<1>1. \A g : C!Advance(g) \/ C!Break(g) => Apart BY DEF C!Advance, C!Break, Apart, AllStages, Working
<1>2. \A events : C!Respond(events) => Apart BY DEF C!Respond, Apart, AllStages
<1>3. C!Refuse => Apart BY <1>2 DEF C!Refuse
<1>4. \A g : C!Give(g) => Apart BY <1>1, <1>3 DEF C!Give
<1>5. \A answer, cut : C!Answer(answer, cut) => Apart BY <1>2, <1>3 DEF C!Answer
<1>6. C!OwnAnswer => Apart BY <1>5 DEF C!OwnAnswer
<1>7. \A answer, cut : C!Judge(answer, cut) => Apart
  <2> TAKE original, cut
  <2> DEFINE answer == C!RepairedAnswer(original)
  <2>1. C!Judge(original, cut)
          => \/ \E g : C!Give(g) \/ C!Advance(g)
             \/ C!OwnAnswer \/ C!Refuse \/ C!Answer(answer, cut)
    BY DEF C!Judge
  <2>2. QED BY <1>1, <1>3, <1>4, <1>5, <1>6, <2>1
<1>8. \A answer : C!NothingForwarded(answer) => Apart BY <1>1, <1>6, <1>7 DEF C!NothingForwarded
<1>9. CASE C!FetchSucceeds BY <1>9 DEF C!FetchSucceeds, Apart, AllStages, Working
<1>10. CASE C!Exhausted BY <1>3, <1>6, <1>10 DEF C!Exhausted
<1>11. CASE \E error \in Errors : C!FetchFails(error) BY <1>1, <1>4, <1>11 DEF C!FetchFails
<1>12. CASE \E answer \in Collections, end \in C!Ends, finish \in Finishes : C!Collect(answer, end, finish)
  <2>1. PICK collected \in Collections, end \in C!Ends, finish \in Finishes : C!Collect(collected, end, finish)
    BY <1>12
  <2> DEFINE answer == C!Brought(collected)
  <2>2. C!Outcome(answer, end) \in {"kept", "nothing", "error"} BY DEF C!Outcome
  <2>3. (\E cut : C!Judge(answer, cut)) \/ C!NothingForwarded(answer) \/ C!Give(gen)
    BY <2>1, <2>2 DEF C!Collect
  <2>4. QED BY <1>4, <1>7, <1>8, <2>3
<1>13. QED BY <1>9, <1>10, <1>11, <1>12 DEF AnswerCollected

-----------------------------------------------------------------------------
(* The theorems about the message *)

\* The second invariant: from what the client has, the events on their way
\* lead it, one step of a message after the other, to something that a handler
\* at work knows, the indices of the blocks with it, and may go on from.
THEOREM MessageInvariant == Spec => []MessageInv
<1>1. Init /\ KernelInv => MessageInv BY KernelAssumption, RequestsAssumption, InitMessage
<1>2. KernelInv /\ MessageInv /\ [Next]_vars => MessageInv'
  <2> SUFFICES ASSUME KernelInv, MessageInv, [Next]_vars PROVE MessageInv' OBVIOUS
  <2> USE KernelAssumption
  <2>1. CASE GuardBefore \/ Govern \/ GuardAfter \/ Translate \/ ShortenContext \/ AnchorInstruction \/ Canonicalize
    BY <2>1, EarlyStepsMessage
  <2>2. CASE Dispatch BY <2>2, DispatchingMessage
  <2>3. CASE AnswerAnthropic BY <2>3, DeltasAssumption, AnthropicStepsMessage
  <2>4. CASE AnswerOpenai BY <2>4, DeltasAssumption, OpenAiStepsMessage
  <2>5. CASE AnswerCollected BY <2>5, CollectionsAssumption, CollectedStepsMessage
  <2>6. CASE Deliver BY <2>6, DeliveringMessage
  <2>7. CASE HangUp BY <2>7, HangingUpMessage
  <2>8. CASE UNCHANGED vars BY <2>8, StutterKeepsMessage
  <2>9. QED BY <2>1, <2>2, <2>3, <2>4, <2>5, <2>6, <2>7, <2>8 DEF Next, Work
<1>3. QED BY <1>1, <1>2, KernelInvariant, PTL DEF Spec

(* A message that has not begun. *)
LEMMA InitFollows ==
  ASSUME Init
  PROVE  ClientStream!Init
<1>1. wire = FreshWire BY DEF Init
<1>2. /\ wire.phase = "waiting" /\ wire.starts = 0 /\ wire.blocks = [kind \in Blocks |-> {}] /\ wire.top = 0
      /\ wire.text = {} /\ wire.given = <<>>
  BY <1>1 DEF FreshWire
<1>3. AttemptsOf(wire.text) = {} BY <1>2 DEF AttemptsOf
<1>4. ClientStream!Kinds = Blocks BY DEF ClientStream!Kinds, Blocks
<1>5. (req.cc \/ ~Framed) \in BOOLEAN /\ Framed \in BOOLEAN BY DEF Framed
<1>6. QED BY <1>2, <1>3, <1>4, <1>5 DEF ClientStream!Init

\* What the client's message shares with what it had before.
Unmoved(u, w) == u.phase = w.phase /\ u.starts = w.starts /\ u.text = w.text /\ u.given = w.given

(* What the client takes is a step of the message. *)
LEMMA TakingFollows ==
  ASSUME KernelInv, MessageInv, Deliver
  PROVE  ClientStream!Next
<1> DEFINE e == Head(gen.out)
<1>1. Follows(wire, e) /\ wire' = Received(wire, e) /\ req' = req
  BY DeliveringMessage DEF Deliver
<1> HIDE DEF e
<1>2. /\ DOMAIN wire = WireFields /\ wire.blocks \in [Blocks -> SUBSET Nat] /\ wire.top \in Nat
      /\ \A kind \in Blocks : \A n \in wire.blocks[kind] : n \in Nat /\ n < wire.top
      /\ UpTo(wire.text, Attempts - 1) /\ ClientStream!Kinds = Blocks
  BY DEF MessageInv, Sane, ClientStream!Kinds, Blocks
<1>3. req' = req /\ Framed' = Framed BY <1>1 DEF Framed
<1>a. ASSUME NEW at, Framed, Free(wire, at)
      PROVE  /\ at \in 0..wire.top /\ Later(wire, at) = at + 1
             /\ ClientStream!Fresh(at) \/ ClientStream!Reused(at)
             /\ ~Untaken(wire, at) => ClientStream!Reused(at)
             /\ Untaken(wire, at) => ClientStream!Fresh(at)
  <2>1. at \in Nat BY <1>a DEF Free
  <2>2. at \in 0..wire.top BY <1>2, <1>a, <2>1 DEF Free, Untaken, Shared
  <2>3. Later(wire, at) = at + 1 BY <1>a, <2>1, Topping DEF MessageInv
  <2>4. QED BY <1>a, <2>2, <2>3 DEF Free, Untaken, Shared, ClientStream!Fresh, ClientStream!Reused
<1>b. ASSUME NEW kind \in Blocks, NEW at \in wire.blocks[kind] PROVE at \in 0..wire.top
  <2>1. at \in Nat /\ at < wire.top BY <1>2
  <2>2. QED BY <1>2, <2>1
<1>4. CASE e.e = "start"
  <2>1. wire' = [wire EXCEPT !.phase = "open", !.starts = @ + 1] BY <1>1, <1>4 DEF Received
  <2>2. /\ wire'.phase = "open" /\ wire'.starts = wire.starts + 1 /\ wire'.top = wire.top
        /\ wire'.blocks = wire.blocks /\ wire'.text = wire.text /\ wire'.given = wire.given
    BY <1>2, <2>1 DEF WireFields
  <2>3. AttemptsOf(wire.text)' = AttemptsOf(wire.text) BY <2>2 DEF AttemptsOf
  <2>4. wire.phase # "ended" /\ wire.given = <<>> /\ ((req.cc \/ ~Framed) => wire.starts = 0)
    BY <1>1, <1>4 DEF Follows, Strict
  <2>5. ClientStream!Start BY <1>3, <2>2, <2>3, <2>4 DEF ClientStream!Start
  <2>6. QED BY <2>5 DEF ClientStream!Next
<1>5. CASE e.e = "open"
  <2>1. wire' = [wire EXCEPT !.blocks[e.kind] = @ \cup {e.at}, !.top = Later(wire, e.at)]
    BY <1>1, <1>5 DEF Received
  <2>2. /\ Unmoved(wire', wire) /\ wire'.blocks = [wire.blocks EXCEPT ![e.kind] = @ \cup {e.at}]
        /\ wire'.top = Later(wire, e.at)
    BY <1>2, <2>1 DEF WireFields, Unmoved
  <2>3. AttemptsOf(wire.text)' = AttemptsOf(wire.text) BY <2>2 DEF AttemptsOf, Unmoved
  <2>4. Framed /\ wire.phase = "open" /\ wire.given = <<>> /\ e.kind \in Blocks /\ Free(wire, e.at)
    BY <1>1, <1>5 DEF Follows
  <2>5. e.at \in 0..wire.top /\ wire'.top = e.at + 1 /\ (ClientStream!Fresh(e.at) \/ ClientStream!Reused(e.at))
    BY <1>a, <2>2, <2>4
  <2>6. ClientStream!Open(e.kind, e.at) BY <1>3, <2>2, <2>3, <2>4, <2>5 DEF ClientStream!Open, Unmoved
  <2>7. QED BY <1>2, <2>4, <2>5, <2>6 DEF ClientStream!Next
<1>6. CASE e.e = "grow"
  <2> DEFINE from == IF e.kind = "text" THEN AttemptsOf(e.text) ELSE {}
  <2>1. wire' = IF e.kind = "text" THEN [wire EXCEPT !.text = @ \cup e.text] ELSE [wire EXCEPT !.thought = TRUE]
    BY <1>1, <1>6 DEF Received
  <2>2. /\ wire'.phase = wire.phase /\ wire'.starts = wire.starts /\ wire'.blocks = wire.blocks
        /\ wire'.top = wire.top /\ wire'.given = wire.given
        /\ wire'.text = IF e.kind = "text" THEN wire.text \cup e.text ELSE wire.text
    BY <1>2, <2>1 DEF WireFields
  <2>3. /\ wire.phase = "open" /\ wire.given = <<>> /\ e.kind \in Blocks
        /\ Framed => e.at \in wire.blocks[e.kind]
        /\ e.kind = "text" => UpTo(e.text, Attempts - 1)
    BY <1>1, <1>6 DEF Follows
  <2>4. from \in SUBSET (0..Attempts - 1) BY <2>3 DEF UpTo, AttemptsOf
  <2>5. AttemptsOf(wire.text)' = IF e.kind = "text" THEN AttemptsOf(wire.text) \cup from ELSE AttemptsOf(wire.text)
    BY <2>2 DEF AttemptsOf
  <2> HIDE DEF from
  <2> DEFINE at == IF Framed THEN e.at ELSE 0
  <2>6. at \in 0..wire.top /\ (Framed => at \in wire.blocks[e.kind]) BY <1>2, <1>b, <2>3
  <2> HIDE DEF at
  <2>7. ClientStream!Grow(e.kind, from, at) BY <1>3, <2>2, <2>3, <2>5, <2>6 DEF ClientStream!Grow
  <2>8. QED BY <1>2, <2>3, <2>4, <2>6, <2>7 DEF ClientStream!Next
<1>7. CASE e.e = "close"
  <2>1. wire' = [wire EXCEPT !.blocks[e.kind] = @ \ {e.at}] BY <1>1, <1>7 DEF Received
  <2>2. /\ Unmoved(wire', wire) /\ wire'.blocks = [wire.blocks EXCEPT ![e.kind] = @ \ {e.at}]
        /\ wire'.top = wire.top
    BY <1>2, <2>1 DEF WireFields, Unmoved
  <2>3. AttemptsOf(wire.text)' = AttemptsOf(wire.text) BY <2>2 DEF AttemptsOf, Unmoved
  <2>4. wire.phase = "open" /\ wire.given = <<>> /\ e.kind \in Blocks /\ e.at \in wire.blocks[e.kind]
    BY <1>1, <1>7 DEF Follows
  <2>5. ClientStream!Close(e.kind, e.at) BY <1>3, <2>2, <2>3, <2>4 DEF ClientStream!Close, Unmoved
  <2>6. e.at \in 0..wire.top BY <1>b, <2>4
  <2>7. QED BY <1>2, <2>4, <2>5, <2>6 DEF ClientStream!Next
<1>8. CASE e.e = "call"
  <2> DEFINE at == IF Framed THEN e.at ELSE 0
  <2>1. wire' = [wire EXCEPT !.given = Append(@, e.call), !.top = Later(wire, e.at)] BY <1>1, <1>8 DEF Received
  <2>2. /\ wire'.phase = wire.phase /\ wire'.starts = wire.starts /\ wire'.text = wire.text
        /\ wire'.blocks = wire.blocks /\ wire'.given = Append(wire.given, e.call) /\ wire'.top = Later(wire, e.at)
    BY <1>2, <2>1 DEF WireFields
  <2>3. AttemptsOf(wire.text)' = AttemptsOf(wire.text) BY <2>2 DEF AttemptsOf
  <2>4. /\ wire.phase = "open"
        /\ e.call \in [from : 0..Attempts - 1, what : {delta[2] : delta \in Deltas} \cup {"repaired"}]
        /\ \A piece \in wire.text : e.call.from >= piece.attempt
        /\ Framed => Free(wire, e.at) /\ (~Untaken(wire, e.at) => e.call.what = "repaired")
    BY <1>1, <1>8 DEF Follows, Tries, Whats
  <2>5. \A m \in AttemptsOf(wire.text) : e.call.from >= m BY <2>4 DEF AttemptsOf
  <2>6. /\ at \in 0..wire.top /\ wire'.top = IF Framed THEN at + 1 ELSE wire.top
        /\ Framed => ClientStream!Fresh(at) \/ (ClientStream!Reused(at) /\ e.call.what = "repaired")
    <3>1. CASE Framed BY <1>a, <2>2, <2>4, <3>1
    <3>2. CASE ~Framed BY <1>2, <2>2, <3>2 DEF Later
    <3>3. QED BY <3>1, <3>2
  <2> HIDE DEF at
  <2>7. ClientStream!Call(e.call, at) BY <1>3, <2>2, <2>3, <2>4, <2>5, <2>6 DEF ClientStream!Call
  <2>8. QED BY <2>4, <2>6, <2>7 DEF ClientStream!Next
<1>9. CASE e.e = "end"
  <2>1. wire' = [wire EXCEPT !.phase = "ended", !.stop = e.stop] BY <1>1, <1>9 DEF Received
  <2>2. /\ wire'.phase = "ended" /\ wire'.starts = wire.starts /\ wire'.text = wire.text
        /\ wire'.blocks = wire.blocks /\ wire'.top = wire.top /\ wire'.given = wire.given
    BY <1>2, <2>1 DEF WireFields
  <2>3. AttemptsOf(wire.text)' = AttemptsOf(wire.text) BY <2>2 DEF AttemptsOf
  <2>4. wire.phase # "ended" BY <1>1, <1>9 DEF Follows
  <2>5. ClientStream!End BY <1>3, <2>2, <2>3, <2>4 DEF ClientStream!End
  <2>6. QED BY <2>5 DEF ClientStream!Next
<1>10. QED BY <1>1, <1>4, <1>5, <1>6, <1>7, <1>8, <1>9 DEF Follows

(* Every other step leaves the message as it is. *)
LEMMA OthersStutter ==
  ASSUME Next \/ UNCHANGED vars, ~Deliver
  PROVE  UNCHANGED <<req, wire>> /\ stage' \in AllStages \cup {stage}
<1>1. CASE HangUp BY <1>1 DEF HangUp, AllStages
<1>2. CASE UNCHANGED vars BY <1>2 DEF vars
<1>3. CASE Work BY <1>3, EarlyStepsApart, AnthropicApart, OpenAiApart, CollectedApart DEF Work, Apart
<1>4. QED BY <1>1, <1>2, <1>3 DEF Next

\* What any of the handlers sends keeps to the form of a message: it starts,
\* its blocks open before they grow and close, their indices leave no gap and
\* are their own, except that the last one may be used again while it is that
\* of an open block of text, its calls come last and of no attempt before the
\* text's, and it ends, once, however many upstream attempts were made for it.
THEOREM AnswerIsAMessage == Spec => FollowsMessage
<1>1. Init => ClientStream!Init BY InitFollows
<1>2. KernelInv /\ MessageInv /\ [Next]_vars => [ClientStream!Next]_ClientStream!vars
  <2> SUFFICES ASSUME KernelInv, MessageInv, [Next]_vars PROVE [ClientStream!Next]_ClientStream!vars OBVIOUS
  <2>1. CASE Deliver BY <2>1, TakingFollows
  <2>2. CASE ~Deliver
    <3>1. UNCHANGED <<req, wire>> BY <2>2, OthersStutter
    <3>2. QED BY <3>1 DEF ClientStream!vars, Framed, AttemptsOf
  <2>3. QED BY <2>1, <2>2
<1>3. QED BY <1>1, <1>2, KernelInvariant, MessageInvariant, PTL DEF Spec, FollowsMessage, ClientStream!Spec

\* The state of a request stays what the handlers take it for.
THEOREM KernelTypes == Spec => []TypeOK
<1> DEFINE Staged == stage \in AllStages
<1>1. Init => Staged BY DEF Init, AllStages, Early
<1>2. Staged /\ [Next]_vars => Staged'
  <2>1. Deliver => stage' = stage BY DEF Deliver
  <2>2. QED BY <2>1, OthersStutter
<1>3. KernelInv /\ MessageInv /\ Staged => TypeOK
  <2> SUFFICES ASSUME KernelInv, MessageInv, stage \in AllStages PROVE TypeOK OBVIOUS
  <2>1. req.path \in {"messages", "chat"} BY DEF KernelInv, Shapes
  <2>2. stage \in {"guard", "govern", "guardAgain", "translate", "shorten", "anchor", "canonicalize",
                   "dispatch", "fetch", "read", "settle", "finish", "done", "gone"}
    BY DEF AllStages, Early, Working
  <2>3. prep.tools \in {"none", "valid", "invalid"} /\ prep.mode \in {"none", "anthropic", "openai", "collected"}
    BY DEF MessageInv, Prepared
  <2>4. gen.attempt \in 0..Attempts - 1 /\ gen.chunks \in 0..MaxChunks BY DEF MessageInv, Numbered, Tries
  <2>5. /\ wire.phase \in {"waiting", "open", "ended"} /\ wire.blocks \in [Blocks -> SUBSET Nat] /\ wire.top \in Nat
        /\ wire.stop \in {"none", "stop", "length", "tool_use", "error"}
    BY DEF MessageInv, Sane, Stops
  <2>6. QED BY <2>1, <2>2, <2>3, <2>4, <2>5 DEF TypeOK
<1> HIDE DEF Staged
<1>4. QED BY <1>1, <1>2, <1>3, KernelInvariant, MessageInvariant, PTL DEF Spec

\* Claude Code never takes an announcement that it will use a tool for a
\* finished answer: each handler cuts such an answer off
\* (unfinished_intent.rs).
THEOREM AnnouncementsAreCutOff == Spec => []AnnouncementNotFinal
<1>1. KernelInv /\ MessageInv => AnnouncementNotFinal
  <2> SUFFICES ASSUME KernelInv, MessageInv, wire.stop = "stop" PROVE NotFinal(wire)
    BY DEF AnnouncementNotFinal, NotFinal
  <2>1. wire.phase = "ended" BY DEF MessageInv, Sane
  <2>2. PICK v : Leads(wire, gen.out, v) /\ NotFinal(v) BY DEF MessageInv, Leadable
  <2>3. gen.out = <<>>
    <3>1. SUFFICES ASSUME gen.out # <<>> PROVE FALSE OBVIOUS
    <3>2. Listed(gen.out) BY DEF KernelInv, Shapes, Typed
    <3>3. Follows(wire, Head(gen.out)) BY <2>2, <3>1, <3>2, FirstStep
    <3>4. QED BY <2>1, <3>3 DEF Follows
  <2>4. v = wire BY <2>2, <2>3, Standing
  <2>5. QED BY <2>2, <2>4
<1>2. QED BY <1>1, KernelInvariant, MessageInvariant, PTL
=============================================================================
