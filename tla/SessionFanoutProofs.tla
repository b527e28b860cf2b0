------------------------ MODULE SessionFanoutProofs -------------------------
(***************************************************************************)
(* A session and the connections that follow it keep their types and their *)
(* buffers within their sizes, every line is accounted for, and what each  *)
(* client receives is a line stream: for any sessions, clients and sizes.  *)
(***************************************************************************)
EXTENDS SessionFanout, SequenceTheorems, WellFoundedInduction, TLAPS

Items == {LineItem(n) : n \in Nat \ {0}} \cup {GapItem(k) : k \in Nat \ {0}}

\* No two registered sessions have the same ID.
RegistryInv ==
  /\ order \in Seq(Sessions)
  /\ \A i, j \in DOMAIN order : IdOf[order[i]] = IdOf[order[j]] => order[i] = order[j]

\* b holds the last of n lines.
Ring(b, n) ==
  /\ b \in Seq(Nat) /\ Len(b) <= MaxBuffer /\ Len(b) <= n
  /\ \A i \in 1..Len(b) : b[i] = n - Len(b) + i

RingInv ==
  /\ state \in [Sessions -> States]
  /\ lines \in [Sessions -> Nat] /\ buffer \in [Sessions -> Seq(Nat)]
  /\ \A s \in Sessions : lines[s] <= MaxLines[s] /\ Ring(buffer[s], lines[s])

StreamTypes ==
  /\ chan \in [Clients -> Seq(Items)] /\ dropped \in [Clients -> Nat]
  /\ sub \in [Clients -> Subs] /\ next \in [Clients -> Nat]
  /\ \A c \in Clients : Len(chan[c]) <= ChannelSize
HandlerTypes ==
  /\ at \in [Clients -> Steps] /\ history \in [Clients -> Seq(Nat)]
  /\ sess \in [Clients -> SUBSET Sessions] /\ report \in [Clients -> SUBSET Sessions]
  /\ stopping \in BOOLEAN /\ over \in [Clients -> Ends]

\* Where a handler is and what its subscription is.  A subscription that was closed by
\* its session is to a finished one.
HandlerOK(c) ==
  /\ at[c] \in {"idle", "attached"} => sub[c] = "none"
  /\ at[c] = "stream" => sub[c] # "none"
  /\ at[c] = "gone" => sub[c] \in {"closing", "closed"}
  /\ sub[c] = "none" => chan[c] = <<>> /\ history[c] = <<>> /\ dropped[c] = 0
  /\ sub[c] # "none" => next[c] >= 1
  /\ at[c] # "idle" => \E s \in Sessions : sess[c] = {s}
  /\ sub[c] \in {"closing", "closed"} /\ at[c] # "gone" => \A s \in sess[c] : Finished(s)

\* Accounted of one client.
AccountedFor(c) ==
  sub[c] # "none" /\ at[c] # "gone" =>
    \A s \in sess[c] :
      /\ \A i \in DOMAIN history[c] : history[c][i] = next[c] + i - 1
      /\ Spans(next[c] + Len(history[c]), chan[c], lines[s] + 1 - dropped[c])

ClientInv == \A c \in Clients : HandlerOK(c) /\ AccountedFor(c)
IInv == RegistryInv /\ RingInv /\ StreamTypes /\ HandlerTypes /\ ClientInv

-----------------------------------------------------------------------------
(* Induction over a set of numbers, and what the registry keeps.           *)

\* The order of the numbers, as a set of pairs.
Less == {p \in Nat \X Nat : p[1] < p[2]}

LEMMA Induction ==
  ASSUME NEW S, 0 \in S, \A n \in Nat : n \in S => n + 1 \in S
  PROVE  Nat \subseteq S
<1> DEFINE T == Nat \ S
<1>1. IsWellFoundedOn(Less, Nat)
  BY NatLessThanWellFounded DEF OpToRel, Less
<1>2. SUFFICES ASSUME T # {} PROVE FALSE
  OBVIOUS
<1>3. PICK x \in T : \A y \in T : <<y, x>> \notin Less
  <2>1. T \subseteq Nat
    OBVIOUS
  <2> HIDE DEF T
  <2> QED BY <1>1, <1>2, <2>1, WFMin
<1>4. x \in Nat /\ x # 0 /\ x - 1 \in Nat /\ (x - 1) + 1 = x
  OBVIOUS
<1>5. x - 1 \notin T
  <2> DEFINE y == x - 1
  <2>1. y \in Nat /\ y < x
    BY <1>4
  <2> HIDE DEF y
  <2>2. <<y, x>> \in Less
    BY <1>4, <2>1 DEF Less
  <2> QED BY <1>3, <2>2 DEF y
<1> QED BY <1>4, <1>5

\* f is what Prune computes, up to the first n registered sessions.
Filtered(f, i, reg, evicted) ==
  IF i = 0 THEN <<>>
  ELSE IF reg[i] \in evicted THEN f[i - 1] ELSE Append(f[i - 1], reg[i])
Filters(f, n, reg, evicted) == f = [i \in 0..n |-> Filtered(f, i, reg, evicted)]

LEMMA FilterIs ==
  ASSUME NEW reg, NEW evicted, NEW n \in Nat, NEW f, Filters(f, n, reg, evicted)
  PROVE  \A i \in 0..n : f[i] = Filtered(f, i, reg, evicted)
BY DEF Filters

LEMMA FilterExists ==
  ASSUME NEW reg, NEW evicted, NEW n \in Nat
  PROVE  \E f : Filters(f, n, reg, evicted)
<1> DEFINE S == {m \in Nat : \E f : Filters(f, m, reg, evicted)}
<1>1. 0 \in S
  <2> DEFINE f == [i \in 0..0 |-> <<>>]
  <2>1. Filters(f, 0, reg, evicted)
    BY DEF Filters, Filtered
  <2> QED BY <2>1
<1>2. ASSUME NEW m \in Nat, m \in S PROVE m + 1 \in S
  <2>1. PICK f : Filters(f, m, reg, evicted)
    BY <1>2
  <2> DEFINE g == [i \in 0..(m + 1) |->
                     IF i = m + 1 THEN Filtered(f, m + 1, reg, evicted) ELSE f[i]]
  <2>2. /\ \A i \in 0..m : g[i] = f[i]
        /\ g[m + 1] = Filtered(f, m + 1, reg, evicted)
        /\ g = [i \in 0..(m + 1) |-> g[i]]
    OBVIOUS
  <2>3. \A i \in 0..m : f[i] = Filtered(f, i, reg, evicted)
    BY <2>1, FilterIs
  <2> HIDE DEF g
  <2>4. ASSUME NEW i \in 0..(m + 1) PROVE g[i] = Filtered(g, i, reg, evicted)
    <3>1. i # 0 => g[i - 1] = f[i - 1]
      <4>1. i # 0 => i - 1 \in 0..m
        OBVIOUS
      <4> QED BY <2>2, <4>1
    <3>2. Filtered(g, i, reg, evicted) = Filtered(f, i, reg, evicted)
      BY <3>1 DEF Filtered
    <3>3. i = m + 1 \/ i \in 0..m
      OBVIOUS
    <3> QED BY <2>2, <2>3, <3>2, <3>3
  <2>5. Filters(g, m + 1, reg, evicted)
    BY <2>2, <2>4 DEF Filters
  <2> QED BY <2>5
<1>3. Nat \subseteq S
  <2> HIDE DEF S
  <2> QED BY <1>1, <1>2, Induction
<1> QED BY <1>3

LEMMA FilterKeeps ==
  ASSUME NEW R, NEW reg \in Seq(R), NEW evicted, NEW f, Filters(f, Len(reg), reg, evicted)
  PROVE  f[Len(reg)] \in Seq(R)
<1> DEFINE S == {m \in Nat : m <= Len(reg) => f[m] \in Seq(R)}
<1>1. Len(reg) \in Nat /\ \A i \in 1..Len(reg) : reg[i] \in R
  OBVIOUS
<1>2. \A i \in 0..Len(reg) : f[i] = Filtered(f, i, reg, evicted)
  BY <1>1, FilterIs
<1>3. 0 \in S
  <2>1. f[0] = <<>>
    BY <1>1, <1>2 DEF Filtered
  <2> QED BY <2>1, EmptySeq
<1>4. ASSUME NEW m \in Nat, m \in S PROVE m + 1 \in S
  <2>1. CASE m + 1 <= Len(reg)
    <3>1. f[m] \in Seq(R) /\ m + 1 \in 0..Len(reg) /\ m + 1 # 0 /\ (m + 1) - 1 = m
          /\ reg[m + 1] \in R
      BY <1>1, <1>4, <2>1
    <3>2. f[m + 1] = IF reg[m + 1] \in evicted THEN f[m] ELSE Append(f[m], reg[m + 1])
      BY <1>2, <3>1 DEF Filtered
    <3>3. f[m + 1] \in Seq(R)
      BY <3>1, <3>2
    <3> QED BY <3>3
  <2>2. CASE ~(m + 1 <= Len(reg))
    BY <2>2
  <2> QED BY <2>1, <2>2
<1>5. Nat \subseteq S
  <2> HIDE DEF S
  <2> QED BY <1>3, <1>4, Induction
<1> QED BY <1>1, <1>5

\* Eviction adds nothing to the registry.
LEMMA PruneKeeps ==
  ASSUME NEW R, NEW reg \in Seq(R)
  PROVE  Prune(reg) \in Seq(R)
<1> DEFINE excess  == Len(reg) - MaxSessions
           ended   == {i \in DOMAIN reg : Finished(reg[i])}
           evicted == {reg[i] : i \in {j \in ended :
                          Cardinality({k \in ended : k < j}) < excess}}
           kept == CHOOSE f : Filters(f, Len(reg), reg, evicted)
<1>1. Prune(reg) = kept[Len(reg)]
  BY DEF Prune, Filters, Filtered
<1> HIDE DEF evicted
<1>2. Filters(kept, Len(reg), reg, evicted)
  BY FilterExists
<1> HIDE DEF kept
<1> QED BY <1>1, <1>2, FilterKeeps

-----------------------------------------------------------------------------
(* The ring and the channels.                                              *)

LEMMA RingGrows ==
  ASSUME NEW n \in Nat, NEW b, Ring(b, n)
  PROVE  Ring(LastOf(Append(b, n + 1), MaxBuffer), n + 1)
<1> DEFINE a == Append(b, n + 1)
           w == LastOf(a, MaxBuffer)
<1>0. /\ b \in Seq(Nat) /\ Len(b) <= MaxBuffer /\ Len(b) <= n
      /\ \A i \in 1..Len(b) : b[i] = n - Len(b) + i
  BY DEF Ring
<1>1. MaxBuffer \in Nat \ {0} /\ Len(b) \in Nat
  BY <1>0, SizesAssumption
<1>2. a \in Seq(Nat) /\ Len(a) = Len(b) + 1 /\ \A i \in 1..Len(a) : a[i] = (n + 1) - Len(a) + i
  BY <1>0
<1> HIDE DEF a
<1>3. ASSUME Len(a) <= MaxBuffer PROVE w = a
  BY <1>1, <1>2, <1>3 DEF LastOf
<1>4. ASSUME Len(a) > MaxBuffer
      PROVE  /\ w \in Seq(Nat) /\ Len(w) = MaxBuffer /\ Len(a) = MaxBuffer + 1
             /\ \A i \in 1..MaxBuffer : w[i] = a[i + 1]
  <2>1. w = SubSeq(a, Len(a) - MaxBuffer + 1, Len(a))
    BY <1>4 DEF LastOf
  <2>2. Len(a) = MaxBuffer + 1 /\ Len(a) - MaxBuffer + 1 = 2 /\ Len(a) \in Nat
    BY <1>0, <1>1, <1>2, <1>4
  <2>3. \A i \in 2..Len(a) : a[i] \in Nat
    BY <1>2, <2>2
  <2>4. /\ SubSeq(a, 2, Len(a)) \in Seq(Nat)
        /\ Len(SubSeq(a, 2, Len(a))) = Len(a) - 2 + 1
        /\ \A i \in 1..Len(a) - 2 + 1 : SubSeq(a, 2, Len(a))[i] = a[2 + i - 1]
    BY <1>1, <2>2, <2>3, SubSeqProperties
  <2>5. w = SubSeq(a, 2, Len(a))
    BY <2>1, <2>2
  <2> HIDE DEF w
  <2>6. Len(a) - 2 + 1 = MaxBuffer /\ \A i \in 1..MaxBuffer : 2 + i - 1 = i + 1
    BY <1>1, <2>2
  <2> QED BY <2>2, <2>4, <2>5, <2>6
<1> HIDE DEF w
<1>5. /\ w \in Seq(Nat) /\ Len(w) <= MaxBuffer /\ Len(w) <= n + 1
      /\ \A i \in 1..Len(w) : w[i] = (n + 1) - Len(w) + i
  <2>1. Len(a) \in Nat /\ Len(a) <= n + 1
    BY <1>0, <1>1, <1>2
  <2>2. CASE Len(a) <= MaxBuffer
    BY <1>2, <1>3, <2>1, <2>2
  <2>3. CASE Len(a) > MaxBuffer
    <3>1. ASSUME NEW i \in 1..MaxBuffer PROVE w[i] = (n + 1) - MaxBuffer + i
      <4>1. i + 1 \in 1..Len(a) /\ w[i] = a[i + 1]
        BY <1>1, <1>4, <2>3
      <4>2. a[i + 1] = (n + 1) - Len(a) + (i + 1)
        BY <1>2, <4>1
      <4>3. (n + 1) - Len(a) + (i + 1) = (n + 1) - MaxBuffer + i
        BY <1>1, <1>4, <2>3
      <4> QED BY <4>1, <4>2, <4>3
    <3>2. Len(w) = MaxBuffer /\ MaxBuffer <= n + 1
      BY <1>1, <1>4, <2>1, <2>3
    <3> QED BY <1>1, <1>4, <2>3, <3>1, <3>2
  <2> QED BY <1>1, <2>1, <2>2, <2>3
<1> QED BY <1>5 DEF Ring, w, a

LEMMA ItemWidth ==
  ASSUME NEW x \in Items
  PROVE  Width(x) \in Nat \ {0} /\ x.line \in Nat
BY DEF Items, LineItem, GapItem, Width

LEMMA SpansNothing ==
  ASSUME NEW from \in Nat \ {0}, NEW to
  PROVE  Spans(from, <<>>, to) <=> from = to
<1>1. ASSUME from = to PROVE Spans(from, <<>>, to)
  <2> DEFINE p == [i \in 1..1 |-> to]
  <2>1. p \in [1..(Len(<<>>) + 1) -> 1..to] /\ p[1] = from /\ p[Len(<<>>) + 1] = to
    BY <1>1
  <2>2. DOMAIN <<>> = {}
    OBVIOUS
  <2> HIDE DEF p
  <2> QED BY <2>1, <2>2 DEF Spans
<1>2. ASSUME Spans(from, <<>>, to) PROVE from = to
  <2>1. Len(<<>>) + 1 = 1
    OBVIOUS
  <2> QED BY <1>2, <2>1 DEF Spans
<1> QED BY <1>1, <1>2

LEMMA SpansMore ==
  ASSUME NEW from \in Nat, NEW items \in Seq(Items), NEW to \in Nat \ {0}, NEW x \in Items,
         Spans(from, items, to), x.line \in {0, to}
  PROVE  Spans(from, Append(items, x), to + Width(x))
<1> DEFINE n == Len(items)
           w == Append(items, x)
           e == to + Width(x)
<1>1. PICK p \in [1..(n + 1) -> 1..to] :
        /\ p[1] = from /\ p[n + 1] = to
        /\ \A i \in DOMAIN items :
             items[i].line \in {0, p[i]} /\ p[i + 1] = p[i] + Width(items[i])
  BY DEF Spans
<1>2. n \in Nat /\ DOMAIN items = 1..n /\ e \in Nat /\ to <= e /\ e >= 1
  BY ItemWidth
<1>3. Len(w) = n + 1 /\ DOMAIN w = 1..(n + 1) /\ w[n + 1] = x /\ \A i \in 1..n : w[i] = items[i]
  OBVIOUS
<1> HIDE DEF n, w
<1> DEFINE q == [i \in 1..(n + 1 + 1) |-> IF i = n + 1 + 1 THEN e ELSE p[i]]
<1>4. q[n + 1 + 1] = e /\ \A i \in 1..(n + 1) : q[i] = p[i]
  BY <1>2
<1>5. q \in [1..(n + 1 + 1) -> 1..e]
  <2>1. \A i \in 1..(n + 1) : p[i] \in 1..e
    BY <1>1, <1>2
  <2>2. \A i \in 1..(n + 1 + 1) : i = n + 1 + 1 \/ i \in 1..(n + 1)
    BY <1>2
  <2>3. e \in 1..e
    BY <1>2
  <2> HIDE DEF e
  <2> QED BY <2>1, <2>2, <2>3
<1> HIDE DEF q
<1>6. q[1] = from /\ q[n + 1 + 1] = e
  BY <1>1, <1>2, <1>4
<1>7. ASSUME NEW i \in DOMAIN w
      PROVE  w[i].line \in {0, q[i]} /\ q[i + 1] = q[i] + Width(w[i])
  <2>1. CASE i = n + 1
    BY <1>1, <1>2, <1>3, <1>4, <2>1
  <2>2. CASE i # n + 1
    <3>1. i \in 1..n /\ i \in 1..(n + 1) /\ i + 1 \in 1..(n + 1)
      BY <1>2, <1>3, <2>2
    <3> QED BY <1>1, <1>2, <1>3, <1>4, <3>1
  <2> QED BY <2>1, <2>2
<1> HIDE DEF e
<1>8. Spans(from, w, e)
  BY <1>3, <1>5, <1>6, <1>7 DEF Spans
<1> QED BY <1>8 DEF w, e

LEMMA SpansLess ==
  ASSUME NEW from \in Nat, NEW items \in Seq(Items), items # <<>>, NEW to \in Nat,
         Spans(from, items, to)
  PROVE  /\ Head(items).line \in {0, from} /\ from + Width(Head(items)) <= to
         /\ Spans(from + Width(Head(items)), Tail(items), to)
<1> DEFINE n == Len(items)
           w == Tail(items)
<1>1. PICK p \in [1..(n + 1) -> 1..to] :
        /\ p[1] = from /\ p[n + 1] = to
        /\ \A i \in DOMAIN items :
             items[i].line \in {0, p[i]} /\ p[i + 1] = p[i] + Width(items[i])
  BY DEF Spans
<1>2. n \in Nat \ {0} /\ DOMAIN items = 1..n /\ Head(items) = items[1]
  OBVIOUS
<1>3. Len(w) = n - 1 /\ DOMAIN w = 1..(n - 1) /\ \A i \in 1..(n - 1) : w[i] = items[i + 1]
  OBVIOUS
<1> HIDE DEF n, w
<1>4. 1 \in DOMAIN items /\ 1 + 1 \in 1..(n + 1)
  BY <1>2
<1>5. /\ Head(items).line \in {0, from} /\ p[2] = from + Width(Head(items))
      /\ p[2] \in 1..to
  BY <1>1, <1>2, <1>4
<1> DEFINE q == [i \in 1..(n - 1 + 1) |-> p[i + 1]]
<1>6. \A i \in 1..(n - 1 + 1) : q[i] = p[i + 1] /\ i + 1 \in 1..(n + 1)
  BY <1>2
<1>7. q \in [1..(n - 1 + 1) -> 1..to]
  BY <1>1, <1>6
<1> HIDE DEF q
<1>8. q[1] = p[2] /\ q[n - 1 + 1] = to
  <2>1. 1 \in 1..(n - 1 + 1) /\ n - 1 + 1 \in 1..(n - 1 + 1) /\ (n - 1 + 1) + 1 = n + 1
    BY <1>2
  <2> QED BY <1>1, <1>6, <2>1
<1>9. ASSUME NEW i \in DOMAIN w
      PROVE  w[i].line \in {0, q[i]} /\ q[i + 1] = q[i] + Width(w[i])
  <2>1. i \in 1..(n - 1) /\ i \in 1..(n - 1 + 1) /\ i + 1 \in 1..(n - 1 + 1)
        /\ i + 1 \in DOMAIN items
    BY <1>2, <1>3
  <2>2. q[i] = p[i + 1] /\ q[i + 1] = p[i + 1 + 1] /\ w[i] = items[i + 1]
    BY <1>3, <1>6, <2>1
  <2> QED BY <1>1, <2>1, <2>2
<1>10. Spans(p[2], w, to)
  BY <1>3, <1>7, <1>8, <1>9 DEF Spans
<1>11. p[2] <= to
  BY <1>5
<1> QED BY <1>5, <1>10, <1>11 DEF w

\* A line that is sent is in the channel, in a place of its own, or counted.
LEMMA DeliveredSpans ==
  ASSUME NEW from \in Nat, NEW ch \in Seq(Items), Len(ch) <= ChannelSize, NEW d \in Nat,
         NEW n \in Nat \ {0}, n - d \in Nat \ {0}, Spans(from, ch, n - d)
  PROVE  LET r == Delivered(ch, d, n)
         IN  /\ r.ch \in Seq(Items) /\ Len(r.ch) <= ChannelSize /\ r.d \in Nat
             /\ Spans(from, r.ch, n + 1 - r.d)
<1> DEFINE room == ChannelSize - Len(ch)
           r == Delivered(ch, d, n)
<1>1. ChannelSize \in Nat \ {0} /\ Len(ch) \in Nat /\ room \in Nat
  BY SizesAssumption
<1>2. LineItem(n) \in Items /\ LineItem(n).line = n /\ Width(LineItem(n)) = 1
  BY DEF Items, LineItem, Width
<1>3. d > 0 => GapItem(d) \in Items /\ GapItem(d).line = 0 /\ Width(GapItem(d)) = d
  BY DEF Items, GapItem, Width
<1>4. CASE room = 0
  <2>1. r = [ch |-> ch, d |-> d + 1]
    BY <1>1, <1>4 DEF Delivered
  <2>2. n + 1 - (d + 1) = n - d
    OBVIOUS
  <2> HIDE DEF r
  <2> QED BY <2>1, <2>2 DEF r
<1>5. CASE room # 0 /\ d = 0
  <2>1. r = [ch |-> Append(ch, LineItem(n)), d |-> 0]
    BY <1>1, <1>5 DEF Delivered
  <2>2. Spans(from, Append(ch, LineItem(n)), n + 1)
    <3>1. n - d = n
      BY <1>5
    <3> QED BY <1>2, <3>1, SpansMore
  <2>3. Append(ch, LineItem(n)) \in Seq(Items) /\ Len(Append(ch, LineItem(n))) <= ChannelSize
    BY <1>1, <1>2, <1>5
  <2> HIDE DEF r
  <2>4. n + 1 - 0 = n + 1
    OBVIOUS
  <2> QED BY <2>1, <2>2, <2>3, <2>4 DEF r
<1>6. CASE room # 0 /\ d > 0
  <2> DEFINE g == Append(ch, GapItem(d))
  <2>1. Spans(from, g, n)
    <3>1. (n - d) + d = n
      OBVIOUS
    <3> QED BY <1>3, <1>6, <3>1, SpansMore
  <2>2. g \in Seq(Items) /\ Len(g) = Len(ch) + 1
    BY <1>3, <1>6
  <2> HIDE DEF g
  <2>3. CASE room = 1
    <3>1. r = [ch |-> g, d |-> 1]
      BY <1>6, <2>3 DEF Delivered, g
    <3>2. n + 1 - 1 = n /\ Len(g) <= ChannelSize
      BY <1>1, <2>2, <2>3
    <3> HIDE DEF r
    <3> QED BY <2>1, <2>2, <3>1, <3>2 DEF r
  <2>4. CASE room # 1
    <3>1. r = [ch |-> ch \o <<GapItem(d), LineItem(n)>>, d |-> 0]
      BY <1>6, <2>4 DEF Delivered
    <3>2. ch \o <<GapItem(d), LineItem(n)>> = Append(g, LineItem(n))
      BY <1>2, <1>3, <1>6 DEF g
    <3>3. Spans(from, Append(g, LineItem(n)), n + 1)
      BY <1>2, <2>1, <2>2, SpansMore
    <3>4. Append(g, LineItem(n)) \in Seq(Items) /\ Len(Append(g, LineItem(n))) <= ChannelSize
      BY <1>1, <1>2, <1>6, <2>2, <2>4
    <3>5. n + 1 - 0 = n + 1
      OBVIOUS
    <3>6. r = [ch |-> Append(g, LineItem(n)), d |-> 0]
      BY <3>1, <3>2
    <3> HIDE DEF r
    <3> QED BY <3>3, <3>4, <3>5, <3>6 DEF r
  <2> QED BY <2>3, <2>4
<1> QED BY <1>4, <1>5, <1>6

-----------------------------------------------------------------------------
(* The registry and the rings.                                             *)

LEMMA InitInv == Init => IInv
<1> SUFFICES ASSUME Init PROVE IInv
  OBVIOUS
<1>1. RegistryInv
  BY EmptySeq DEF Init, RegistryInv
<1>2. RingInv
  <2>1. <<>> \in Seq(Nat) /\ Len(<<>>) = 0 /\ MaxBuffer \in Nat /\ \A s \in Sessions : MaxLines[s] \in Nat
    BY EmptySeq, SizesAssumption
  <2> QED BY <2>1 DEF Init, RingInv, Ring, States
<1>3. StreamTypes
  <2>1. <<>> \in Seq(Items) /\ Len(<<>>) = 0 /\ ChannelSize \in Nat
    BY EmptySeq, SizesAssumption
  <2> QED BY <2>1 DEF Init, StreamTypes, Subs
<1>4. HandlerTypes
  BY EmptySeq DEF Init, HandlerTypes, Steps, Ends
<1>5. ClientInv
  BY DEF Init, ClientInv, HandlerOK, AccountedFor
<1> QED BY <1>1, <1>2, <1>3, <1>4, <1>5 DEF IInv

\* What a step does to the registry and the sessions.
LEMMA RegistryStep ==
  ASSUME RegistryInv, [Next]_vars
  PROVE  RegistryInv'
<1>1. CASE UNCHANGED order
  BY <1>1 DEF RegistryInv
<1>2. ASSUME NEW c \in Clients, NEW s \in Sessions, Run(c, s)
      PROVE  RegistryInv'
  <2> DEFINE reg == Append(order, s)
             R == {reg[i] : i \in DOMAIN reg}
  <2>1. /\ order' = Prune(reg)
        /\ \A i \in DOMAIN order : IdOf[order[i]] # IdOf[s]
    BY <1>2 DEF Run, Registered
  <2>2. /\ order \in Seq(Sessions) /\ reg \in Seq(Sessions)
        /\ \A i \in DOMAIN reg : reg[i] = s \/ \E j \in DOMAIN order : reg[i] = order[j]
    BY DEF RegistryInv
  <2> HIDE DEF reg
  <2>3. \A x, y \in R : IdOf[x] = IdOf[y] => x = y
    BY <2>1, <2>2 DEF RegistryInv
  <2>4. reg \in Seq(R) /\ R \subseteq Sessions
    BY <2>2
  <2> HIDE DEF R
  <2>5. order' \in Seq(R)
    BY <2>1, <2>4, PruneKeeps
  <2>6. order' \in Seq(Sessions)
    BY <2>4, <2>5, SeqMonotonic
  <2>7. \A i \in DOMAIN order' : order'[i] \in R
    BY <2>5
  <2> QED BY <2>3, <2>6, <2>7 DEF RegistryInv
<1> QED
  BY <1>1, <1>2 DEF Next, vars, Session, Handler, Started, Line, Finish, CloseChannel,
     Subscribe, FindAgain, Replay, Forward, FinishStream, Interrupt, Leave, Find, Shutdown

LEMMA RingStep ==
  ASSUME RingInv, [Next]_vars
  PROVE  RingInv' /\ \A s \in Sessions : Finished(s) => Finished(s)' /\ lines'[s] = lines[s]
<1>1. CASE UNCHANGED sessionVars
  BY <1>1 DEF RingInv, sessionVars, Finished
<1>2. ASSUME NEW s \in Sessions, NEW r \in States,
             ~Finished(s), state' = [state EXCEPT ![s] = r], UNCHANGED <<lines, buffer>>
      PROVE  RingInv' /\ \A x \in Sessions : Finished(x) => Finished(x)' /\ lines'[x] = lines[x]
  BY <1>2 DEF RingInv, Finished
<1>3. ASSUME NEW s \in Sessions, Line(s)
      PROVE  RingInv' /\ \A x \in Sessions : Finished(x) => Finished(x)' /\ lines'[x] = lines[x]
  <2> DEFINE n == lines[s] + 1
             w == LastOf(Append(buffer[s], n), MaxBuffer)
  <2>1. /\ state[s] = "running" /\ lines[s] < MaxLines[s]
        /\ lines' = [lines EXCEPT ![s] = n] /\ buffer' = [buffer EXCEPT ![s] = w]
        /\ state' = state
    BY <1>3 DEF Line
  <2>2. lines[s] \in Nat /\ Ring(buffer[s], lines[s])
    BY DEF RingInv
  <2> HIDE DEF w
  <2>3. n \in Nat /\ n <= MaxLines[s] /\ lines'[s] = n /\ buffer'[s] = w
    <3>1. MaxLines[s] \in Nat
      BY SizesAssumption
    <3>2. n \in Nat /\ n <= MaxLines[s]
      BY <2>1, <2>2, <3>1
    <3> HIDE DEF n
    <3> QED BY <2>1, <3>2 DEF RingInv
  <2>4. Ring(w, n)
    BY <2>2, RingGrows, Zenon DEF w
  <2> HIDE DEF n
  <2>5. \A x \in Sessions \ {s} : lines'[x] = lines[x] /\ buffer'[x] = buffer[x]
    BY <2>1 DEF RingInv
  <2>6. lines' \in [Sessions -> Nat] /\ buffer' \in [Sessions -> Seq(Nat)]
    BY <2>1, <2>3, <2>4 DEF RingInv, Ring
  <2>7. ASSUME NEW x \in Sessions
        PROVE  lines'[x] <= MaxLines[x] /\ Ring(buffer'[x], lines'[x])
    <3>1. CASE x = s
      BY <2>3, <2>4, <3>1
    <3>2. CASE x # s
      BY <2>5, <3>2 DEF RingInv
    <3> QED BY <3>1, <3>2
  <2>8. RingInv'
    BY <2>1, <2>6, <2>7 DEF RingInv, Ring
  <2>9. \A x \in Sessions : Finished(x) => Finished(x)' /\ lines'[x] = lines[x]
    BY <2>1, <2>5 DEF Finished
  <2> QED BY <2>8, <2>9
<1>4. ASSUME NEW s \in Sessions, Started(s) \/ Finish(s) \/ \E c \in Clients : Run(c, s)
      PROVE  \E r \in States : /\ ~Finished(s) /\ state' = [state EXCEPT ![s] = r]
                               /\ UNCHANGED <<lines, buffer>>
  BY <1>4 DEF Started, Finish, Run, Finished, States
<1>5. \/ UNCHANGED sessionVars
      \/ \E s \in Sessions :
           Line(s) \/ Started(s) \/ Finish(s) \/ \E c \in Clients : Run(c, s)
  BY DEF Next, vars, Session, Handler, CloseChannel,
     Subscribe, FindAgain, Replay, Forward, FinishStream, Interrupt, Leave, Find, Shutdown
<1> QED BY <1>1, <1>2, <1>3, <1>4, <1>5

-----------------------------------------------------------------------------
(* The handlers and their subscriptions.                                   *)

\* What the invariant says of one client.
Mine(c) == <<at[c], sess[c], history[c], chan[c], dropped[c], sub[c], next[c]>>

Steady == \A s \in Sessions : Finished(s) => Finished(s)'
ClientTypes == StreamTypes /\ HandlerTypes

LEMMA ClientStays ==
  ASSUME HandlerTypes, NEW c \in Clients, HandlerOK(c), AccountedFor(c), UNCHANGED Mine(c), Steady,
         sub[c] = "none" \/ at[c] = "gone" \/ \A s \in sess[c] : lines'[s] = lines[s]
  PROVE  HandlerOK(c)' /\ AccountedFor(c)'
<1>1. /\ at'[c] = at[c] /\ sess'[c] = sess[c] /\ history'[c] = history[c]
      /\ chan'[c] = chan[c] /\ dropped'[c] = dropped[c] /\ sub'[c] = sub[c] /\ next'[c] = next[c]
  BY DEF Mine
<1>2. sess[c] \subseteq Sessions
  BY DEF HandlerTypes
<1>3. HandlerOK(c)'
  BY <1>1, <1>2 DEF HandlerOK, Steady
<1>4. AccountedFor(c)'
  BY <1>1 DEF AccountedFor, Spans
<1> QED BY <1>3, <1>4

\* A step of one handler leaves the others as they are.
LEMMA OthersStay ==
  ASSUME HandlerTypes, ClientInv, NEW c \in Clients, UNCHANGED lines, Steady,
         \A x \in Clients \ {c} : UNCHANGED Mine(x),
         HandlerOK(c)', AccountedFor(c)'
  PROVE  ClientInv'
<1> SUFFICES ASSUME NEW x \in Clients PROVE HandlerOK(x)' /\ AccountedFor(x)'
  BY DEF ClientInv
<1>1. CASE x = c
  BY <1>1
<1>2. CASE x # c
  <2>1. HandlerOK(x) /\ AccountedFor(x)
    BY DEF ClientInv
  <2>2. \A s \in sess[x] : lines'[s] = lines[s]
    OBVIOUS
  <2> QED BY <1>2, <2>1, <2>2, ClientStays
<1> QED BY <1>1, <1>2

LEMMA SpansPositive ==
  ASSUME NEW from, NEW items \in Seq(Items), NEW to \in Int, Spans(from, items, to)
  PROVE  to \in Nat \ {0}
<1>1. PICK p \in [1..(Len(items) + 1) -> 1..to] : p[Len(items) + 1] = to
  BY DEF Spans
<1>2. Len(items) \in Nat /\ Len(items) + 1 \in 1..(Len(items) + 1)
  OBVIOUS
<1>3. to \in 1..to
  BY <1>1, <1>2
<1> QED BY <1>3

LEMMA LineTypes ==
  ASSUME IInv, NEW s \in Sessions, Line(s), NEW c \in Subscribers(s)
  PROVE  LET r == Delivered(chan[c], dropped[c], lines[s] + 1)
         IN  /\ r.ch \in Seq(Items) /\ Len(r.ch) <= ChannelSize /\ r.d \in Nat
             /\ Spans(next[c] + Len(history[c]), r.ch, lines[s] + 1 + 1 - r.d)
<1> DEFINE from == next[c] + Len(history[c])
           n == lines[s] + 1
<1>1. c \in Clients /\ sub[c] = "live" /\ s \in sess[c]
  BY DEF Subscribers
<1>2. /\ chan[c] \in Seq(Items) /\ Len(chan[c]) <= ChannelSize /\ dropped[c] \in Nat
      /\ next[c] \in Nat /\ history[c] \in Seq(Nat) /\ lines[s] \in Nat
  BY <1>1 DEF IInv, StreamTypes, HandlerTypes, RingInv
<1>3. Spans(from, chan[c], n - dropped[c])
  <2>1. at[c] # "gone"
    BY <1>1 DEF IInv, ClientInv, HandlerOK
  <2>2. Spans(next[c] + Len(history[c]), chan[c], lines[s] + 1 - dropped[c])
    BY <1>1, <2>1 DEF IInv, ClientInv, AccountedFor
  <2> QED BY <1>2, <2>2
<1>4. from \in Nat /\ n \in Nat \ {0} /\ n - dropped[c] \in Int
  BY <1>2
<1> HIDE DEF from, n
<1>5. n - dropped[c] \in Nat \ {0}
  BY <1>2, <1>3, <1>4, SpansPositive
<1>6. LET r == Delivered(chan[c], dropped[c], n)
      IN  /\ r.ch \in Seq(Items) /\ Len(r.ch) <= ChannelSize /\ r.d \in Nat
          /\ Spans(from, r.ch, n + 1 - r.d)
  BY <1>2, <1>3, <1>4, <1>5, DeliveredSpans
<1> QED BY <1>6 DEF from, n

LEMMA LineStep ==
  ASSUME IInv, Steady, NEW s \in Sessions, Line(s)
  PROVE  ClientTypes' /\ ClientInv'
<1> DEFINE n == lines[s] + 1
           r(c) == Delivered(chan[c], dropped[c], n)
<1>1. /\ state[s] = "running" /\ lines' = [lines EXCEPT ![s] = n]
      /\ chan' = [c \in Clients |-> IF c \in Subscribers(s) THEN r(c).ch ELSE chan[c]]
      /\ dropped' = [c \in Clients |-> IF c \in Subscribers(s) THEN r(c).d ELSE dropped[c]]
      /\ UNCHANGED <<at, sess, report, history, sub, stopping, over, next>>
  BY DEF Line, handlerVars, heardVars
<1>2. \A c \in Subscribers(s) :
        /\ r(c).ch \in Seq(Items) /\ Len(r(c).ch) <= ChannelSize /\ r(c).d \in Nat
        /\ Spans(next[c] + Len(history[c]), r(c).ch, n + 1 - r(c).d)
  BY LineTypes
<1> HIDE DEF r
<1>3. StreamTypes'
  <2>1. StreamTypes
    BY DEF IInv
  <2>2. chan' \in [Clients -> Seq(Items)] /\ dropped' \in [Clients -> Nat]
    BY <1>1, <1>2, <2>1 DEF StreamTypes
  <2>3. \A c \in Clients : Len(chan'[c]) <= ChannelSize
    BY <1>1, <1>2, <2>1 DEF StreamTypes
  <2> QED BY <1>1, <2>1, <2>2, <2>3 DEF StreamTypes
<1>4. HandlerTypes'
  BY <1>1 DEF IInv, HandlerTypes
<1>5. ASSUME NEW c \in Clients PROVE HandlerOK(c)' /\ AccountedFor(c)'
  <2>1. HandlerOK(c) /\ AccountedFor(c) /\ HandlerTypes
    BY DEF IInv, ClientInv
  <2>2. CASE c \in Subscribers(s)
    <3>1. sub[c] = "live" /\ s \in sess[c]
      BY <2>2 DEF Subscribers
    <3>2. at[c] # "gone" /\ at[c] # "idle" /\ sess[c] = {s}
      BY <2>1, <3>1 DEF HandlerOK
    <3>3. HandlerOK(c)'
      BY <1>1, <2>1, <3>1, <3>2 DEF HandlerOK
    <3>4. chan'[c] = r(c).ch /\ dropped'[c] = r(c).d /\ lines'[s] = n
      BY <1>1, <2>2 DEF IInv, RingInv
    <3> HIDE DEF n
    <3>5. Spans(next[c] + Len(history[c]), chan'[c], lines'[s] + 1 - dropped'[c])
      BY <1>2, <2>2, <3>4
    <3>6. /\ sess'[c] = {s} /\ next'[c] = next[c] /\ history'[c] = history[c]
          /\ \A i \in DOMAIN history[c] : history[c][i] = next[c] + i - 1
      BY <1>1, <2>1, <3>1, <3>2 DEF AccountedFor
    <3>7. AccountedFor(c)'
      BY <3>5, <3>6 DEF AccountedFor
    <3> QED BY <3>3, <3>7
  <2>3. CASE c \notin Subscribers(s)
    <3>1. UNCHANGED Mine(c)
      BY <1>1, <2>3 DEF Mine, IInv, StreamTypes
    <3>2. sub[c] # "none" /\ at[c] # "gone" => s \notin sess[c]
      BY <1>1, <2>1, <2>3 DEF HandlerOK, Subscribers, Finished, IInv, StreamTypes, Subs
    <3>3. sub[c] = "none" \/ at[c] = "gone" \/ \A x \in sess[c] : lines'[x] = lines[x]
      BY <1>1, <2>1, <3>2 DEF IInv, RingInv, HandlerTypes
    <3> QED BY <2>1, <3>1, <3>3, ClientStays
  <2> QED BY <2>2, <2>3
<1>6. ClientInv'
  BY <1>5 DEF ClientInv
<1> QED BY <1>3, <1>4, <1>6 DEF ClientTypes

LEMMA FinishStep ==
  ASSUME IInv, Steady, NEW s \in Sessions, Finish(s)
  PROVE  ClientTypes' /\ ClientInv'
<1>1. /\ Finished(s)'
      /\ sub' = [c \in Clients |-> IF c \in Subscribers(s) THEN "closing" ELSE sub[c]]
      /\ UNCHANGED <<lines, at, sess, report, history, chan, dropped, stopping, over, next>>
  <2>1. Finished(s)'
    BY DEF Finish, Finished, IInv, RingInv
  <2> QED BY <2>1 DEF Finish, handlerVars, heardVars
<1>2. StreamTypes' /\ HandlerTypes'
  BY <1>1 DEF IInv, StreamTypes, HandlerTypes, Subs
<1>3. ASSUME NEW c \in Clients PROVE HandlerOK(c)' /\ AccountedFor(c)'
  <2>1. HandlerOK(c) /\ AccountedFor(c) /\ HandlerTypes
    BY DEF IInv, ClientInv
  <2>2. CASE c \in Subscribers(s)
    <3>1. sub[c] = "live" /\ s \in sess[c] /\ sub'[c] = "closing"
      BY <1>1, <2>2 DEF Subscribers
    <3>2. at[c] # "gone" /\ at[c] # "idle" /\ sess[c] = {s}
      BY <2>1, <3>1 DEF HandlerOK
    <3>3. HandlerOK(c)'
      BY <1>1, <2>1, <3>1, <3>2 DEF HandlerOK
    <3>4. AccountedFor(c)'
      BY <1>1, <2>1, <3>1, <3>2 DEF AccountedFor, Spans
    <3> QED BY <3>3, <3>4
  <2>3. CASE c \notin Subscribers(s)
    <3>1. UNCHANGED Mine(c) /\ \A x \in sess[c] : lines'[x] = lines[x]
      BY <1>1, <2>3 DEF Mine, IInv, StreamTypes
    <3> QED BY <2>1, <3>1, ClientStays
  <2> QED BY <2>2, <2>3
<1>4. ClientInv'
  BY <1>3 DEF ClientInv
<1> QED BY <1>2, <1>4 DEF ClientTypes

LEMMA CloseChannelStep ==
  ASSUME IInv, Steady, NEW c \in Clients, CloseChannel(c)
  PROVE  ClientTypes' /\ ClientInv'
<1>1. /\ sub[c] = "closing" /\ sub' = [sub EXCEPT ![c] = "closed"]
      /\ UNCHANGED <<state, lines, at, sess, report, history, chan, dropped, stopping, over, next>>
  BY DEF CloseChannel, sessionVars, handlerVars, heardVars
<1>2. StreamTypes' /\ HandlerTypes' /\ sub'[c] = "closed"
  BY <1>1 DEF IInv, StreamTypes, HandlerTypes, Subs
<1>3. HandlerOK(c) /\ AccountedFor(c) /\ HandlerTypes
  BY DEF IInv, ClientInv
<1>4. HandlerOK(c)'
  BY <1>1, <1>2, <1>3 DEF HandlerOK, Finished
<1>5. AccountedFor(c)'
  BY <1>1, <1>2, <1>3 DEF AccountedFor, Spans
<1>6. \A x \in Clients \ {c} : UNCHANGED Mine(x)
  BY <1>1 DEF Mine, IInv, StreamTypes
<1>7. ClientInv'
  BY <1>1, <1>3, <1>4, <1>5, <1>6, OthersStay DEF IInv
<1> QED BY <1>2, <1>7 DEF ClientTypes

\* Steps of other sessions' states, and a shutdown.
LEMMA QuietStep ==
  ASSUME IInv, Steady,
         UNCHANGED <<lines, at, sess, report, history, chan, dropped, sub, over, next>>,
         stopping' \in BOOLEAN
  PROVE  ClientTypes' /\ ClientInv'
<1>1. StreamTypes' /\ HandlerTypes'
  BY DEF IInv, StreamTypes, HandlerTypes
<1>2. ASSUME NEW c \in Clients PROVE HandlerOK(c)' /\ AccountedFor(c)'
  <2>1. HandlerOK(c) /\ AccountedFor(c) /\ HandlerTypes
    BY DEF IInv, ClientInv
  <2>2. UNCHANGED Mine(c) /\ \A x \in sess[c] : lines'[x] = lines[x]
    BY DEF Mine
  <2> QED BY <2>1, <2>2, ClientStays
<1>3. ClientInv'
  BY <1>2 DEF ClientInv
<1> QED BY <1>1, <1>3 DEF ClientTypes

LEMMA SubscribeStep ==
  ASSUME IInv, Steady, NEW c \in Clients, Subscribe(c)
  PROVE  ClientTypes' /\ ClientInv'
<1>1. HandlerOK(c) /\ HandlerTypes /\ StreamTypes /\ RingInv
  BY DEF IInv, ClientInv
<1>2. PICK s \in sess[c] :
        /\ history' = [history EXCEPT ![c] = buffer[s]]
        /\ next'    = [next EXCEPT ![c] = lines[s] - Len(buffer[s]) + 1]
        /\ sub'     = [sub EXCEPT ![c] = IF Finished(s) THEN "closed" ELSE "live"]
  BY DEF Subscribe
<1>3. /\ at[c] \in {"found", "attached"} /\ sub[c] = "none"
      /\ at' = [at EXCEPT ![c] = IF @ = "found" THEN @ ELSE "stream"]
      /\ UNCHANGED <<state, lines, sess, report, chan, dropped, stopping, over>>
  BY DEF Subscribe, sessionVars
<1>4. s \in Sessions /\ sess[c] = {s} /\ chan[c] = <<>> /\ dropped[c] = 0
  BY <1>1, <1>2, <1>3 DEF HandlerOK
<1>5. Ring(buffer[s], lines[s]) /\ lines[s] \in Nat
  BY <1>1, <1>4 DEF RingInv
<1> DEFINE from == lines[s] - Len(buffer[s]) + 1
<1>6. /\ buffer[s] \in Seq(Nat) /\ from \in Nat \ {0} /\ from + Len(buffer[s]) = lines[s] + 1
      /\ lines[s] + 1 - 0 = lines[s] + 1 /\ lines[s] + 1 \in Nat \ {0}
      /\ \A i \in DOMAIN buffer[s] : buffer[s][i] = from + i - 1
  <2> DEFINE b == buffer[s]
             k == lines[s]
  <2>1. k \in Nat /\ b \in Seq(Nat) /\ Len(b) \in Nat /\ Len(b) <= k /\ DOMAIN b = 1..Len(b)
    BY <1>5 DEF Ring
  <2>2. \A i \in 1..Len(b) : b[i] = k - Len(b) + i
    BY <1>5 DEF Ring
  <2> HIDE DEF b, k
  <2>3. \A i \in 1..Len(b) : b[i] = (k - Len(b) + 1) + i - 1
    BY <2>1, <2>2
  <2>4. /\ k - Len(b) + 1 \in Nat \ {0} /\ (k - Len(b) + 1) + Len(b) = k + 1
        /\ k + 1 - 0 = k + 1 /\ k + 1 \in Nat \ {0}
    <3> DEFINE l == Len(b)
    <3>1. l \in Nat /\ l <= k /\ k \in Nat
      BY <2>1
    <3> HIDE DEF l
    <3>2. k - l + 1 \in Nat \ {0}
      BY <3>1
    <3>3. (k - l + 1) + l = k + 1
      BY <3>1
    <3>4. k + 1 - 0 = k + 1
      BY <3>1
    <3>5. k + 1 \in Nat \ {0}
      BY <3>1
    <3> QED BY <3>2, <3>3, <3>4, <3>5 DEF l
  <2> QED BY <2>1, <2>3, <2>4 DEF b, k, from
<1> HIDE DEF from
<1>7. /\ history'[c] = buffer[s] /\ next'[c] = from /\ sub'[c] \in {"live", "closed"}
      /\ sub'[c] = "closed" => Finished(s)
      /\ at'[c] \in {"found", "stream"}
  BY <1>1, <1>2, <1>3 DEF StreamTypes, HandlerTypes, from
<1>8. StreamTypes'
  BY <1>1, <1>2, <1>3, <1>6 DEF StreamTypes, Subs, from
<1>9. HandlerTypes'
  BY <1>1, <1>2, <1>3, <1>6 DEF HandlerTypes, Steps
<1>10. HandlerOK(c)'
  BY <1>3, <1>4, <1>6, <1>7 DEF HandlerOK, Finished
<1>11. AccountedFor(c)'
  <2>1. Spans(from + Len(buffer[s]), <<>>, lines[s] + 1 - 0)
    BY <1>6, SpansNothing
  <2>2. /\ \A i \in DOMAIN history'[c] : history'[c][i] = next'[c] + i - 1
        /\ Spans(next'[c] + Len(history'[c]), chan'[c], lines'[s] + 1 - dropped'[c])
    BY <1>3, <1>4, <1>6, <1>7, <2>1
  <2> QED BY <1>3, <1>4, <2>2 DEF AccountedFor
<1>12. \A x \in Clients \ {c} : UNCHANGED Mine(x)
  BY <1>1, <1>2, <1>3 DEF Mine, StreamTypes, HandlerTypes
<1>13. ClientInv'
  BY <1>1, <1>3, <1>10, <1>11, <1>12, OthersStay DEF IInv
<1> QED BY <1>8, <1>9, <1>13 DEF ClientTypes

LEMMA RegisteredIs ==
  ASSUME RegistryInv, NEW id
  PROVE  /\ Registered(id) \subseteq Sessions
         /\ Registered(id) # {} => \E s \in Sessions : Registered(id) = {s}
<1>1. \A s, t \in Registered(id) : s = t /\ s \in Sessions
  BY DEF RegistryInv, Registered
<1> QED BY <1>1

LEMMA FindAgainStep ==
  ASSUME IInv, Steady, NEW c \in Clients, FindAgain(c)
  PROVE  ClientTypes' /\ ClientInv'
<1>1. HandlerOK(c) /\ AccountedFor(c) /\ HandlerTypes /\ StreamTypes
  BY DEF IInv, ClientInv
<1> DEFINE rep == UNION {Registered(IdOf[s]) : s \in sess[c]}
<1>2. /\ at[c] = "found" /\ sub[c] # "none"
      /\ at' = [at EXCEPT ![c] = "stream"] /\ report' = [report EXCEPT ![c] = rep]
      /\ UNCHANGED <<state, lines, sess, history, chan, dropped, sub, next, stopping, over>>
  BY DEF FindAgain, sessionVars, streamVars, heardVars
<1>3. rep \subseteq Sessions
  BY RegisteredIs DEF IInv
<1> HIDE DEF rep
<1>4. StreamTypes' /\ HandlerTypes' /\ at'[c] = "stream"
  BY <1>1, <1>2, <1>3 DEF StreamTypes, HandlerTypes, Steps
<1>5. HandlerOK(c)'
  BY <1>1, <1>2, <1>4 DEF HandlerOK, Finished
<1>6. AccountedFor(c)'
  BY <1>1, <1>2, <1>4 DEF AccountedFor, Spans
<1>7. \A x \in Clients \ {c} : UNCHANGED Mine(x)
  BY <1>1, <1>2 DEF Mine, HandlerTypes
<1>8. ClientInv'
  BY <1>1, <1>2, <1>5, <1>6, <1>7, OthersStay DEF IInv
<1> QED BY <1>4, <1>8 DEF ClientTypes

LEMMA AttachStep ==
  ASSUME IInv, Steady, NEW c \in Clients,
         \/ \E s \in Sessions : Run(c, s)
         \/ \E id \in IDs : Find(c, id)
  PROVE  ClientTypes' /\ ClientInv'
<1>1. HandlerOK(c) /\ AccountedFor(c) /\ HandlerTypes /\ StreamTypes
  BY DEF IInv, ClientInv
<1>2. PICK s \in Sessions, how \in {"found", "attached"} :
        /\ at[c] = "idle"
        /\ at' = [at EXCEPT ![c] = how] /\ sess' = [sess EXCEPT ![c] = {s}]
        /\ report' \in [Clients -> SUBSET Sessions]
        /\ UNCHANGED <<lines, history, chan, dropped, sub, next, stopping, over>>
  <2>1. ASSUME NEW s \in Sessions, Run(c, s)
        PROVE  /\ at[c] = "idle"
               /\ at' = [at EXCEPT ![c] = "attached"] /\ sess' = [sess EXCEPT ![c] = {s}]
               /\ report' \in [Clients -> SUBSET Sessions]
               /\ UNCHANGED <<lines, history, chan, dropped, sub, next, stopping, over>>
    BY <1>1, <2>1 DEF Run, streamVars, heardVars, HandlerTypes
  <2>2. ASSUME NEW id \in IDs, Find(c, id)
        PROVE  \E s \in Sessions :
               /\ at[c] = "idle"
               /\ at' = [at EXCEPT ![c] = "found"] /\ sess' = [sess EXCEPT ![c] = {s}]
               /\ report' \in [Clients -> SUBSET Sessions]
               /\ UNCHANGED <<lines, history, chan, dropped, sub, next, stopping, over>>
    <3>1. PICK s \in Sessions : Registered(id) = {s}
      BY <2>2, RegisteredIs DEF Find, IInv
    <3> QED BY <1>1, <2>2, <3>1 DEF Find, sessionVars, streamVars, heardVars, HandlerTypes
  <2> QED BY <2>1, <2>2
<1>3. StreamTypes' /\ HandlerTypes' /\ at'[c] = how /\ sess'[c] = {s}
  BY <1>1, <1>2 DEF StreamTypes, HandlerTypes, Steps
<1>4. HandlerOK(c)'
  BY <1>1, <1>2, <1>3 DEF HandlerOK, Finished
<1>5. AccountedFor(c)'
  BY <1>1, <1>2 DEF AccountedFor, HandlerOK
<1>6. \A x \in Clients \ {c} : UNCHANGED Mine(x)
  BY <1>1, <1>2 DEF Mine, HandlerTypes
<1>7. ClientInv'
  BY <1>1, <1>2, <1>4, <1>5, <1>6, OthersStay DEF IInv
<1> QED BY <1>3, <1>7 DEF ClientTypes

LEMMA ReturnStep ==
  ASSUME IInv, Steady, NEW c \in Clients, FinishStream(c) \/ Interrupt(c) \/ Leave(c)
  PROVE  ClientTypes' /\ ClientInv'
<1>1. HandlerOK(c) /\ HandlerTypes /\ StreamTypes
  BY DEF IInv, ClientInv
<1>2. PICK how \in Ends :
        /\ at[c] = "stream" /\ at' = [at EXCEPT ![c] = "gone"]
        /\ over' = [over EXCEPT ![c] = how]
        /\ sub' = [sub EXCEPT ![c] = IF @ = "live" THEN "closed" ELSE @]
        /\ UNCHANGED <<state, lines, sess, report, history, chan, dropped, next, stopping>>
  BY DEF FinishStream, Interrupt, Leave, Return, sessionVars, Ends
<1>3. /\ StreamTypes' /\ HandlerTypes' /\ at'[c] = "gone"
      /\ sub'[c] = IF sub[c] = "live" THEN "closed" ELSE sub[c]
  BY <1>1, <1>2 DEF StreamTypes, HandlerTypes, Steps, Subs
<1>4. HandlerOK(c)'
  <2>1. sub'[c] \in {"closing", "closed"} /\ sub[c] # "none"
    BY <1>1, <1>2, <1>3 DEF HandlerOK, StreamTypes, Subs
  <2> QED BY <1>1, <1>2, <1>3, <2>1 DEF HandlerOK
<1>5. AccountedFor(c)'
  BY <1>3 DEF AccountedFor
<1>6. \A x \in Clients \ {c} : UNCHANGED Mine(x)
  BY <1>1, <1>2 DEF Mine, HandlerTypes, StreamTypes
<1>7. ClientInv'
  BY <1>1, <1>2, <1>4, <1>5, <1>6, OthersStay DEF IInv
<1> QED BY <1>3, <1>7 DEF ClientTypes

LEMMA ReplayStep ==
  ASSUME IInv, Steady, NEW c \in Clients, Replay(c)
  PROVE  ClientTypes' /\ ClientInv' /\ Head(history[c]) = next[c] /\ next[c] >= 1
<1>1. HandlerOK(c) /\ AccountedFor(c) /\ HandlerTypes /\ StreamTypes
  BY DEF IInv, ClientInv
<1> DEFINE h == history[c]
           n == next[c]
<1>2. /\ at[c] = "stream" /\ h # <<>> /\ history' = [history EXCEPT ![c] = Tail(h)]
      /\ next' = [next EXCEPT ![c] = n + Width(LineItem(Head(h)))]
      /\ UNCHANGED <<state, lines, at, sess, report, chan, dropped, sub, stopping, over>>
  BY DEF Replay, Hear, sessionVars, streamVars
<1>3. h \in Seq(Nat) /\ n \in Nat
  BY <1>1 DEF HandlerTypes, StreamTypes
<1>4. PICK s \in Sessions : sess[c] = {s}
  BY <1>1, <1>2 DEF HandlerOK
<1>5. /\ sub[c] # "none" /\ n >= 1
      /\ \A i \in DOMAIN h : h[i] = n + i - 1
      /\ Spans(n + Len(h), chan[c], lines[s] + 1 - dropped[c])
  BY <1>1, <1>2, <1>4 DEF HandlerOK, AccountedFor
<1> HIDE DEF h, n
<1>6. Head(h) = n
  BY <1>2, <1>3, <1>5
<1>7. Width(LineItem(Head(h))) = 1
  BY <1>3, <1>5, <1>6 DEF Width, LineItem
<1>8. /\ Tail(h) \in Seq(Nat) /\ n + 1 \in Nat /\ (n + 1) + Len(Tail(h)) = n + Len(h)
      /\ \A i \in DOMAIN Tail(h) : Tail(h)[i] = (n + 1) + i - 1
  BY <1>2, <1>3, <1>5
<1>9. StreamTypes' /\ HandlerTypes' /\ next'[c] = n + 1 /\ history'[c] = Tail(h)
  BY <1>1, <1>2, <1>7, <1>8 DEF StreamTypes, HandlerTypes
<1>10. HandlerOK(c)'
  BY <1>1, <1>2, <1>3, <1>5, <1>9 DEF HandlerOK, Finished
<1>11. AccountedFor(c)'
  <2>1. /\ \A i \in DOMAIN history'[c] : history'[c][i] = next'[c] + i - 1
        /\ Spans(next'[c] + Len(history'[c]), chan'[c], lines'[s] + 1 - dropped'[c])
    BY <1>2, <1>5, <1>8, <1>9
  <2> QED BY <1>2, <1>4, <2>1 DEF AccountedFor
<1>12. \A x \in Clients \ {c} : UNCHANGED Mine(x)
  BY <1>1, <1>2 DEF Mine, HandlerTypes, StreamTypes
<1>13. ClientInv'
  BY <1>1, <1>2, <1>10, <1>11, <1>12, OthersStay DEF IInv
<1> QED BY <1>5, <1>6, <1>9, <1>13 DEF ClientTypes, h, n

LEMMA ForwardStep ==
  ASSUME IInv, Steady, NEW c \in Clients, Forward(c)
  PROVE  /\ ClientTypes' /\ ClientInv'
         /\ Head(chan[c]) \in Items /\ Head(chan[c]).line \in {0, next[c]}
         /\ sub[c] # "none"
         /\ \A s \in sess[c] : next[c] + Width(Head(chan[c])) <= lines[s] + 1 - dropped[c]
<1>1. HandlerOK(c) /\ AccountedFor(c) /\ HandlerTypes /\ StreamTypes
  BY DEF IInv, ClientInv
<1> DEFINE ch == chan[c]
           n == next[c]
<1>2. /\ at[c] = "stream" /\ history[c] = <<>> /\ ch # <<>>
      /\ chan' = [chan EXCEPT ![c] = Tail(ch)]
      /\ next' = [next EXCEPT ![c] = n + Width(Head(ch))]
      /\ UNCHANGED <<state, lines, at, sess, report, history, dropped, sub, stopping, over>>
  BY DEF Forward, Hear, sessionVars, handlerVars
<1>3. ch \in Seq(Items) /\ n \in Nat /\ dropped[c] \in Nat /\ Len(ch) <= ChannelSize
  BY <1>1 DEF StreamTypes
<1>4. PICK s \in Sessions : sess[c] = {s} /\ lines[s] \in Nat
  BY <1>1, <1>2 DEF HandlerOK, IInv, RingInv
<1> DEFINE to == lines[s] + 1 - dropped[c]
<1>5. sub[c] # "none" /\ n >= 1 /\ Spans(n, ch, to)
  <2>1. n + Len(<<>>) = n
    BY <1>3
  <2>2. Spans(n + Len(history[c]), ch, to)
    BY <1>1, <1>2, <1>4 DEF HandlerOK, AccountedFor
  <2> QED BY <1>1, <1>2, <2>1, <2>2 DEF HandlerOK
<1>6. to \in Int
  BY <1>3, <1>4
<1> HIDE DEF ch, n, to
<1>7. to \in Nat
  BY <1>3, <1>5, <1>6, SpansPositive
<1>8. /\ Head(ch).line \in {0, n} /\ n + Width(Head(ch)) <= to
      /\ Spans(n + Width(Head(ch)), Tail(ch), to)
  BY <1>2, <1>3, <1>5, <1>7, SpansLess
<1>9. Head(ch) \in Items /\ Tail(ch) \in Seq(Items) /\ Len(Tail(ch)) <= ChannelSize
  BY <1>2, <1>3, SizesAssumption
<1>10. Width(Head(ch)) \in Nat
  BY <1>9, ItemWidth
<1> DEFINE m == n + Width(Head(ch))
<1>11. m \in Nat /\ m >= 1 /\ m + Len(<<>>) = m
  BY <1>3, <1>5, <1>10
<1> HIDE DEF m
<1>12. StreamTypes' /\ HandlerTypes' /\ next'[c] = m /\ chan'[c] = Tail(ch)
  BY <1>1, <1>2, <1>9, <1>11 DEF StreamTypes, HandlerTypes, m
<1>13. HandlerOK(c)'
  BY <1>1, <1>2, <1>5, <1>11, <1>12 DEF HandlerOK, Finished
<1>14. AccountedFor(c)'
  <2>1. /\ \A i \in DOMAIN history'[c] : history'[c][i] = next'[c] + i - 1
        /\ Spans(next'[c] + Len(history'[c]), chan'[c], lines'[s] + 1 - dropped'[c])
    <3>1. DOMAIN history'[c] = {} /\ Len(history'[c]) = 0
      BY <1>2
    <3>2. Spans(m, Tail(ch), to) /\ next'[c] + Len(history'[c]) = m
      BY <1>8, <1>11, <1>12, <3>1 DEF m
    <3>3. lines'[s] + 1 - dropped'[c] = to
      BY <1>2 DEF to
    <3> QED BY <1>12, <3>1, <3>2, <3>3
  <2> QED BY <1>2, <1>4, <2>1 DEF AccountedFor
<1>15. \A x \in Clients \ {c} : UNCHANGED Mine(x)
  BY <1>1, <1>2 DEF Mine, HandlerTypes, StreamTypes
<1>16. ClientInv'
  BY <1>1, <1>2, <1>13, <1>14, <1>15, OthersStay DEF IInv
<1>17. \A x \in sess[c] : x = s
  BY <1>4
<1> QED BY <1>5, <1>8, <1>9, <1>12, <1>16, <1>17 DEF ClientTypes, ch, n, to

-----------------------------------------------------------------------------
(* The theorems.                                                           *)

LEMMA StepInv ==
  ASSUME IInv, [Next]_vars
  PROVE  IInv' /\ Steady /\ \A s \in Sessions : Finished(s) => lines'[s] = lines[s]
<1>1. RegistryInv'
  BY RegistryStep DEF IInv
<1>2. RingInv' /\ Steady /\ \A s \in Sessions : Finished(s) => lines'[s] = lines[s]
  BY RingStep DEF IInv, Steady
<1>3. stopping \in BOOLEAN
  BY DEF IInv, HandlerTypes
<1>4. ClientTypes' /\ ClientInv'
  <2>1. CASE UNCHANGED vars
    BY <1>2, <1>3, <2>1, QuietStep DEF vars, sessionVars, handlerVars, streamVars, heardVars
  <2>2. CASE Shutdown
    BY <1>2, <2>2, QuietStep DEF Shutdown, sessionVars, handlerVars, streamVars, heardVars
  <2>3. ASSUME NEW s \in Sessions, Session(s) PROVE ClientTypes' /\ ClientInv'
    <3>1. CASE Started(s)
      BY <1>2, <1>3, <3>1, QuietStep DEF Started, handlerVars, streamVars, heardVars
    <3> QED BY <1>2, <2>3, <3>1, LineStep, FinishStep DEF Session
  <2>4. ASSUME NEW c \in Clients, CloseChannel(c) \/ Handler(c) PROVE ClientTypes' /\ ClientInv'
    BY <1>2, <2>4, CloseChannelStep, SubscribeStep, FindAgainStep, ReplayStep, ForwardStep,
       ReturnStep DEF Handler
  <2>5. ASSUME NEW c \in Clients, \/ \E s \in Sessions : Run(c, s)
                                  \/ \E id \in IDs : Find(c, id)
        PROVE  ClientTypes' /\ ClientInv'
    BY <1>2, <2>5, AttachStep
  <2> QED BY <2>1, <2>2, <2>3, <2>4, <2>5 DEF Next
<1> QED BY <1>1, <1>2, <1>4 DEF IInv, ClientTypes

LEMMA Inductive == Spec => []IInv
<1>1. IInv /\ [Next]_vars => IInv'
  BY StepInv
<1> QED BY <1>1, InitInv, PTL DEF Spec

\* Every ring holds no more than its size, and only lines the session has written; no
\* channel holds more than its capacity (session.go, Line and Subscribe).
THEOREM TypesHold == Spec => []TypeOK
<1>1. ASSUME IInv PROVE TypeOK
  <2>1. ASSUME NEW s \in Sessions
        PROVE  /\ lines[s] \in 0..MaxLines[s]
               /\ buffer[s] \in Seq(1..lines[s]) /\ Len(buffer[s]) <= MaxBuffer
    <3> DEFINE b == buffer[s]
               k == lines[s]
    <3>1. k \in Nat /\ k <= MaxLines[s] /\ Ring(b, k) /\ MaxLines[s] \in Nat
      BY <1>1, SizesAssumption DEF IInv, RingInv
    <3> HIDE DEF b, k
    <3>2. b \in Seq(Nat) /\ Len(b) <= MaxBuffer /\ Len(b) \in Nat /\ Len(b) <= k
      BY <3>1 DEF Ring
    <3>3. \A i \in 1..Len(b) : b[i] \in 1..k
      BY <3>1, <3>2 DEF Ring
    <3>4. b \in Seq(1..k)
      <4> DEFINE T == 1..k
      <4>1. \A i \in 1..Len(b) : b[i] \in T
        BY <3>3
      <4> HIDE DEF T
      <4>2. b \in Seq(T)
        BY <3>2, <4>1
      <4> QED BY <4>2 DEF T
    <3>5. k \in 0..MaxLines[s]
      BY <3>1
    <3> QED BY <3>2, <3>4, <3>5 DEF b, k
  <2>2. /\ state \in [Sessions -> States] /\ order \in Seq(Sessions)
        /\ at \in [Clients -> Steps] /\ over \in [Clients -> Ends]
        /\ sess \in [Clients -> SUBSET Sessions] /\ report \in [Clients -> SUBSET Sessions]
        /\ dropped \in [Clients -> Nat] /\ sub \in [Clients -> Subs] /\ stopping \in BOOLEAN
        /\ \A c \in Clients : Len(chan[c]) <= ChannelSize
    BY <1>1 DEF IInv, RegistryInv, RingInv, StreamTypes, HandlerTypes
  <2> QED BY <2>1, <2>2, Zenon DEF TypeOK
<1> QED BY <1>1, Inductive, PTL

\* No line is lost unseen by the counters, whatever the sizes of the rings and the channels
\* and wherever between two lines a client came (session.go, Line, Subscribe and finish).
THEOREM EveryLineAccounted == Spec => []Accounted
<1>1. ASSUME IInv PROVE Accounted
  BY <1>1 DEF IInv, ClientInv, AccountedFor, Accounted
<1> QED BY <1>1, Inductive, PTL

-----------------------------------------------------------------------------
(* What a client receives is a line stream.                                *)

StreamVars == <<lines, Followed, next, got>>

\* The items of the abstract specification are the same.
LEMMA SameItems ==
  /\ \A n : Stream!LineItem(n) = LineItem(n)
  /\ \A k : Stream!GapItem(k) = GapItem(k)
  /\ \A item : Stream!Width(item) = Width(item)
BY DEF Stream!LineItem, Stream!GapItem, Stream!Width, LineItem, GapItem, Width

LEMMA SameFollowed ==
  ASSUME \A c \in Clients : sub'[c] = "none" <=> sub[c] = "none",
         \A c \in Clients : sub[c] # "none" => sess'[c] = sess[c]
  PROVE  Followed' = Followed
BY DEF Followed

LEMMA SpansForward ==
  ASSUME NEW from \in Int, NEW items \in Seq(Items), NEW to \in Int, Spans(from, items, to)
  PROVE  from <= to
<1>1. PICK p \in [1..(Len(items) + 1) -> 1..to] : p[1] = from
  BY DEF Spans
<1>2. Len(items) \in Nat /\ 1 \in 1..(Len(items) + 1)
  OBVIOUS
<1>3. from \in 1..to
  BY <1>1, <1>2
<1> QED BY <1>3

LEMMA StreamInit == Init => Stream!Init
BY DEF Init, Stream!Init, Followed

LEMMA LineWrites ==
  ASSUME IInv, NEW s \in Sessions, Line(s)
  PROVE  Stream!Write(s)
<1>1. UNCHANGED <<sub, sess, next, got>>
  BY DEF Line, handlerVars, heardVars
<1>2. Followed' = Followed
  BY <1>1, SameFollowed
<1>3. lines' = [lines EXCEPT ![s] = @ + 1]
  BY DEF Line
<1> QED BY <1>1, <1>2, <1>3 DEF Stream!Write

LEMMA SubscribeFollows ==
  ASSUME IInv, NEW c \in Clients, Subscribe(c)
  PROVE  \E s \in Sessions : \E n \in 1..(lines[s] + 1) : Stream!Follow(c, s, n)
<1>1. HandlerOK(c) /\ HandlerTypes /\ StreamTypes /\ RingInv
  BY DEF IInv, ClientInv
<1>2. PICK s \in sess[c] :
        /\ next' = [next EXCEPT ![c] = lines[s] - Len(buffer[s]) + 1]
        /\ sub'  = [sub EXCEPT ![c] = IF Finished(s) THEN "closed" ELSE "live"]
  BY DEF Subscribe
<1>3. /\ at[c] \in {"found", "attached"} /\ sub[c] = "none"
      /\ UNCHANGED <<lines, sess, got>>
  BY DEF Subscribe, sessionVars
<1>4. s \in Sessions /\ sess[c] = {s}
  BY <1>1, <1>2, <1>3 DEF HandlerOK
<1> DEFINE n == lines[s] - Len(buffer[s]) + 1
<1>5. n \in 1..(lines[s] + 1)
  <2> DEFINE l == Len(buffer[s])
             k == lines[s]
  <2>1. k \in Nat /\ l \in Nat /\ l <= k
    BY <1>1, <1>4 DEF RingInv, Ring
  <2> HIDE DEF k, l
  <2>2. k - l + 1 \in 1..(k + 1)
    BY <2>1
  <2> QED BY <2>2 DEF k, l
<1> HIDE DEF n
<1>6. Followed' = [Followed EXCEPT ![c] = {s}]
  <2>1. sub'[c] # "none" /\ sess'[c] = {s}
    BY <1>1, <1>2, <1>3, <1>4 DEF StreamTypes
  <2>2. \A x \in Clients \ {c} : sub'[x] = sub[x] /\ sess'[x] = sess[x]
    BY <1>1, <1>2, <1>3 DEF StreamTypes
  <2> QED BY <2>1, <2>2 DEF Followed
<1>7. Followed[c] = {}
  BY <1>3 DEF Followed
<1>8. Stream!Follow(c, s, n)
  BY <1>2, <1>3, <1>6, <1>7, Zenon DEF Stream!Follow, n
<1> QED BY <1>4, <1>5, <1>8

LEMMA ReplaySends ==
  ASSUME IInv, Steady, NEW c \in Clients, Replay(c)
  PROVE  Stream!NextLine(c)
<1>1. HandlerOK(c) /\ AccountedFor(c) /\ HandlerTypes /\ StreamTypes /\ RingInv
  BY DEF IInv, ClientInv
<1>2. Head(history[c]) = next[c]
  BY ReplayStep
<1>3. /\ at[c] = "stream" /\ history[c] # <<>> /\ UNCHANGED <<lines, sub, sess>>
      /\ got'  = [got EXCEPT ![c] = Append(@, LineItem(next[c]))]
      /\ next' = [next EXCEPT ![c] = @ + Width(LineItem(next[c]))]
  BY <1>2 DEF Replay, Hear, sessionVars, streamVars
<1>4. Followed' = Followed
  BY <1>3, SameFollowed
<1>5. sub[c] # "none" /\ Followed[c] = sess[c]
  BY <1>1, <1>3 DEF HandlerOK, Followed
<1>6. PICK s \in Sessions : sess[c] = {s}
  BY <1>1, <1>3 DEF HandlerOK
<1>7. next[c] <= lines[s]
  <2> DEFINE n == next[c]
             h == Len(history[c])
             k == lines[s]
             d == dropped[c]
  <2>1. Spans(n + h, chan[c], k + 1 - d)
    BY <1>1, <1>3, <1>5, <1>6 DEF AccountedFor
  <2>2. /\ n \in Nat /\ h \in Nat /\ h >= 1 /\ k \in Nat /\ d \in Nat
        /\ chan[c] \in Seq(Items)
    BY <1>1, <1>3 DEF StreamTypes, HandlerTypes, RingInv
  <2> HIDE DEF n, h, k, d
  <2>3. n + h \in Int /\ k + 1 - d \in Int
    BY <2>2
  <2>4. n + h <= k + 1 - d
    BY <2>1, <2>2, <2>3, SpansForward
  <2>5. n <= k
    BY <2>2, <2>4
  <2> QED BY <2>5 DEF n, k
<1>8. \E x \in Followed[c] : next[c] <= lines[x]
  BY <1>5, <1>6, <1>7
<1>9. Stream!Receive(c, Stream!LineItem(next[c]))
  BY <1>3, <1>4, SameItems DEF Stream!Receive
<1> QED BY <1>8, <1>9 DEF Stream!NextLine

LEMMA ForwardSends ==
  ASSUME IInv, Steady, NEW c \in Clients, Forward(c)
  PROVE  \/ Stream!NextLine(c)
         \/ \E s \in Followed[c] : \E k \in 1..lines[s] : Stream!Gap(c, k)
<1> DEFINE x == Head(chan[c])
<1>1. HandlerOK(c) /\ HandlerTypes /\ StreamTypes /\ RingInv
  BY DEF IInv, ClientInv
<1>2. /\ x \in Items /\ x.line \in {0, next[c]} /\ sub[c] # "none"
      /\ \A s \in sess[c] : next[c] + Width(x) <= lines[s] + 1 - dropped[c]
  BY ForwardStep
<1>3. /\ at[c] = "stream" /\ UNCHANGED <<lines, sub, sess>>
      /\ got'  = [got EXCEPT ![c] = Append(@, x)]
      /\ next' = [next EXCEPT ![c] = @ + Width(x)]
  BY DEF Forward, Hear, sessionVars, handlerVars
<1> HIDE DEF x
<1>4. Followed' = Followed /\ Followed[c] = sess[c]
  BY <1>2, <1>3, SameFollowed DEF Followed
<1>5. PICK s \in Sessions : sess[c] = {s}
  BY <1>1, <1>3 DEF HandlerOK
<1>6. Stream!Receive(c, x)
  BY <1>3, <1>4, SameItems DEF Stream!Receive
<1>7. /\ next[c] \in Nat /\ next[c] >= 1 /\ lines[s] \in Nat /\ dropped[c] \in Nat
      /\ next[c] + Width(x) <= lines[s] + 1 - dropped[c]
  BY <1>1, <1>2, <1>5 DEF HandlerOK, StreamTypes, RingInv
<1>8. CASE \E n \in Nat \ {0} : x = LineItem(n)
  <2>1. x = LineItem(next[c]) /\ Width(x) = 1
    BY <1>2, <1>7, <1>8 DEF LineItem, Width
  <2>2. next[c] <= lines[s]
    BY <1>7, <2>1
  <2>3. \E y \in Followed[c] : next[c] <= lines[y]
    BY <1>4, <1>5, <2>2
  <2>4. Stream!Receive(c, Stream!LineItem(next[c]))
    BY <1>6, <2>1, SameItems
  <2> QED BY <2>3, <2>4 DEF Stream!NextLine
<1>9. CASE \E k \in Nat \ {0} : x = GapItem(k)
  <2>1. PICK k \in Nat \ {0} : x = GapItem(k)
    BY <1>9
  <2>2. Width(x) = k
    BY <2>1 DEF GapItem, Width
  <2>3. k \in 1..lines[s] /\ next[c] + k <= lines[s] + 1
    BY <1>7, <2>2
  <2>4. \E y \in Followed[c] : next[c] + k <= lines[y] + 1
    BY <1>4, <1>5, <2>3
  <2>5. Stream!Receive(c, Stream!GapItem(k))
    BY <1>6, <2>1, SameItems
  <2>6. Stream!Gap(c, k)
    BY <2>4, <2>5 DEF Stream!Gap
  <2> QED BY <1>4, <1>5, <2>3, <2>6
<1> QED BY <1>2, <1>8, <1>9 DEF Items

\* No other step is seen in the streams.
LEMMA SessionStutters ==
  ASSUME NEW s \in Sessions, Started(s) \/ Finish(s)
  PROVE  UNCHANGED StreamVars
<1>1. UNCHANGED <<lines, sess, next, got>>
  BY DEF Started, Finish, handlerVars, heardVars
<1>2. \A c \in Clients : sub'[c] = "none" <=> sub[c] = "none"
  BY DEF Started, Finish, streamVars, Subscribers
<1>3. Followed' = Followed
  BY <1>1, <1>2, SameFollowed
<1> QED BY <1>1, <1>3 DEF StreamVars

LEMMA HandlerStutters ==
  ASSUME IInv, NEW c \in Clients,
         \/ \E s \in Sessions : Run(c, s)
         \/ \E id \in IDs : Find(c, id)
         \/ CloseChannel(c) \/ FindAgain(c) \/ FinishStream(c) \/ Interrupt(c) \/ Leave(c)
  PROVE  UNCHANGED StreamVars
<1>1. HandlerOK(c) /\ HandlerTypes /\ StreamTypes
  BY DEF IInv, ClientInv
<1>2. UNCHANGED <<lines, next, got>>
  BY DEF Run, Find, CloseChannel, FindAgain, FinishStream, Interrupt, Leave,
     sessionVars, heardVars
<1>3. /\ \A x \in Clients : sub'[x] = "none" <=> sub[x] = "none"
      /\ \A x \in Clients : sub[x] # "none" => sess'[x] = sess[x]
  <2>1. CASE FinishStream(c) \/ Interrupt(c) \/ Leave(c)
    BY <1>1, <2>1 DEF FinishStream, Interrupt, Leave, Return, StreamTypes
  <2>2. CASE CloseChannel(c)
    BY <1>1, <2>2 DEF CloseChannel, handlerVars, StreamTypes
  <2>3. CASE \/ \E s \in Sessions : Run(c, s)
             \/ \E id \in IDs : Find(c, id)
             \/ FindAgain(c)
    <3>1. UNCHANGED sub
      BY <2>3 DEF Run, Find, FindAgain, streamVars
    <3>2. sub[c] # "none" => sess'[c] = sess[c]
      BY <1>1, <2>3 DEF Run, Find, FindAgain, HandlerOK, handlerVars
    <3>3. \A x \in Clients \ {c} : sess'[x] = sess[x]
      BY <1>1, <2>3 DEF Run, Find, FindAgain, HandlerTypes, handlerVars
    <3> QED BY <3>1, <3>2, <3>3
  <2> QED BY <2>1, <2>2, <2>3
<1>4. Followed' = Followed
  BY <1>3, SameFollowed
<1> QED BY <1>2, <1>4 DEF StreamVars

LEMMA StreamStep ==
  ASSUME IInv, [Next]_vars
  PROVE  Stream!Next \/ UNCHANGED StreamVars
<1>1. Steady
  BY StepInv
<1>2. CASE UNCHANGED vars \/ Shutdown
  <2>1. UNCHANGED <<lines, sub, sess, next, got>>
    BY <1>2 DEF vars, Shutdown, sessionVars, handlerVars, streamVars, heardVars
  <2> QED BY <2>1, SameFollowed DEF StreamVars
<1>3. ASSUME NEW s \in Sessions, Session(s)
      PROVE  Stream!Next \/ UNCHANGED StreamVars
  <2>1. CASE Line(s)
    BY <2>1, LineWrites DEF Stream!Next
  <2> QED BY <1>3, <2>1, SessionStutters DEF Session
<1>4. ASSUME NEW c \in Clients, CloseChannel(c) \/ Handler(c)
      PROVE  Stream!Next \/ UNCHANGED StreamVars
  <2>1. CASE Subscribe(c)
    BY <2>1, SubscribeFollows DEF Stream!Next
  <2>2. CASE Replay(c)
    BY <1>1, <2>2, ReplaySends DEF Stream!Next
  <2>3. CASE Forward(c)
    BY <1>1, <2>3, ForwardSends DEF Stream!Next
  <2> QED BY <1>4, <2>1, <2>2, <2>3, HandlerStutters DEF Handler
<1>5. ASSUME NEW c \in Clients, \/ \E s \in Sessions : Run(c, s)
                                \/ \E id \in IDs : Find(c, id)
      PROVE  Stream!Next \/ UNCHANGED StreamVars
  BY <1>5, HandlerStutters
<1> QED BY <1>2, <1>3, <1>4, <1>5 DEF Next

\* What each client receives is a line stream: each line in its place, and a notice for
\* exactly the lines that were left out (session.go, Line and Subscribe; server.go,
\* streamToClient).
THEOREM StreamsInOrder == Spec => InOrder
<1>1. Init => Stream!Init
  BY StreamInit
<1>2. IInv /\ [Next]_vars => [Stream!Next]_(Stream!vars)
  BY StreamStep DEF StreamVars, Stream!vars
<1> QED BY <1>1, <1>2, Inductive, PTL DEF Spec, InOrder, Stream!Spec

=============================================================================
