--------------------------- MODULE SessionLogProofs ---------------------------
(***************************************************************************)
(* For any number of writers, operations, batch sizes and faults, and      *)
(* wherever a write is cut, the store keeps its types, reuses no sequence  *)
(* number, loses no acknowledged event, records the event of               *)
(* AppendEventUnlessExists once, brings back no title, and stays readable  *)
(* unless a write was cut inside a line.                                   *)
(***************************************************************************)
EXTENDS SessionLog, SequenceTheorems, FiniteSetTheorems, TLAPS

\* An event that was encoded, with or without its newline.
Event == [seq : Nat, type : EventTypes]

\* Every line up to the j-th decodes.
ClearTo(f, j) == \A k \in 1..j : f.lines[k].type # "corrupt"

\* All a file with some corrupt line can promise: the events before that line
\* increase, and the tail follows them when there is no such line.  Unlike
\* SequencesIncrease this holds of every prefix of the file as well, so it holds
\* of what a power loss leaves.
Sound(f) ==
  /\ \A i, j \in 1..Len(f.lines) :
       i < j /\ ClearTo(f, j) => f.lines[i].seq < f.lines[j].seq
  /\ Whole(f.tail) /\ Readable(f) => \A i \in 1..Len(f.lines) : f.lines[i].seq < f.tail.seq

\* A sequence number that every event of a readable file is below.
Above(f, n) == Readable(f) => \A i \in 1..Len(f.lines) : f.lines[i].seq < n

\* The lines of one batch, numbered from b.
BatchFrom(lines, b) ==
  /\ lines \in Seq(Event) /\ lines # <<>>
  /\ \A i \in 1..Len(lines) : lines[i].seq = b + i - 1

-----------------------------------------------------------------------------
(* What the operators on files return and preserve.                        *)

\* A line that decodes may stand in the log or, cut before its newline, after it.
LEMMA EventFits == Event \subseteq Line /\ Event \subseteq Ending
BY DEF Event, Line, Ending

\* A file has its two fields, of their types: what the proofs below take a file apart with.
LEMMA FileFields ==
  ASSUME NEW f \in File
  PROVE  /\ f.lines \in Seq(Line) /\ f.tail \in Ending
         /\ Len(f.lines) \in Nat /\ DOMAIN f.lines = 1..Len(f.lines)
         /\ \A i \in 1..Len(f.lines) : f.lines[i] \in Line /\ f.lines[i].seq \in Nat
<1>1. f.lines \in Seq(Line) /\ f.tail \in Ending
  BY DEF File
<1>2. Len(f.lines) \in Nat /\ DOMAIN f.lines = 1..Len(f.lines)
  BY <1>1, LenProperties
<1>3. \A i \in 1..Len(f.lines) : f.lines[i] \in Line
  BY <1>1, ElementOfSeq
<1>4. \A l \in Line : l.seq \in Nat
  BY DEF Line
<1> QED BY <1>1, <1>2, <1>3, <1>4

\* Lines written at the end of a file stay lines, though the first may be corrupted.
LEMMA GlueType ==
  ASSUME NEW t, NEW lines \in Seq(Event)
  PROVE  /\ Glue(t, lines) \in Seq(Line)
         /\ Len(Glue(t, lines)) = Len(lines)
         /\ \A i \in 1..Len(lines) :
              Glue(t, lines)[i] = IF i = 1 /\ t # NoTail THEN Corrupt ELSE lines[i]
<1>1. /\ Len(lines) \in Nat /\ DOMAIN lines = 1..Len(lines)
      /\ \A i \in 1..Len(lines) : lines[i] \in Line
  BY LenProperties, ElementOfSeq, EventFits
<1>2. Corrupt \in Line
  BY DEF Corrupt, Line
<1> DEFINE e(i) == IF i = 1 /\ t # NoTail THEN Corrupt ELSE lines[i]
<1>3. \A i \in 1..Len(lines) : e(i) \in Line
  BY <1>1, <1>2
<1>4. [i \in 1..Len(lines) |-> e(i)] \in Seq(Line)
  <2> HIDE DEF e
  <2> QED BY <1>1, <1>3, IsASeq
<1>5. Glue(t, lines) = [i \in 1..Len(lines) |-> e(i)]
  BY <1>1 DEF Glue
<1>6. Len([i \in 1..Len(lines) |-> e(i)]) = Len(lines)
  <2> HIDE DEF e
  <2> QED BY <1>1, <1>4, LenProperties
<1> QED BY <1>4, <1>5, <1>6

\* A prefix of the written lines, behind the lines that were there.
LEMMA CutLines ==
  ASSUME NEW f \in File, NEW lines \in Seq(Event), NEW k \in 0..Len(lines)
  PROVE  LET g == f.lines \o SubSeq(Glue(f.tail, lines), 1, k)
             n == Len(f.lines)
         IN  /\ g \in Seq(Line) /\ Len(g) = n + k
             /\ \A i \in 1..n : g[i] = f.lines[i]
             /\ \A i \in 1..k :
                  g[n + i] = IF i = 1 /\ f.tail # NoTail THEN Corrupt ELSE lines[i]
<1> DEFINE glued == Glue(f.tail, lines)
           s == SubSeq(glued, 1, k)
           n == Len(f.lines)
           g == f.lines \o s
<1>1. f.lines \in Seq(Line) /\ n \in Nat
  BY FileFields
<1>2. /\ glued \in Seq(Line) /\ Len(glued) = Len(lines) /\ Len(lines) \in Nat
      /\ \A i \in 1..Len(lines) :
           glued[i] = IF i = 1 /\ f.tail # NoTail THEN Corrupt ELSE lines[i]
  BY GlueType, LenProperties
<1> HIDE DEF glued
<1>3. s \in Seq(Line) /\ Len(s) = k /\ \A i \in 1..k : s[i] = glued[i]
  <2>1. \A i \in 1..k : glued[i] \in Line
    BY <1>2, ElementOfSeq
  <2>2. /\ SubSeq(glued, 1, k) \in Seq(Line)
        /\ Len(SubSeq(glued, 1, k)) = IF 1 <= k THEN k - 1 + 1 ELSE 0
        /\ \A i \in 1..(k - 1 + 1) : SubSeq(glued, 1, k)[i] = glued[1 + i - 1]
    BY <1>2, <2>1, SubSeqProperties
  <2> QED BY <1>2, <2>2
<1> HIDE DEF s
<1>4. /\ g \in Seq(Line) /\ Len(g) = n + Len(s)
      /\ \A i \in 1..(n + Len(s)) : g[i] = IF i <= n THEN f.lines[i] ELSE s[i - n]
  BY <1>1, <1>3, ConcatProperties
<1> HIDE DEF g
<1>5. /\ g \in Seq(Line) /\ Len(g) = n + k
      /\ \A i \in 1..n : g[i] = f.lines[i]
      /\ \A i \in 1..k : g[n + i] = s[i]
  <2>1. n \in Nat /\ k \in Nat /\ Len(s) = k
    BY <1>1, <1>2, <1>3
  <2> HIDE DEF n
  <2>2. ASSUME NEW i \in 1..n PROVE g[i] = f.lines[i]
    <3>1. i \in 1..(n + Len(s)) /\ i <= n
      BY <2>1
    <3> QED BY <3>1, <1>4
  <2>3. ASSUME NEW i \in 1..k PROVE g[n + i] = s[i]
    <3>1. n + i \in 1..(n + Len(s)) /\ ~(n + i <= n) /\ (n + i) - n = i
      BY <2>1
    <3> QED BY <3>1, <1>4
  <2> QED BY <2>1, <2>2, <2>3, <1>4
<1>6. \A i \in 1..k : g[n + i] = IF i = 1 /\ f.tail # NoTail THEN Corrupt ELSE lines[i]
  <2> TAKE i \in 1..k
  <2>1. i \in 1..Len(lines)
    BY <1>2
  <2>2. g[n + i] = glued[i]
    BY <1>3, <1>5
  <2> QED BY <2>1, <2>2, <1>2
<1> QED BY <1>5, <1>6 DEF g, s, glued

\* Whatever a cut write leaves behind the last newline may stand there.
LEMMA TailFits ==
  ASSUME NEW f \in File, NEW lines \in Seq(Event), lines # <<>>, NEW k \in 0..Len(lines)
  PROVE  CutTails(f, lines, k) \subseteq Ending
<1>1. Len(lines) \in Nat \ {0} /\ \A i \in 1..Len(lines) : lines[i] \in Ending
  BY EmptySeq, ElementOfSeq, EventFits
<1>2. NoTail \in Ending /\ Partial \in Ending /\ f.tail \in Ending
  BY FileFields DEF NoTail, Partial, Ending
<1>3. CASE k = Len(lines)
  BY <1>2, <1>3 DEF CutTails
<1>4. CASE k = 0
  <2>1. lines[1] \in Ending /\ k # Len(lines)
    BY <1>1, <1>4
  <2> QED BY <1>2, <1>4, <2>1 DEF CutTails
<1>5. CASE k # Len(lines) /\ k # 0
  <2>1. k + 1 \in 1..Len(lines)
    BY <1>1, <1>5
  <2>2. lines[k + 1] \in Ending
    BY <1>1, <2>1
  <2> QED BY <1>2, <1>5, <2>2 DEF CutTails
<1> QED BY <1>3, <1>4, <1>5

\* Whatever part of a write is stored, the file keeps its shape; all of it is one part.
LEMMA CutType ==
  ASSUME NEW f \in File, NEW lines \in Seq(Event), lines # <<>>
  PROVE  CutAppends(f, lines) \subseteq File /\ Appended(f, lines) \in CutAppends(f, lines)
<1>1. Len(lines) \in Nat
  BY LenProperties
<1>2. ASSUME NEW k \in 0..Len(lines), NEW t \in CutTails(f, lines, k)
      PROVE  [lines |-> f.lines \o SubSeq(Glue(f.tail, lines), 1, k), tail |-> t] \in File
  BY CutLines, TailFits DEF File
<1>3. SubSeq(Glue(f.tail, lines), 1, Len(lines)) = Glue(f.tail, lines)
  <2>1. Glue(f.tail, lines) \in Seq(Line) /\ Len(Glue(f.tail, lines)) = Len(lines)
    BY GlueType
  <2>2. SubSeq(Glue(f.tail, lines), 1, Len(Glue(f.tail, lines))) = Glue(f.tail, lines)
    BY <2>1, SubSeqFull
  <2> QED BY <2>1, <2>2
<1>4. Len(lines) \in 0..Len(lines) /\ NoTail \in CutTails(f, lines, Len(lines))
  BY <1>1 DEF CutTails
<1>5. CutAppends(f, lines) \subseteq File
  <2> SUFFICES ASSUME NEW g \in CutAppends(f, lines) PROVE g \in File
    OBVIOUS
  <2>1. PICK k \in 0..Len(lines) : \E t \in CutTails(f, lines, k) :
          g = [lines |-> f.lines \o SubSeq(Glue(f.tail, lines), 1, k), tail |-> t]
    BY DEF CutAppends
  <2> QED BY <1>2, <2>1
<1>6. Appended(f, lines) \in CutAppends(f, lines)
  <2>1. Appended(f, lines) =
          [lines |-> f.lines \o SubSeq(Glue(f.tail, lines), 1, Len(lines)), tail |-> NoTail]
    BY <1>3 DEF Appended
  <2>2. Appended(f, lines) \in
          {[lines |-> f.lines \o SubSeq(Glue(f.tail, lines), 1, Len(lines)), tail |-> t] :
             t \in CutTails(f, lines, Len(lines))}
    BY <1>4, <2>1
  <2> QED BY <1>4, <2>2 DEF CutAppends
<1> QED BY <1>5, <1>6

\* A batch numbered above the log leaves a sound file, however much of it is stored.
LEMMA CutSound ==
  ASSUME NEW f \in File, Sound(f), NEW b \in Nat, Above(f, b),
         NEW lines, BatchFrom(lines, b), NEW g \in CutAppends(f, lines)
  PROVE  Sound(g)
<1>1. /\ lines \in Seq(Event) /\ lines # <<>> /\ Len(lines) \in Nat
      /\ \A i \in 1..Len(lines) : lines[i].seq = b + i - 1
  BY LenProperties DEF BatchFrom
<1>k. PICK k \in 0..Len(lines) : \E t \in CutTails(f, lines, k) :
        g = [lines |-> f.lines \o SubSeq(Glue(f.tail, lines), 1, k), tail |-> t]
  BY DEF CutAppends
<1>2. PICK t \in CutTails(f, lines, k) :
        g = [lines |-> f.lines \o SubSeq(Glue(f.tail, lines), 1, k), tail |-> t]
  BY <1>k
<1> DEFINE n == Len(f.lines)
<1>3. /\ g.tail = t /\ g.lines \in Seq(Line) /\ Len(g.lines) = n + k
      /\ \A i \in 1..n : g.lines[i] = f.lines[i]
      /\ \A i \in 1..k :
           g.lines[n + i] = IF i = 1 /\ f.tail # NoTail THEN Corrupt ELSE lines[i]
  BY <1>1, <1>2, CutLines
<1>4. /\ n \in Nat /\ k \in Nat
      /\ DOMAIN f.lines = 1..n /\ DOMAIN g.lines = 1..(n + k)
      /\ \A i \in 1..n : f.lines[i].seq \in Nat
  BY <1>1, <1>3, FileFields, LenProperties
<1>5. ASSUME f.tail # NoTail, k > 0
      PROVE  ~ClearTo(g, n + 1) /\ ~Readable(g)
  <2>1. 1 \in 1..k /\ n + 1 \in 1..(n + k) /\ n + 1 \in 1..(n + 1)
    BY <1>4, <1>5
  <2>2. g.lines[n + 1].type = "corrupt"
    BY <1>3, <1>5, <2>1 DEF Corrupt
  <2> QED BY <1>4, <2>1, <2>2 DEF ClearTo, Readable
<1>6. ASSUME NEW j \in 1..(n + k), ClearTo(g, j), j > n
      PROVE  /\ Readable(f) /\ f.tail = NoTail
             /\ j - n \in 1..k /\ g.lines[j].seq = b + (j - n) - 1
  <2>1. \A i \in 1..n : i \in 1..j
    BY <1>4, <1>6
  <2>2. Readable(f)
    BY <1>3, <1>4, <1>6, <2>1 DEF ClearTo, Readable
  <2>3. k > 0 /\ n + 1 \in 1..j /\ \A i \in 1..(n + 1) : i \in 1..j
    BY <1>4, <1>6
  <2>4. ClearTo(g, n + 1)
    BY <1>6, <2>3 DEF ClearTo
  <2>5. f.tail = NoTail
    BY <1>5, <2>3, <2>4
  <2>6. j - n \in 1..k /\ n + (j - n) = j /\ j - n \in 1..Len(lines)
    BY <1>1, <1>4, <1>6
  <2>7. g.lines[j] = lines[j - n]
    BY <1>3, <2>5, <2>6
  <2> QED BY <1>1, <2>2, <2>5, <2>6, <2>7
<1>7. ASSUME NEW i \in 1..(n + k), NEW j \in 1..(n + k), i < j, ClearTo(g, j)
      PROVE  g.lines[i].seq < g.lines[j].seq
  <2>1. CASE j <= n
    <3>1. i \in 1..n /\ j \in 1..n /\ \A m \in 1..j : m \in 1..n
      BY <1>4, <1>7, <2>1
    <3>2. ClearTo(f, j)
      BY <1>3, <1>7, <3>1 DEF ClearTo
    <3> QED BY <1>3, <1>7, <3>1, <3>2 DEF Sound
  <2>2. CASE i <= n /\ j > n
    <3>1. i \in 1..n
      BY <1>4, <2>2
    <3>2. /\ Readable(f) /\ j - n \in 1..k /\ g.lines[j].seq = b + (j - n) - 1
      BY <1>6, <1>7, <2>2
    <3>3. g.lines[i].seq < b /\ g.lines[i].seq \in Nat
      BY <1>3, <1>4, <3>1, <3>2 DEF Above
    <3>4. j - n \in Nat \ {0}
      BY <1>4, <3>2
    <3> HIDE DEF n
    <3> QED BY <3>2, <3>3, <3>4
  <2>3. CASE i > n /\ j > n
    <3>1. /\ f.tail = NoTail /\ j - n \in 1..k /\ g.lines[j].seq = b + (j - n) - 1
      BY <1>6, <1>7, <2>3
    <3>2. \A m \in 1..i : m \in 1..j
      BY <1>4, <1>7
    <3>3. ClearTo(g, i)
      BY <1>7, <3>2 DEF ClearTo
    <3>4. g.lines[i].seq = b + (i - n) - 1
      BY <1>6, <3>3, <2>3
    <3>5. i \in Int /\ j \in Int /\ n \in Int /\ i < j
      BY <1>4, <1>7
    <3> HIDE DEF n
    <3> QED BY <3>1, <3>4, <3>5
  <2> QED BY <1>4, <1>7, <2>1, <2>2, <2>3
<1>8. ASSUME Whole(t), Readable(g), NEW i \in 1..(n + k)
      PROVE  g.lines[i].seq < t.seq
  <2>1. \A j \in 1..(n + k) : ClearTo(g, j)
    BY <1>4, <1>8 DEF ClearTo, Readable
  <2>2. Readable(f)
    <3>1. \A m \in 1..n : m \in 1..(n + k)
      BY <1>4
    <3> QED BY <1>3, <1>4, <1>8, <3>1 DEF Readable
  <2>3. ~Whole(NoTail) /\ ~Whole(Partial)
    BY DEF Whole, NoTail, Partial, EventTypes
  <2>4. CASE k = 0
    <3>1. i \in 1..n /\ g.lines[i] = f.lines[i]
      BY <1>3, <1>4, <2>4
    <3>2. t = f.tail \/ (f.tail = NoTail /\ t = lines[1] /\ 1 \in 1..Len(lines))
      <4>1. Len(lines) \in Nat \ {0}
        BY <1>1, EmptySeq
      <4>2. k # Len(lines)
        BY <4>1, <2>4
      <4> QED BY <1>8, <2>3, <2>4, <4>1, <4>2 DEF CutTails
    <3>3. CASE t = f.tail
      BY <1>8, <2>2, <3>1, <3>3 DEF Sound
    <3>4. CASE f.tail = NoTail /\ t = lines[1] /\ 1 \in 1..Len(lines)
      <4>1. t.seq = b
        BY <1>1, <3>4
      <4> QED BY <2>2, <3>1, <4>1 DEF Above
    <3> QED BY <3>2, <3>3, <3>4
  <2>5. CASE k # 0
    <3>1. k # Len(lines) /\ t = lines[k + 1]
      BY <1>8, <2>3, <2>5 DEF CutTails
    <3>2. k + 1 \in 1..Len(lines) /\ t.seq = b + k
      <4>1. k + 1 \in 1..Len(lines)
        BY <1>1, <3>1
      <4>2. t.seq = b + (k + 1) - 1
        BY <1>1, <3>1, <4>1
      <4> QED BY <4>1, <4>2
    <3>3. CASE i <= n
      <4>1. i \in 1..n
        BY <1>4, <3>3
      <4>2. g.lines[i].seq < b /\ g.lines[i].seq \in Nat
        BY <1>3, <1>4, <2>2, <4>1 DEF Above
      <4> QED BY <3>2, <4>2
    <3>4. CASE i > n
      <4>1. i - n \in 1..k /\ g.lines[i].seq = b + (i - n) - 1
        BY <1>6, <2>1, <3>4
      <4>2. i \in Int /\ n \in Int /\ i - n <= k
        BY <1>4, <4>1
      <4> HIDE DEF n
      <4> QED BY <1>4, <3>2, <4>1, <4>2
    <3> QED BY <1>4, <3>3, <3>4
  <2> QED BY <2>4, <2>5
<1> QED BY <1>3, <1>7, <1>8 DEF Sound

\* The events ReadEvents returns are lines of the log or its decoded tail.
LEMMA ReadEventsType ==
  ASSUME NEW f \in File
  PROVE  /\ ReadEvents(f) \in Seq(Line)
         /\ Len(ReadEvents(f)) = Len(f.lines) + (IF Whole(f.tail) THEN 1 ELSE 0)
         /\ \A i \in 1..Len(f.lines) : ReadEvents(f)[i] = f.lines[i]
         /\ Whole(f.tail) => ReadEvents(f)[Len(f.lines) + 1] = f.tail
<1>1. f.lines \in Seq(Line) /\ f.tail \in Ending /\ Len(f.lines) \in Nat
  BY FileFields
<1>2. CASE ~Whole(f.tail)
  BY <1>1, <1>2 DEF ReadEvents
<1>3. CASE Whole(f.tail)
  <2>1. f.tail \in Line
    BY <1>1, <1>3 DEF Whole, Ending, Line
  <2> QED BY <1>1, <1>3, <2>1, AppendProperties DEF ReadEvents
<1> QED BY <1>2, <1>3

\* What ReadEvents returns of a sound log increases.
LEMMA ReadEventsIncrease ==
  ASSUME NEW f \in File, Sound(f), Readable(f)
  PROVE  Increasing(ReadEvents(f))
<1> DEFINE n == Len(f.lines)
<1>1. n \in Nat /\ DOMAIN f.lines = 1..n
  BY FileFields
<1>2. ASSUME NEW i \in 1..n, NEW j \in 1..n, i < j PROVE f.lines[i].seq < f.lines[j].seq
  <2>1. ClearTo(f, j)
    <3>1. \A k \in 1..j : k \in 1..n
      BY <1>1
    <3> QED BY <1>1, <3>1 DEF ClearTo, Readable
  <2> QED BY <1>2, <2>1 DEF Sound
<1>3. DOMAIN ReadEvents(f) = 1..Len(ReadEvents(f))
  BY ReadEventsType, LenProperties
<1>4. SUFFICES ASSUME NEW i \in 1..Len(ReadEvents(f)), NEW j \in 1..Len(ReadEvents(f)), i < j
               PROVE  ReadEvents(f)[i].seq < ReadEvents(f)[j].seq
  BY <1>3 DEF Increasing
<1>5. CASE j \in 1..n
  <2>1. i \in 1..n
    BY <1>1, <1>4, <1>5
  <2>2. ReadEvents(f)[i] = f.lines[i] /\ ReadEvents(f)[j] = f.lines[j]
    BY <1>5, <2>1, ReadEventsType
  <2> QED BY <1>2, <1>4, <1>5, <2>1, <2>2
<1>6. CASE j \notin 1..n
  <2>0. Len(ReadEvents(f)) = n + (IF Whole(f.tail) THEN 1 ELSE 0)
    BY ReadEventsType
  <2> HIDE DEF n
  <2>1. Whole(f.tail) /\ j = n + 1 /\ i \in 1..n
    BY <1>1, <1>4, <1>6, <2>0
  <2> USE DEF n
  <2>2. ReadEvents(f)[i] = f.lines[i] /\ ReadEvents(f)[j] = f.tail
    BY <2>1, ReadEventsType
  <2> QED BY <2>1, <2>2 DEF Sound
<1> QED BY <1>5, <1>6

\* A truncation leaves a file of the same shape, sound if it could read the log.
LEMMA TruncatedSound ==
  ASSUME NEW f \in File, NEW target, NEW g \in Truncated(f, target)
  PROVE  g \in File /\ (Sound(f) /\ Readable(f) => Sound(g))
<1>1. PICK k \in 0..Len(ReadEvents(f)) : g = [lines |-> SubSeq(ReadEvents(f), 1, k), tail |-> NoTail]
  BY DEF Truncated
<1> DEFINE s == SubSeq(ReadEvents(f), 1, k)
<1>2. /\ ReadEvents(f) \in Seq(Line) /\ Len(ReadEvents(f)) \in Nat /\ k \in Nat
      /\ DOMAIN ReadEvents(f) = 1..Len(ReadEvents(f))
  <2>1. ReadEvents(f) \in Seq(Line)
    BY ReadEventsType
  <2>2. Len(ReadEvents(f)) \in Nat /\ DOMAIN ReadEvents(f) = 1..Len(ReadEvents(f))
    BY <2>1, LenProperties
  <2> QED BY <2>1, <2>2
<1>3. \A i \in 1..k : ReadEvents(f)[i] \in Line /\ i \in 1..Len(ReadEvents(f))
  BY <1>2, ElementOfSeq
<1>4. s \in Seq(Line) /\ Len(s) = k /\ \A i \in 1..k : s[i] = ReadEvents(f)[i]
  <2>1. /\ s \in Seq(Line)
        /\ Len(s) = IF 1 <= k THEN k - 1 + 1 ELSE 0
        /\ \A i \in 1..(k - 1 + 1) : s[i] = ReadEvents(f)[1 + i - 1]
    BY <1>2, <1>3, SubSeqProperties
  <2> QED BY <1>2, <2>1
<1>5. NoTail \in Ending /\ ~Whole(NoTail)
  BY DEF NoTail, Ending, Whole, EventTypes
<1>6. g \in File
  BY <1>1, <1>4, <1>5 DEF File
<1>7. ASSUME Sound(f), Readable(f) PROVE Sound(g)
  <2>1. \A i, j \in 1..k : i < j => ReadEvents(f)[i].seq < ReadEvents(f)[j].seq
    <3>1. Increasing(ReadEvents(f))
      BY <1>7, ReadEventsIncrease
    <3> QED BY <1>2, <1>3, <3>1 DEF Increasing
  <2>2. g.lines = s /\ g.tail = NoTail
    BY <1>1
  <2> QED BY <1>4, <1>5, <2>1, <2>2 DEF Sound
<1> QED BY <1>6, <1>7

\* The number the next event gets is above every event of a log that can be read.
LEMMA NextAbove ==
  ASSUME NEW f \in File, NEW count \in Nat
  PROVE  NextSequence(f, count) \in Nat /\ (Sound(f) => Above(f, NextSequence(f, count)))
<1> DEFINE n == Len(f.lines)
<1>1. /\ f.lines \in Seq(Line) /\ n \in Nat /\ DOMAIN f.lines = 1..n
      /\ \A i \in 1..n : f.lines[i].seq \in Nat
  BY FileFields
<1>2. CASE f.lines = <<>>
  <2>1. n = 0 /\ LastEventSequence(f) = 0
    BY <1>2, EmptySeq DEF LastEventSequence
  <2> QED BY <2>1 DEF NextSequence, Above
<1>3. CASE f.lines # <<>>
  <2>1. n \in 1..n /\ LastEventSequence(f) = f.lines[n].seq
    BY <1>1, <1>3, EmptySeq DEF LastEventSequence
  <2>2. LastEventSequence(f) \in Nat
    BY <1>1, <2>1
  <2>3. NextSequence(f, count) \in Nat /\ NextSequence(f, count) > LastEventSequence(f)
    BY <2>2 DEF NextSequence
  <2>4. ASSUME Sound(f), Readable(f), NEW i \in 1..n
        PROVE  f.lines[i].seq < NextSequence(f, count)
    <3>1. ClearTo(f, n)
      BY <1>1, <2>4 DEF ClearTo, Readable
    <3>2. i = n \/ i < n
      BY <1>1
    <3>3. i = n \/ f.lines[i].seq < f.lines[n].seq
      BY <2>1, <2>4, <3>1, <3>2 DEF Sound
    <3>4. f.lines[i].seq \in Nat
      BY <1>1
    <3> HIDE DEF n
    <3> QED BY <2>1, <2>2, <2>3, <3>3, <3>4
  <2> QED BY <2>3, <2>4 DEF Above
<1> QED BY <1>2, <1>3

\* The batch appendPreparedEventsLocked encodes has one line per event, numbered
\* upwards from the derived first number.
LEMMA BatchNumbers ==
  ASSUME ControlTypeOK, NEW w \in Writers
  PROVE  /\ BatchFrom(Batch(w), base[w])
         /\ base[w] \in Nat /\ op[w].n \in Nat \ {0}
         /\ RangeOf(Batch(w)) \subseteq Line
<1>1. base[w] \in Nat /\ op[w] \in Operation
  BY DEF ControlTypeOK
<1>2. op[w].n \in Nat \ {0}
  BY <1>1, BoundAssumption DEF Operation
<1>3. EventType(op[w].kind) \in EventTypes
  BY DEF EventType, EventTypes
<1> DEFINE e(i) == [seq |-> base[w] + i - 1, type |-> EventType(op[w].kind)]
<1>4. \A i \in 1..op[w].n : e(i) \in Event
  <2> TAKE i \in 1..op[w].n
  <2>1. base[w] + i - 1 \in Nat
    BY <1>1, <1>2
  <2> QED BY <1>3, <2>1 DEF Event
<1>5. Batch(w) = [i \in 1..op[w].n |-> e(i)]
  BY DEF Batch
<1>6. Batch(w) \in Seq(Event)
  <2> HIDE DEF e
  <2> QED BY <1>2, <1>4, <1>5, IsASeq
<1>7. Len(Batch(w)) = op[w].n
  <2>1. DOMAIN Batch(w) = 1..op[w].n /\ DOMAIN Batch(w) = 1..Len(Batch(w))
    BY <1>5, <1>6, LenProperties
  <2>2. Len(Batch(w)) \in Nat
    BY <1>6, LenProperties
  <2> QED BY <1>2, <2>1, <2>2
<1>8. Batch(w) # <<>>
  BY <1>2, <1>7, EmptySeq
<1>9. \A i \in 1..Len(Batch(w)) : Batch(w)[i].seq = base[w] + i - 1
  <2> TAKE i \in 1..Len(Batch(w))
  <2>1. Batch(w)[i] = e(i)
    BY <1>5, <1>7
  <2> QED BY <2>1
<1>10. RangeOf(Batch(w)) \subseteq Line
  BY <1>4, <1>5, EventFits DEF RangeOf
<1> QED BY <1>1, <1>2, <1>6, <1>8, <1>9, <1>10 DEF BatchFrom

-----------------------------------------------------------------------------
(* Type correctness.                                                       *)

\* A return leaves the control variables in their types.
LEMMA ReturnType ==
  ASSUME ControlTypeOK, NEW w \in Writers, Return(w)
  PROVE  ControlTypeOK'
<1>1. "idle" \in Stages /\ NoOp \in Operation /\ NewSession \in Metadata
  BY BoundAssumption DEF Stages, NoOp, Operation, NewSession, Metadata
<1> QED BY <1>1 DEF ControlTypeOK, Return

\* A step on to the next stage leaves the control variables in their types.
LEMMA GotoType ==
  ASSUME ControlTypeOK, NEW w \in Writers, NEW stage \in Stages, Goto(w, stage),
         UNCHANGED localVars
  PROVE  ControlTypeOK'
BY DEF ControlTypeOK, Goto, localVars

\* A session begins with every variable in its type.
LEMMA InitType == Init => TypeOK
<1> SUFFICES ASSUME Init PROVE TypeOK
  OBVIOUS
<1>1. EmptyFile \in File /\ NewSession \in Metadata
  BY EmptySeq DEF EmptyFile, File, NoTail, Ending, NewSession, Metadata
<1>2. NoOp \in Operation /\ "idle" \in Stages
  BY BoundAssumption DEF NoOp, Operation, Stages
<1>3. LogTypeOK /\ MetaTypeOK
  BY <1>1 DEF Init, LogTypeOK, MetaTypeOK
<1>4. ControlTypeOK
  BY <1>1, <1>2 DEF Init, ControlTypeOK
<1>5. BoundTypeOK
  BY BoundAssumption DEF Init, BoundTypeOK
<1>6. HistoryTypeOK
  BY DEF Init, HistoryTypeOK
<1> QED BY <1>3, <1>4, <1>5, <1>6 DEF TypeOK

\* The batch of a writer that writes, stored in full or in part, leaves files.
LEMMA WriteType ==
  ASSUME TypeOK, NEW w \in Writers
  PROVE  CutAppends(log, Batch(w)) \subseteq File /\ Appended(log, Batch(w)) \in File
<1>1. log \in File /\ Batch(w) \in Seq(Event) /\ Batch(w) # <<>>
  BY BatchNumbers DEF TypeOK, LogTypeOK, BatchFrom
<1> QED BY <1>1, CutType

\* No step, a fault included, takes a variable out of its type.
LEMMA StepType == TypeOK /\ [Next]_vars => TypeOK'
<1> SUFFICES ASSUME TypeOK, [Next]_vars PROVE TypeOK'
  OBVIOUS
<1> USE DEF TypeOK
<1>1. ASSUME NEW w \in Writers, Begin(w) PROVE TypeOK'
  <2>1. PICK o \in Arguments : op' = [op EXCEPT ![w] = o]
    BY <1>1 DEF Begin
  <2>2. \A i \in DOMAIN log.lines : log.lines[i].seq \in Nat
    BY FileFields DEF LogTypeOK
  <2>3. o \in Operation
    <3> DEFINE targets == {0} \cup {log.lines[i].seq : i \in DOMAIN log.lines}
    <3>1. targets \subseteq Nat
      BY <2>2
    <3>2. o \in [kind : Kinds, n : 1..MaxBatch, title : Titles \cup {NoTitle}, target : targets]
      BY DEF Arguments
    <3> HIDE DEF targets
    <3> QED BY <3>1, <3>2, KindAssumption DEF Operation
  <2>4. "want" \in Stages
    BY DEF Stages
  <2>5. ControlTypeOK'
    BY <1>1, <2>1, <2>3, <2>4 DEF Begin, ControlTypeOK
  <2>6. BoundTypeOK'
    BY <1>1, BoundAssumption DEF Begin, BoundTypeOK
  <2>7. (LogTypeOK /\ MetaTypeOK /\ HistoryTypeOK)'
    BY <1>1 DEF Begin, LogTypeOK, MetaTypeOK, HistoryTypeOK, logVars, metaVars, history
  <2> QED BY <2>5, <2>6, <2>7
<1>2. ASSUME NEW w \in Writers, LockSession(w) PROVE TypeOK'
  <2>1. op[w].kind \in {"append", "once", "retitle", "rewind"}
    BY DEF ControlTypeOK, Operation
  <2>2. FirstStage(op[w].kind) \in Stages
    BY <2>1 DEF FirstStage, Stages
  <2>3. ControlTypeOK'
    BY <1>2, <2>2 DEF LockSession, ControlTypeOK, localVars
  <2> QED BY <1>2, <2>3 DEF LockSession, LogTypeOK, MetaTypeOK, HistoryTypeOK, BoundTypeOK,
                            logVars, metaVars, history, bounds
<1>3. ASSUME NEW w \in Writers, CheckExists(w) PROVE TypeOK'
  <2>1. "derive" \in Stages
    BY DEF Stages
  <2>2. ControlTypeOK'
    BY <1>3, <2>1, ReturnType, GotoType DEF CheckExists
  <2> QED BY <1>3, <2>2 DEF CheckExists, LogTypeOK, MetaTypeOK, HistoryTypeOK, BoundTypeOK,
                            logVars, metaVars, history, bounds
<1>4. ASSUME NEW w \in Writers, Derive(w) PROVE TypeOK'
  <2>1. "write" \in Stages /\ meta \in Metadata /\ meta.count \in Nat
    BY DEF Stages, MetaTypeOK, Metadata
  <2>2. NextSequence(log, meta.count) \in Nat
    BY <2>1, NextAbove DEF LogTypeOK
  <2>3. ControlTypeOK'
    BY <1>4, <2>1, <2>2 DEF Derive, Goto, ControlTypeOK
  <2> QED BY <1>4, <2>3 DEF Derive, LogTypeOK, MetaTypeOK, HistoryTypeOK, BoundTypeOK,
                            logVars, metaVars, history, bounds
<1>5. ASSUME NEW w \in Writers, WriteBatch(w) PROVE TypeOK'
  <2>1. "sync" \in Stages
    BY DEF Stages
  <2>2. ControlTypeOK'
    BY <1>5, <2>1, GotoType DEF WriteBatch
  <2>3. LogTypeOK'
    BY <1>5, WriteType DEF WriteBatch, LogTypeOK
  <2> QED BY <1>5, <2>2, <2>3 DEF WriteBatch, MetaTypeOK, HistoryTypeOK, BoundTypeOK,
                                  metaVars, history, bounds
<1>6. ASSUME NEW w \in Writers, Sync(w) PROVE TypeOK'
  <2>1. "rename" \in Stages
    BY DEF Stages
  <2>2. ControlTypeOK'
    BY <1>6, <2>1, GotoType DEF Sync
  <2>3. LogTypeOK'
    BY <1>6 DEF Sync, LogTypeOK
  <2> QED BY <1>6, <2>2, <2>3 DEF Sync, MetaTypeOK, HistoryTypeOK, BoundTypeOK,
                                  metaVars, history, bounds
<1>7. ASSUME NEW w \in Writers, Rename(w) PROVE TypeOK'
  <2>1. "dirsync" \in Stages
    BY DEF Stages
  <2>2. ControlTypeOK'
    BY <1>7, <2>1, GotoType DEF Rename
  <2>3. /\ held[w] \in Metadata /\ base[w] + op[w].n - 1 \in Nat
        /\ op[w].title \in Titles \cup {NoTitle}
    <3>1. base[w] \in Nat /\ op[w].n \in Nat \ {0}
      BY BatchNumbers
    <3> QED BY <3>1 DEF ControlTypeOK, Operation
  <2>4. NewMetadata(w) \in Metadata
    BY <2>3 DEF NewMetadata, Metadata
  <2>5. MetaTypeOK'
    BY <1>7, <2>4 DEF Rename, MetaTypeOK
  <2>6. HistoryTypeOK'
    BY <1>7, <2>3 DEF Rename, HistoryTypeOK
  <2> QED BY <1>7, <2>2, <2>5, <2>6 DEF Rename, LogTypeOK, BoundTypeOK, logVars, bounds
<1>8. ASSUME NEW w \in Writers, DirSync(w) PROVE TypeOK'
  <2>1. ControlTypeOK'
    BY <1>8, ReturnType DEF DirSync
  <2>2. op[w].title \in Titles \cup {NoTitle}
    BY DEF ControlTypeOK, Operation
  <2>3. HistoryTypeOK'
    BY <1>8, <2>2, BatchNumbers DEF DirSync, SyncDir, HistoryTypeOK
  <2> QED BY <1>8, <2>1, <2>3 DEF DirSync, SyncDir, LogTypeOK, MetaTypeOK, BoundTypeOK, bounds
<1>9. ASSUME NEW w \in Writers, Retitle(w) PROVE TypeOK'
  <2>1. "rename" \in Stages /\ meta \in Metadata
    BY DEF Stages, MetaTypeOK
  <2>2. CASE meta.title = op[w].title
    <3>1. \A m \in {meta} \cup metaPast : m.title \in Titles \cup {NoTitle}
      BY DEF MetaTypeOK, Metadata
    <3>2. HistoryTypeOK'
      BY <1>9, <2>2, <3>1 DEF Retitle, HistoryTypeOK
    <3> QED BY <1>9, <2>2, <3>2, ReturnType DEF Retitle, LogTypeOK, MetaTypeOK, BoundTypeOK,
                                                logVars, metaVars, bounds
  <2>3. CASE meta.title # op[w].title
    <3>1. ControlTypeOK'
      BY <1>9, <2>1, <2>3 DEF Retitle, Goto, ControlTypeOK
    <3> QED BY <1>9, <2>3, <3>1 DEF Retitle, LogTypeOK, MetaTypeOK, HistoryTypeOK, BoundTypeOK,
                                    logVars, metaVars, bounds
  <2> QED BY <2>2, <2>3
<1>10. ASSUME NEW w \in Writers, Truncate(w) PROVE TypeOK'
  <2>1. "logdirsync" \in Stages
    BY DEF Stages
  <2>2. ControlTypeOK'
    BY <1>10, <2>1, ReturnType, GotoType DEF Truncate
  <2>3. LogTypeOK'
    BY <1>10, TruncatedSound DEF Truncate, LogTypeOK, logVars
  <2>4. HistoryTypeOK'
    BY <1>10 DEF Truncate, HistoryTypeOK
  <2> QED BY <1>10, <2>2, <2>3, <2>4 DEF Truncate, MetaTypeOK, BoundTypeOK, metaVars, bounds
<1>11. ASSUME NEW w \in Writers, LogDirSync(w) PROVE TypeOK'
  <2>1. "truncmeta" \in Stages
    BY DEF Stages
  <2>2. ControlTypeOK'
    BY <1>11, <2>1, GotoType DEF LogDirSync
  <2> QED BY <1>11, <2>2 DEF LogDirSync, SyncDir, LogTypeOK, MetaTypeOK, HistoryTypeOK,
                             BoundTypeOK, history, bounds
<1>12. ASSUME NEW w \in Writers, TruncateMetadata(w) PROVE TypeOK'
  <2>1. "truncdirsync" \in Stages /\ Len(log.lines) \in Nat
    BY FileFields DEF Stages, LogTypeOK
  <2>2. ControlTypeOK'
    BY <1>12, <2>1, GotoType DEF TruncateMetadata
  <2>3. MetaTypeOK'
    BY <1>12, <2>1 DEF TruncateMetadata, MetaTypeOK, Metadata
  <2> QED BY <1>12, <2>2, <2>3 DEF TruncateMetadata, LogTypeOK, HistoryTypeOK, BoundTypeOK,
                                   logVars, history, bounds
<1>13. ASSUME NEW w \in Writers, TruncateDirSync(w) PROVE TypeOK'
  <2>1. "derive" \in Stages
    BY DEF Stages
  <2>2. ControlTypeOK'
    BY <1>13, <2>1, GotoType DEF TruncateDirSync
  <2> QED BY <1>13, <2>2 DEF TruncateDirSync, SyncDir, LogTypeOK, MetaTypeOK, HistoryTypeOK,
                             BoundTypeOK, history, bounds
<1>14. ASSUME NEW w \in Writers, ShortWrite(w) PROVE TypeOK'
  <2>1. ControlTypeOK'
    BY <1>14, ReturnType DEF ShortWrite
  <2>2. LogTypeOK'
    BY <1>14, WriteType DEF ShortWrite, LogTypeOK
  <2>3. BoundTypeOK'
    BY <1>14, BoundAssumption DEF ShortWrite, BoundTypeOK
  <2>4. MetaTypeOK'
    BY <1>14 DEF ShortWrite, MetaTypeOK, metaVars
  <2>5. torn' \in BOOLEAN
    BY <1>14, Zenon DEF ShortWrite
  <2>6. HistoryTypeOK'
    BY <1>14, <2>5 DEF ShortWrite, HistoryTypeOK
  <2> QED BY <2>1, <2>2, <2>3, <2>4, <2>6
<1>15. ASSUME NEW w \in Writers, Abort(w) PROVE TypeOK'
  <2>1. ControlTypeOK'
    BY <1>15, ReturnType DEF Abort
  <2>2. BoundTypeOK'
    BY <1>15, BoundAssumption DEF Abort, BoundTypeOK
  <2> QED BY <1>15, <2>1, <2>2 DEF Abort, LogTypeOK, MetaTypeOK, HistoryTypeOK,
                                   logVars, metaVars, history
<1>16. ASSUME PowerLoss PROVE TypeOK'
  <2>1. "idle" \in Stages /\ NoOp \in Operation /\ NewSession \in Metadata
    BY BoundAssumption DEF Stages, NoOp, Operation, NewSession, Metadata
  <2>2. ControlTypeOK'
    BY <1>16, <2>1 DEF PowerLoss, ControlTypeOK
  <2>3. LogTypeOK' /\ MetaTypeOK'
    BY <1>16 DEF PowerLoss, LogTypeOK, MetaTypeOK
  <2>4. BoundTypeOK'
    BY <1>16, BoundAssumption DEF PowerLoss, BoundTypeOK
  <2>5. torn' \in BOOLEAN
    BY <1>16, Zenon DEF PowerLoss
  <2>6. HistoryTypeOK'
    BY <1>16, <2>5 DEF PowerLoss, HistoryTypeOK
  <2> QED BY <2>2, <2>3, <2>4, <2>6
<1>17. ASSUME UNCHANGED vars PROVE TypeOK'
  BY <1>17 DEF vars, logVars, metaVars, localVars, history, bounds,
               LogTypeOK, MetaTypeOK, ControlTypeOK, HistoryTypeOK, BoundTypeOK
<1> QED
  BY <1>1, <1>2, <1>3, <1>4, <1>5, <1>6, <1>7, <1>8, <1>9, <1>10, <1>11, <1>12, <1>13, <1>14,
     <1>15, <1>16, <1>17 DEF Next, Proceed, AppendSteps, RewindSteps, Finished

\* The variables keep their types under every interleaving and every fault.
THEOREM TypeCorrect == Spec => []TypeOK
<1>1. Init => TypeOK
  BY InitType
<1>2. TypeOK /\ [Next]_vars => TypeOK'
  BY StepType
<1> QED BY <1>1, <1>2, PTL DEF Spec

-----------------------------------------------------------------------------
(* No sequence number is reused.                                           *)

\* Whoever is past the lock's acquisition is its holder.
HolderInv == \A w \in Writers : (pc[w] \notin {"idle", "want"}) <=> (lock = w)

\* Every content the log has, or a power loss could give it, is sound.
SoundInv == \A f \in {log} \cup survivors \cup displaced : Sound(f)

\* The batch about to be written is numbered above the log: it was derived under
\* the lock, and only the lock's holder changes the log.
BaseInv == \A w \in Writers : At(w, "write") => Above(log, base[w])

IInv == TypeOK /\ HolderInv /\ SoundInv /\ BaseInv

\* SequencesIncrease speaks of readable logs alone, and a power loss can leave a
\* readable prefix of an unreadable log; SoundInv covers that prefix.
LEMMA IncreaseFromInv == IInv => SequencesIncrease
BY ReadEventsIncrease DEF IInv, TypeOK, LogTypeOK, SoundInv, SequencesIncrease

\* The inductive invariant holds of a new session.
LEMMA InitInv == Init => IInv
<1> SUFFICES ASSUME Init PROVE IInv
  OBVIOUS
<1>1. Len(EmptyFile.lines) = 0 /\ ~Whole(EmptyFile.tail)
  BY EmptySeq DEF EmptyFile, NoTail, Whole, EventTypes
<1>2. Sound(EmptyFile)
  BY <1>1 DEF Sound
<1>3. SoundInv
  BY <1>2 DEF Init, SoundInv
<1>4. HolderInv /\ BaseInv
  BY WriterAssumption DEF Init, HolderInv, BaseInv, At
<1> QED BY <1>3, <1>4, InitType DEF IInv

\* A return gives the lock up and leaves nobody about to write who was not.
LEMMA ReturnHolder ==
  ASSUME TypeOK, HolderInv, NEW w \in Writers, lock = w, Return(w)
  PROVE  HolderInv' /\ \A v \in Writers : pc'[v] = "write" => v # w /\ pc[v] = "write"
BY WriterAssumption DEF TypeOK, ControlTypeOK, HolderInv, Return

\* A step on keeps the writing process the holder of the lock.
LEMMA GotoHolder ==
  ASSUME TypeOK, HolderInv, NEW w \in Writers, lock = w, NEW stage \in Stages,
         stage \notin {"idle", "want"}, Goto(w, stage)
  PROVE  HolderInv' /\ \A v \in Writers : v # w => pc'[v] # "write"
BY DEF TypeOK, ControlTypeOK, HolderInv, Goto

\* Every step, a fault included, keeps the inductive invariant.
LEMMA StepInv == IInv /\ [Next]_vars => IInv'
<1> SUFFICES ASSUME IInv, [Next]_vars PROVE IInv'
  OBVIOUS
<1>t. TypeOK /\ TypeOK' /\ HolderInv /\ SoundInv /\ BaseInv /\ ControlTypeOK /\ LogTypeOK
  BY StepType DEF IInv, TypeOK
\* A writer at a stage past the lock holds it.
<1>h. \A w \in Writers : pc[w] \notin {"idle", "want"} => lock = w
  BY <1>t DEF HolderInv
<1>a. ASSUME NEW w \in Writers, Begin(w) PROVE IInv'
  <2>1. HolderInv' /\ BaseInv'
    BY <1>a, <1>t DEF Begin, HolderInv, BaseInv, At, ControlTypeOK, logVars
  <2> QED BY <1>a, <1>t, <2>1 DEF IInv, Begin, SoundInv, logVars
<1>b. ASSUME NEW w \in Writers, LockSession(w) PROVE IInv'
  <2>1. FirstStage(op[w].kind) \notin {"idle", "want", "write"}
    BY <1>t DEF FirstStage, ControlTypeOK, Operation
  <2>2. HolderInv' /\ BaseInv'
    BY <1>b, <1>t, <2>1, WriterAssumption
    DEF LockSession, HolderInv, BaseInv, At, ControlTypeOK, logVars, localVars
  <2> QED BY <1>b, <1>t, <2>2 DEF IInv, LockSession, SoundInv, logVars
<1>c. ASSUME NEW w \in Writers, lock = w, UNCHANGED <<log, survivors, displaced>>,
             Return(w) \/ (\E stage \in Stages \ {"idle", "want", "write"} : Goto(w, stage))
      PROVE  IInv'
  <2>1. SoundInv'
    BY <1>c, <1>t DEF SoundInv
  <2>2. CASE Return(w)
    <3>1. HolderInv' /\ \A v \in Writers : pc'[v] = "write" => v # w /\ pc[v] = "write"
      BY <1>c, <1>t, <2>2, ReturnHolder
    <3>2. BaseInv'
      BY <1>c, <1>t, <2>2, <3>1 DEF BaseInv, At, Return, ControlTypeOK
    <3> QED BY <1>t, <2>1, <3>1, <3>2 DEF IInv
  <2>3. CASE \E stage \in Stages \ {"idle", "want", "write"} : Goto(w, stage)
    <3>1. PICK stage \in Stages \ {"idle", "want", "write"} : Goto(w, stage)
      BY <2>3
    <3>2. HolderInv' /\ \A v \in Writers : v # w => pc'[v] # "write"
      BY <1>c, <1>t, <3>1, GotoHolder
    <3>3. pc'[w] # "write"
      BY <1>t, <3>1 DEF Goto, ControlTypeOK
    <3>4. BaseInv'
      BY <3>2, <3>3 DEF BaseInv, At
    <3> QED BY <1>t, <2>1, <3>2, <3>4 DEF IInv
  <2> QED BY <1>c, <2>2, <2>3
<1>d. ASSUME NEW w \in Writers, CheckExists(w) PROVE IInv'
  BY <1>c, <1>d, <1>h DEF CheckExists, At, Stages, logVars
<1>e. ASSUME NEW w \in Writers, Derive(w) PROVE IInv'
  <2>1. lock = w /\ "write" \in Stages
    BY <1>e, <1>h DEF Derive, At, Stages
  <2>2. HolderInv' /\ \A v \in Writers : v # w => pc'[v] # "write"
    BY <1>e, <1>t, <2>1, GotoHolder DEF Derive
  <2>3. Above(log, NextSequence(log, meta.count))
    BY <1>t, NextAbove DEF TypeOK, LogTypeOK, MetaTypeOK, Metadata, SoundInv
  <2>4. log' = log /\ base'[w] = NextSequence(log, meta.count)
    BY <1>e, <1>t DEF Derive, logVars, ControlTypeOK
  <2>5. Above(log', base'[w])
    BY <2>3, <2>4
  <2>6. BaseInv'
    BY <2>2, <2>5 DEF BaseInv, At
  <2> QED BY <1>e, <1>t, <2>2, <2>6 DEF IInv, Derive, SoundInv, logVars
<1>f. ASSUME NEW w \in Writers, At(w, "write"),
             log' \in CutAppends(log, Batch(w)),
             survivors' = survivors \cup CutAppends(log, Batch(w)), displaced' = displaced,
             Return(w) \/ Goto(w, "sync")
      PROVE  IInv'
  <2>1. lock = w /\ "sync" \in Stages
    BY <1>f, <1>h DEF At, Stages
  <2>2. \A g \in CutAppends(log, Batch(w)) : Sound(g)
    BY <1>f, <1>t, BatchNumbers, CutSound DEF BaseInv, SoundInv, LogTypeOK
  <2>3. SoundInv'
    BY <1>f, <1>t, <2>2 DEF SoundInv
  <2>4. HolderInv' /\ \A v \in Writers : pc'[v] # "write"
    <3>1. CASE Return(w)
      BY <1>h, <1>t, <2>1, <3>1, ReturnHolder
    <3>2. CASE Goto(w, "sync")
      BY <1>t, <2>1, <3>2, GotoHolder DEF Goto, ControlTypeOK
    <3> QED BY <1>f, <3>1, <3>2
  <2>5. BaseInv'
    BY <2>4 DEF BaseInv, At
  <2> QED BY <1>t, <2>3, <2>4, <2>5 DEF IInv
<1>g. ASSUME NEW w \in Writers, WriteBatch(w) PROVE IInv'
  <2>1. Batch(w) \in Seq(Event) /\ Batch(w) # <<>>
    BY <1>t, BatchNumbers DEF BatchFrom
  <2>2. Appended(log, Batch(w)) \in CutAppends(log, Batch(w))
    BY <1>t, <2>1, CutType DEF LogTypeOK
  <2> QED BY <1>f, <1>g, <2>2 DEF WriteBatch
<1>i. ASSUME NEW w \in Writers, ShortWrite(w) PROVE IInv'
  BY <1>f, <1>i DEF ShortWrite
<1>j. ASSUME NEW w \in Writers, Sync(w) PROVE IInv'
  <2>1. lock = w /\ "rename" \in Stages
    BY <1>j, <1>h DEF Sync, At, Stages
  <2>2. HolderInv' /\ \A v \in Writers : v # w => pc'[v] # "write"
    BY <1>j, <1>t, <2>1, GotoHolder DEF Sync
  <2>3. pc'[w] # "write"
    BY <1>j, <1>t DEF Sync, Goto, ControlTypeOK
  <2>4. SoundInv'
    BY <1>j, <1>t DEF Sync, SoundInv
  <2> QED BY <1>t, <2>2, <2>3, <2>4 DEF IInv, BaseInv, At
<1>k. ASSUME NEW w \in Writers, Rename(w) PROVE IInv'
  BY <1>c, <1>k, <1>h DEF Rename, At, Stages, logVars
<1>l. ASSUME NEW w \in Writers, Retitle(w) PROVE IInv'
  BY <1>c, <1>l, <1>h DEF Retitle, At, Stages, logVars
<1>m. ASSUME NEW w \in Writers, TruncateMetadata(w) PROVE IInv'
  BY <1>c, <1>m, <1>h DEF TruncateMetadata, At, Stages, logVars
<1>n. ASSUME NEW w \in Writers, Abort(w) PROVE IInv'
  BY <1>c, <1>n DEF Abort, logVars
<1>o. ASSUME NEW w \in Writers, lock = w, SyncDir, UNCHANGED <<log, survivors>>,
             Return(w) \/ (\E stage \in Stages \ {"idle", "want", "write"} : Goto(w, stage))
      PROVE  IInv'
  <2>1. SoundInv'
    BY <1>o, <1>t DEF SoundInv, SyncDir
  <2>2. HolderInv' /\ \A v \in Writers : pc'[v] # "write"
    <3>1. CASE Return(w)
      BY <1>h, <1>o, <1>t, <3>1, ReturnHolder
    <3>2. ASSUME NEW stage \in Stages \ {"idle", "want", "write"}, Goto(w, stage)
          PROVE  HolderInv' /\ \A v \in Writers : pc'[v] # "write"
      BY <1>o, <1>t, <3>2, GotoHolder DEF Goto, ControlTypeOK
    <3> QED BY <1>o, <3>1, <3>2
  <2> QED BY <1>t, <2>1, <2>2 DEF IInv, BaseInv, At
<1>p. ASSUME NEW w \in Writers, DirSync(w) PROVE IInv'
  BY <1>h, <1>o, <1>p DEF DirSync, At
<1>q. ASSUME NEW w \in Writers, LogDirSync(w) PROVE IInv'
  BY <1>h, <1>o, <1>q DEF LogDirSync, At, Stages
<1>r. ASSUME NEW w \in Writers, TruncateDirSync(w) PROVE IInv'
  BY <1>h, <1>o, <1>r DEF TruncateDirSync, At, Stages
<1>s. ASSUME NEW w \in Writers, Truncate(w) PROVE IInv'
  <2>1. lock = w /\ "logdirsync" \in Stages
    BY <1>s, <1>h DEF Truncate, At, Stages
  <2>2. CASE ~Readable(log)
    BY <1>c, <1>s, <2>1, <2>2 DEF Truncate, logVars
  <2>3. CASE Readable(log)
    <3>1. Sound(log')
      BY <1>s, <1>t, <2>3, TruncatedSound DEF Truncate, SoundInv, LogTypeOK
    <3>2. SoundInv'
      BY <1>s, <1>t, <2>3, <3>1 DEF Truncate, SoundInv
    <3>3. HolderInv' /\ \A v \in Writers : v # w => pc'[v] # "write"
      BY <1>s, <1>t, <2>1, <2>3, GotoHolder DEF Truncate
    <3>4. pc'[w] # "write"
      BY <1>s, <1>t, <2>3 DEF Truncate, Goto, ControlTypeOK
    <3> QED BY <1>t, <3>2, <3>3, <3>4 DEF IInv, BaseInv, At
  <2> QED BY <2>2, <2>3
<1>u. ASSUME PowerLoss PROVE IInv'
  <2>1. SoundInv'
    BY <1>t, <1>u DEF PowerLoss, SoundInv
  <2>2. HolderInv' /\ BaseInv'
    BY <1>u, WriterAssumption DEF PowerLoss, HolderInv, BaseInv, At
  <2> QED BY <1>t, <2>1, <2>2 DEF IInv
<1>v. ASSUME UNCHANGED vars PROVE IInv'
  BY <1>t, <1>v DEF IInv, vars, logVars, localVars, HolderInv, SoundInv, BaseInv, At
<1> QED
  BY <1>a, <1>b, <1>d, <1>e, <1>g, <1>i, <1>j, <1>k, <1>l, <1>m, <1>n, <1>p, <1>q, <1>r, <1>s,
     <1>u, <1>v DEF Next, Proceed, AppendSteps, RewindSteps, Finished

\* The inductive invariant holds always: types, a log and power-loss contents whose
\* readable prefix increases, and a batch numbered above the log it is written to
\* by the one process that has the lock.
THEOREM Invariance == Spec => []IInv
<1>1. Init => IInv
  BY InitInv
<1>2. IInv /\ [Next]_vars => IInv'
  BY StepInv
<1> QED BY <1>1, <1>2, PTL DEF Spec

\* However many writers race, whatever fails and wherever a write is cut, the
\* events ReadEvents returns have strictly increasing sequence numbers.
THEOREM SequencesNeverReused == Spec => []SequencesIncrease
BY Invariance, IncreaseFromInv, PTL

-----------------------------------------------------------------------------
(* What one step does to the files, and how a writer comes to its stage:   *)
(* the two ways the invariants below take a step apart.                    *)

\* What the log is, or may be after a power loss.
Contents == {log} \cup survivors \cup displaced

\* Part or all of a batch was written by the writer whose turn it is.
BatchWritten(w) ==
  /\ pc[w] = "write"
  /\ log' \in CutAppends(log, Batch(w))
  /\ Contents' \subseteq Contents \cup CutAppends(log, Batch(w))
  /\ torn' = (torn \/ log'.tail # NoTail)
  /\ acked' = acked

\* The log was rewritten without the events after the target.
LogTruncated(w) ==
  /\ Readable(log) /\ log' \in Truncated(log, op[w].target)
  /\ Contents' \subseteq Contents \cup {log'} /\ log'.tail = NoTail /\ torn' = torn
  /\ acked' = {l \in acked : l.seq <= op[w].target}

\* The log stays, and nothing new may come back; only the end of an operation
\* acknowledges its lines.
LogStays ==
  /\ log' = log /\ Contents' \subseteq Contents /\ torn' = torn
  /\ acked' = acked \/ \E w \in Writers : DirSync(w)

\* The power was lost: the log is one of the contents it could have.
LogReturns ==
  /\ log' \in Contents /\ Contents' = {log'}
  /\ torn' = (torn \/ log'.tail # NoTail)
  /\ acked' = acked

\* A step leaves the log, writes to it, rewrites it, or loses the power; what may
\* come back after a power loss changes with it.
LEMMA FileStep ==
  ASSUME IInv, [Next]_vars
  PROVE  LogStays \/ LogReturns \/ \E w \in Writers : BatchWritten(w) \/ LogTruncated(w)
<1>1. ASSUME UNCHANGED logVars, UNCHANGED torn, UNCHANGED acked PROVE LogStays
  BY <1>1 DEF LogStays, Contents, logVars
<1>2. ASSUME NEW w \in Writers, Begin(w) \/ LockSession(w) \/ CheckExists(w) \/ Derive(w)
                                \/ Rename(w) \/ Retitle(w) \/ TruncateMetadata(w) \/ Abort(w)
      PROVE  LogStays
  BY <1>1, <1>2 DEF Begin, LockSession, CheckExists, Derive, Rename, Retitle, TruncateMetadata,
                    Abort, history
<1>3. ASSUME NEW w \in Writers, Sync(w) \/ LogDirSync(w) \/ TruncateDirSync(w)
      PROVE  LogStays
  BY <1>3 DEF Sync, LogDirSync, TruncateDirSync, SyncDir, history, Contents, LogStays
<1>9. ASSUME NEW w \in Writers, DirSync(w) PROVE LogStays
  <2>1. log' = log /\ Contents' \subseteq Contents /\ torn' = torn
    BY <1>9 DEF DirSync, SyncDir, Contents
  <2> QED BY <1>9, <2>1 DEF LogStays
<1>4. ASSUME NEW w \in Writers, WriteBatch(w) PROVE BatchWritten(w)
  <2>1. Batch(w) \in Seq(Event) /\ Batch(w) # <<>> /\ log \in File
    BY BatchNumbers DEF IInv, TypeOK, LogTypeOK, BatchFrom
  <2>2. log' \in CutAppends(log, Batch(w))
    BY <1>4, <2>1, CutType DEF WriteBatch
  <2>3. log'.tail = NoTail /\ torn' = torn
    BY <1>4 DEF WriteBatch, Appended, history
  <2>4. torn' = (torn \/ log'.tail # NoTail)
    <3>1. torn \in BOOLEAN
      BY DEF IInv, TypeOK, HistoryTypeOK
    <3> QED BY <2>3, <3>1
  <2>5. Contents' \subseteq Contents \cup CutAppends(log, Batch(w))
    BY <1>4, <2>2 DEF WriteBatch, Contents
  <2> QED BY <1>4, <2>2, <2>4, <2>5 DEF BatchWritten, WriteBatch, At, history
<1>5. ASSUME NEW w \in Writers, ShortWrite(w) PROVE BatchWritten(w)
  <2>1. /\ log' \in CutAppends(log, Batch(w))
        /\ survivors' = survivors \cup CutAppends(log, Batch(w)) /\ displaced' = displaced
        /\ pc[w] = "write"
    BY <1>5 DEF ShortWrite, At
  <2>2. Contents' \subseteq Contents \cup CutAppends(log, Batch(w))
    BY <2>1 DEF Contents
  <2>3. torn' = (torn \/ log'.tail # NoTail)
    BY <1>5, Zenon DEF ShortWrite
  <2>4. acked' = acked
    BY <1>5 DEF ShortWrite
  <2> QED BY <2>1, <2>2, <2>3, <2>4 DEF BatchWritten
<1>6. ASSUME NEW w \in Writers, Truncate(w) PROVE LogStays \/ LogTruncated(w)
  <2>1. CASE ~Readable(log)
    BY <1>1, <1>6, <2>1 DEF Truncate
  <2>2. CASE Readable(log)
    <3>1. log'.tail = NoTail
      BY <1>6, <2>2 DEF Truncate, Truncated
    <3>2. Contents' \subseteq Contents \cup {log'}
      BY <1>6, <2>2 DEF Truncate, Contents
    <3> QED BY <1>6, <2>2, <3>1, <3>2 DEF Truncate, LogTruncated
  <2> QED BY <2>1, <2>2
<1>7. ASSUME PowerLoss
      PROVE  LogReturns
  <2>1. log' \in Contents /\ Contents' = {log'}
    BY <1>7 DEF PowerLoss, Contents
  <2>2. torn' = (torn \/ log'.tail # NoTail)
    BY <1>7, Zenon DEF PowerLoss
  <2>3. acked' = acked
    BY <1>7 DEF PowerLoss
  <2> QED BY <2>1, <2>2, <2>3 DEF LogReturns
<1>8. ASSUME UNCHANGED vars PROVE LogStays
  BY <1>1, <1>8 DEF vars, history
<1> QED
  BY <1>2, <1>3, <1>4, <1>5, <1>6, <1>7, <1>8, <1>9
  DEF Next, Proceed, AppendSteps, RewindSteps, Finished

\* Nothing that concerns a writer's operation changed.
Still(w) ==
  /\ pc'[w] = pc[w] /\ op'[w] = op[w] /\ held'[w] = held[w] /\ base'[w] = base[w]
  /\ UNCHANGED <<logVars, metaVars>>

\* A writer that is past the lock after a step got there by a step of its own, or
\* has the lock and nothing moved: the others wait.
LEMMA StepInto ==
  ASSUME IInv, [Next]_vars, NEW v \in Writers, pc'[v] \notin {"idle", "want"}
  PROVE  op'[v] = op[v] /\ (Still(v) \/ LockSession(v) \/ Proceed(v))
<1>t. ControlTypeOK /\ HolderInv
  BY DEF IInv, TypeOK
<1>h. \A w \in Writers : pc[w] \notin {"idle", "want"} => lock = w
  BY <1>t DEF HolderInv
<1>1. ASSUME NEW w \in Writers, Begin(w) PROVE Still(v)
  <2>1. w # v
    BY <1>1, <1>t DEF Begin, ControlTypeOK
  <2> QED BY <1>1, <2>1, <1>t DEF Begin, Still, ControlTypeOK
<1>2. ASSUME NEW w \in Writers, LockSession(w)
      PROVE  op'[v] = op[v] /\ (Still(v) \/ LockSession(v))
  <2>1. CASE w = v
    BY <1>2, <2>1 DEF LockSession, localVars
  <2>2. CASE w # v
    BY <1>2, <2>2, <1>t DEF LockSession, Still, localVars, ControlTypeOK
  <2> QED BY <2>1, <2>2
<1>3. ASSUME NEW w \in Writers, lock = w, Return(w) \/ (\E s \in Stages : Goto(w, s)), w # v
      PROVE  FALSE
  <2>1. pc'[v] = pc[v]
    BY <1>3, <1>t DEF Return, Goto, ControlTypeOK
  <2> QED BY <1>3, <1>h, <2>1
<1>4. ASSUME NEW w \in Writers, Return(w) PROVE w # v
  BY <1>4, <1>t DEF Return, ControlTypeOK
<1>5. ASSUME NEW w \in Writers, Proceed(w)
      PROVE  w = v /\ op'[v] = op[v]
  <2>1. lock = w
    BY <1>5, <1>h DEF Proceed, AppendSteps, RewindSteps, CheckExists, Derive, WriteBatch, Sync,
                      Rename, DirSync, Retitle, Truncate, LogDirSync, TruncateMetadata,
                      TruncateDirSync, At
  <2>2. Return(w) \/ (op' = op /\ \E s \in Stages : Goto(w, s))
    <3>1. CASE CheckExists(w) \/ Derive(w) \/ WriteBatch(w)
      BY <3>1 DEF CheckExists, Derive, WriteBatch, localVars, Stages
    <3>2. CASE Sync(w) \/ Rename(w) \/ DirSync(w)
      BY <3>2 DEF Sync, Rename, DirSync, localVars, Stages
    <3>3. CASE Retitle(w) \/ Truncate(w) \/ LogDirSync(w)
      BY <3>3 DEF Retitle, Truncate, LogDirSync, localVars, Stages
    <3>4. CASE TruncateMetadata(w) \/ TruncateDirSync(w)
      BY <3>4 DEF TruncateMetadata, TruncateDirSync, localVars, Stages
    <3> QED BY <1>5, <3>1, <3>2, <3>3, <3>4 DEF Proceed, AppendSteps, RewindSteps
  <2> QED BY <1>3, <1>4, <2>1, <2>2
<1>6. ASSUME NEW w \in Writers, ShortWrite(w) \/ Abort(w) PROVE FALSE
  <2>1. lock = w /\ Return(w)
    BY <1>6, <1>h DEF ShortWrite, Abort, At
  <2> QED BY <1>3, <1>4, <2>1
<1>7. ASSUME PowerLoss PROVE FALSE
  BY <1>7 DEF PowerLoss
<1>8. ASSUME UNCHANGED vars PROVE Still(v)
  BY <1>8 DEF vars, localVars, Still
<1> QED
  BY <1>1, <1>2, <1>5, <1>6, <1>7, <1>8 DEF Next, Finished, Still

\* A call that is not an append has one event, and a stage only its own kind has
\* is reached by that kind: the lock is taken into the kind's first stage.
Rewinding == {"truncate", "logdirsync", "truncmeta", "truncdirsync"}
KindAt(w) ==
  /\ pc[w] = "retitle" => op[w].kind = "retitle"
  /\ pc[w] \in Rewinding => op[w].kind = "rewind"
KindInv == \A w \in Writers : (op[w].kind # "append" => op[w].n = 1) /\ KindAt(w)

\* Every step keeps the kinds and their stages together.
LEMMA StepKind == IInv /\ KindInv /\ [Next]_vars => KindInv'
<1> SUFFICES ASSUME IInv, KindInv, [Next]_vars, NEW v \in Writers
             PROVE  (op'[v].kind # "append" => op'[v].n = 1) /\ KindAt(v)'
  BY DEF KindInv
<1>t. ControlTypeOK
  BY DEF IInv, TypeOK
<1>1. op'[v].kind # "append" => op'[v].n = 1
  <2>1. op[v].kind # "append" => op[v].n = 1
    BY DEF KindInv
  <2>2. op'[v] = op[v] \/ op'[v] = NoOp \/ op'[v] \in Arguments
    <3>1. ASSUME NEW w \in Writers, Begin(w) PROVE op'[v] = op[v] \/ op'[v] \in Arguments
      BY <1>t, <3>1 DEF Begin, ControlTypeOK
    <3>2. ASSUME NEW w \in Writers, Return(w) PROVE op'[v] = op[v] \/ op'[v] = NoOp
      BY <1>t, <3>2 DEF Return, ControlTypeOK
    <3>3. ASSUME NEW w \in Writers, Proceed(w) PROVE op' = op \/ Return(w)
      <4>1. CASE CheckExists(w) \/ Derive(w) \/ WriteBatch(w)
        BY <4>1 DEF CheckExists, Derive, WriteBatch, localVars
      <4>2. CASE Sync(w) \/ Rename(w) \/ DirSync(w)
        BY <4>2 DEF Sync, Rename, DirSync, localVars
      <4>3. CASE Retitle(w) \/ Truncate(w) \/ LogDirSync(w)
        BY <4>3 DEF Retitle, Truncate, LogDirSync, localVars
      <4>4. CASE TruncateMetadata(w) \/ TruncateDirSync(w)
        BY <4>4 DEF TruncateMetadata, TruncateDirSync, localVars
      <4> QED BY <3>3, <4>1, <4>2, <4>3, <4>4 DEF Proceed, AppendSteps, RewindSteps
    <3>4. ASSUME NEW w \in Writers, LockSession(w) \/ ShortWrite(w) \/ Abort(w)
          PROVE  op' = op \/ Return(w)
      BY <3>4 DEF LockSession, ShortWrite, Abort, localVars
    <3>5. PowerLoss => op'[v] = NoOp
      BY DEF PowerLoss
    <3>6. UNCHANGED vars => op' = op
      BY DEF vars, localVars
    <3> QED BY <3>1, <3>2, <3>3, <3>4, <3>5, <3>6 DEF Next, Finished
  <2>3. \A o \in Arguments : o.kind # "append" => o.n = 1
    BY DEF Arguments
  <2> QED BY <2>1, <2>2, <2>3 DEF NoOp
<1>2. KindAt(v)'
  <2>1. CASE pc'[v] \in {"idle", "want"}
    BY <2>1 DEF KindAt, Rewinding
  <2>2. CASE pc'[v] \notin {"idle", "want"}
    <3>0. op'[v] = op[v] /\ (Still(v) \/ LockSession(v) \/ Proceed(v)) /\ KindAt(v)
      BY <2>2, StepInto DEF KindInv
    <3>1. CASE Still(v)
      BY <3>0, <3>1 DEF Still, KindAt
    <3>2. CASE LockSession(v)
      <4>1. pc'[v] = FirstStage(op[v].kind)
        BY <1>t, <3>2 DEF LockSession, ControlTypeOK
      <4>2. op[v].kind \in {"append", "once", "retitle", "rewind"}
        BY <1>t DEF ControlTypeOK, Operation
      <4> QED BY <3>0, <4>1, <4>2 DEF FirstStage, KindAt, Rewinding
    <3>3. CASE AppendSteps(v) \/ Retitle(v)
      <4>1. pc'[v] \notin {"retitle"} \cup Rewinding
        BY <1>t, <3>3 DEF AppendSteps, CheckExists, Derive, WriteBatch, Sync, Rename, DirSync,
                          Retitle, Goto, Return, ControlTypeOK, Rewinding
      <4> QED BY <4>1 DEF KindAt
    <3>4. CASE RewindSteps(v)
      <4>1. pc[v] \in Rewinding
        BY <3>4 DEF RewindSteps, Truncate, LogDirSync, TruncateMetadata, TruncateDirSync, At,
                    Rewinding
      <4>2. pc'[v] # "retitle"
        BY <1>t, <3>4 DEF RewindSteps, Truncate, LogDirSync, TruncateMetadata, TruncateDirSync,
                          Goto, Return, ControlTypeOK
      <4> QED BY <3>0, <4>1, <4>2 DEF KindAt
    <3> QED BY <3>0, <3>1, <3>2, <3>3, <3>4 DEF Proceed
  <2> QED BY <2>1, <2>2
<1> QED BY <1>1, <1>2

-----------------------------------------------------------------------------
(* The title.                                                              *)

\* What a writer read under the lock has the title metadata.json still has; and a
\* retitle that waits for its rename to be durable has shown its title.
TitleAt(w) ==
  /\ pc[w] \in {"write", "sync", "rename"} => held[w].title = meta.title
  /\ pc[w] = "dirsync" /\ op[w].kind = "retitle" => meta.title = op[w].title
TitleInv == TitleKept /\ \A w \in Writers : TitleAt(w)

\* Every step keeps the title: a writer's copy is fresh while it holds the lock.
LEMMA StepTitle == IInv /\ TitleInv /\ [Next]_vars => TitleInv'
<1> SUFFICES ASSUME IInv, TitleInv, [Next]_vars PROVE TitleInv'
  OBVIOUS
<1>t. ControlTypeOK /\ MetaTypeOK
  BY DEF IInv, TypeOK
<1>1. TitleKept'
  <2>0. \A m \in {meta} \cup metaPast : m.title \in titled \cup unsynced
    BY DEF TitleInv, TitleKept
  <2>1. ASSUME {meta'} \cup metaPast' \subseteq {meta} \cup metaPast, titled \subseteq titled',
               unsynced' = unsynced
        PROVE  TitleKept'
    BY <2>0, <2>1 DEF TitleKept
  <2>2. ASSUME UNCHANGED metaVars, UNCHANGED <<titled, unsynced>> PROVE TitleKept'
    BY <2>1, <2>2 DEF metaVars
  <2>3. ASSUME NEW w \in Writers, Begin(w) \/ LockSession(w) \/ CheckExists(w) \/ Derive(w)
                                  \/ WriteBatch(w) \/ Sync(w) \/ Truncate(w)
                                  \/ ShortWrite(w) \/ Abort(w)
        PROVE  TitleKept'
    BY <2>2, <2>3 DEF Begin, LockSession, CheckExists, Derive, WriteBatch, Sync,
                      Truncate, ShortWrite, Abort, history
  <2>s. ASSUME SyncDir, meta' = meta, titled' = titled PROVE TitleKept'
    BY <2>0, <2>s DEF SyncDir, TitleKept
  <2>4. ASSUME NEW w \in Writers, LogDirSync(w) \/ TruncateDirSync(w) PROVE TitleKept'
    BY <2>s, <2>4 DEF LogDirSync, TruncateDirSync
  <2>r. ASSUME NEW w \in Writers, Retitle(w) PROVE TitleKept'
    <3>1. CASE meta.title = op[w].title
      <4>1. /\ UNCHANGED metaVars /\ titled' = {meta.title}
            /\ unsynced' = {m.title : m \in metaPast}
        BY <2>r, <3>1 DEF Retitle
      <4> QED BY <4>1 DEF TitleKept, metaVars
    <3>2. CASE meta.title # op[w].title
      BY <2>2, <2>r, <3>2 DEF Retitle
    <3> QED BY <3>1, <3>2
  <2>5. ASSUME NEW w \in Writers, Rename(w) PROVE TitleKept'
    <3>1. CASE op[w].kind = "retitle"
      <4>1. meta'.title = op[w].title
        BY <1>t, <2>5, <3>1 DEF Rename, NewMetadata, ControlTypeOK, Metadata
      <4>2. /\ metaPast' = metaPast \cup {meta}
            /\ titled' = titled \cup {op[w].title} /\ unsynced' = unsynced
        BY <2>5, <3>1 DEF Rename
      <4> QED BY <2>0, <4>1, <4>2 DEF TitleKept
    <3>2. CASE op[w].kind # "retitle"
      <4>1. meta'.title = held[w].title
        BY <1>t, <2>5, <3>2 DEF Rename, NewMetadata, ControlTypeOK, Metadata
      <4>2. held[w].title = meta.title
        BY <2>5 DEF Rename, At, TitleInv, TitleAt
      <4>3. metaPast' = metaPast \cup {meta} /\ titled' = titled /\ unsynced' = unsynced
        BY <2>5, <3>2 DEF Rename
      <4> QED BY <2>0, <4>1, <4>2, <4>3 DEF TitleKept
    <3> QED BY <3>1, <3>2
  <2>6. ASSUME NEW w \in Writers, DirSync(w) PROVE TitleKept'
    <3>1. CASE op[w].kind = "retitle"
      <4>1. meta.title = op[w].title
        BY <2>6, <3>1 DEF DirSync, At, TitleInv, TitleAt
      <4> QED BY <2>6, <3>1, <4>1 DEF DirSync, SyncDir, TitleKept
    <3>2. CASE op[w].kind # "retitle"
      BY <2>s, <2>6, <3>2 DEF DirSync
    <3> QED BY <3>1, <3>2
  <2>7. ASSUME NEW w \in Writers, TruncateMetadata(w) PROVE TitleKept'
    <3>1. meta'.title = meta.title
      BY <1>t, <2>7 DEF TruncateMetadata, MetaTypeOK, Metadata
    <3>2. metaPast' = metaPast \cup {meta} /\ titled' = titled /\ unsynced' = unsynced
      BY <2>7 DEF TruncateMetadata, history
    <3> QED BY <2>0, <3>1, <3>2 DEF TitleKept
  <2>8. ASSUME PowerLoss PROVE TitleKept'
    BY <2>1, <2>8 DEF PowerLoss
  <2>9. ASSUME UNCHANGED vars PROVE TitleKept'
    BY <2>2, <2>9 DEF vars, history
  <2> QED BY <2>3, <2>4, <2>r, <2>5, <2>6, <2>7, <2>8, <2>9
          DEF Next, Proceed, AppendSteps, RewindSteps, Finished
<1>2. ASSUME NEW v \in Writers PROVE TitleAt(v)'
  <2>1. CASE pc'[v] \in {"idle", "want"}
    BY <2>1 DEF TitleAt
  <2>2. CASE pc'[v] \notin {"idle", "want"}
    <3>0. op'[v] = op[v] /\ (Still(v) \/ LockSession(v) \/ Proceed(v)) /\ TitleAt(v)
      BY <2>2, StepInto DEF TitleInv
    <3>1. CASE Still(v)
      BY <3>0, <3>1 DEF Still, TitleAt, metaVars
    <3>2. CASE LockSession(v)
      <4>1. pc'[v] = FirstStage(op[v].kind)
        BY <1>t, <3>2 DEF LockSession, ControlTypeOK
      <4>2. op[v].kind \in {"append", "once", "retitle", "rewind"}
        BY <1>t DEF ControlTypeOK, Operation
      <4> QED BY <4>1, <4>2 DEF FirstStage, TitleAt
    <3>3. CASE CheckExists(v) \/ DirSync(v) \/ RewindSteps(v)
      <4>1. pc'[v] \notin {"write", "sync", "rename", "dirsync"}
        BY <1>t, <3>3 DEF CheckExists, DirSync, RewindSteps, Truncate, LogDirSync,
                          TruncateMetadata, TruncateDirSync, Goto, Return, ControlTypeOK
      <4> QED BY <4>1 DEF TitleAt
    <3>4. CASE Derive(v)
      <4>1. pc'[v] = "write" /\ held'[v] = meta /\ meta' = meta
        BY <1>t, <3>4 DEF Derive, Goto, ControlTypeOK, metaVars
      <4> QED BY <4>1 DEF TitleAt
    <3>5. CASE Retitle(v)
      <4>1. pc'[v] = "rename" /\ held'[v] = meta /\ meta' = meta
        BY <1>t, <2>2, <3>5 DEF Retitle, Goto, Return, ControlTypeOK, metaVars
      <4> QED BY <4>1 DEF TitleAt
    <3>6. CASE WriteBatch(v) \/ Sync(v)
      <4>1. pc'[v] \in {"sync", "rename"} /\ pc[v] \in {"write", "sync"} /\ held' = held /\ meta' = meta
        BY <1>t, <3>6 DEF WriteBatch, Sync, At, Goto, ControlTypeOK, metaVars, localVars
      <4> QED BY <3>0, <4>1 DEF TitleAt
    <3>7. CASE Rename(v)
      <4>1. pc'[v] = "dirsync"
        BY <1>t, <3>7 DEF Rename, Goto, ControlTypeOK
      <4>2. op[v].kind = "retitle" => meta'.title = op[v].title
        BY <1>t, <3>7 DEF Rename, NewMetadata, ControlTypeOK, Metadata
      <4> QED BY <3>0, <4>1, <4>2 DEF TitleAt
    <3> QED BY <3>0, <3>1, <3>2, <3>3, <3>4, <3>5, <3>6, <3>7 DEF Proceed, AppendSteps
  <2> QED BY <2>1, <2>2
<1> QED BY <1>1, <1>2 DEF TitleInv

\* Whoever else writes metadata.json and wherever a call fails or the power goes,
\* the document has, and would have after a power loss, the last title that was
\* acknowledged or one tried since, or else the one an unsynced rename replaced when
\* UpdateTitle acknowledged its title as unchanged: no operation writes back a title
\* it read before another's retitle.
THEOREM TitleStays == Spec => []TitleKept
<1>1. Init => TitleInv
  BY DEF Init, TitleInv, TitleKept, TitleAt, NewSession
<1>2. TitleInv => TitleKept
  BY DEF TitleInv
<1> QED BY <1>1, <1>2, Invariance, StepTitle, PTL DEF Spec

-----------------------------------------------------------------------------
(* What a write, cut anywhere, and a truncation leave of the events.       *)

\* A file that can be read after part of a batch was written keeps every line; it
\* follows them with lines of the batch, or with nothing but the tail it had.
LEMMA CutRead ==
  ASSUME NEW f \in File, NEW lines \in Seq(Event), lines # <<>>,
         NEW g \in CutAppends(f, lines), Readable(g)
  PROVE  /\ Readable(f) /\ g \in File
         /\ Len(f.lines) <= Len(g.lines)
         /\ \A i \in 1..Len(f.lines) : g.lines[i] = f.lines[i]
         /\ \A i \in DOMAIN ReadEvents(g) :
              i > Len(f.lines) =>
                \/ i \in DOMAIN ReadEvents(f) /\ ReadEvents(g)[i] = ReadEvents(f)[i]
                \/ /\ i - Len(f.lines) \in 1..Len(lines)
                   /\ ReadEvents(g)[i] = lines[i - Len(f.lines)]
<1>k. PICK k \in 0..Len(lines) : \E t \in CutTails(f, lines, k) :
        g = [lines |-> f.lines \o SubSeq(Glue(f.tail, lines), 1, k), tail |-> t]
  BY DEF CutAppends
<1>1. PICK t \in CutTails(f, lines, k) :
        g = [lines |-> f.lines \o SubSeq(Glue(f.tail, lines), 1, k), tail |-> t]
  BY <1>k
<1> DEFINE n == Len(f.lines)
<1>2. /\ g.tail = t /\ g.lines \in Seq(Line) /\ Len(g.lines) = n + k
      /\ \A i \in 1..n : g.lines[i] = f.lines[i]
      /\ \A i \in 1..k :
           g.lines[n + i] = IF i = 1 /\ f.tail # NoTail THEN Corrupt ELSE lines[i]
  BY <1>1, CutLines
<1>3. /\ n \in Nat /\ k \in Nat /\ Len(lines) \in Nat \ {0} /\ g \in File
      /\ DOMAIN f.lines = 1..n /\ DOMAIN g.lines = 1..(n + k)
  <2>1. Len(lines) \in Nat /\ Len(lines) # 0
    BY EmptySeq, LenProperties
  <2>2. g \in File
    BY CutType
  <2> QED BY <1>2, <2>1, <2>2, FileFields
<1>4. Readable(f)
  <2>1. \A i \in 1..n : i \in 1..(n + k)
    BY <1>3
  <2> QED BY <1>2, <1>3, <2>1 DEF Readable
<1>5. k > 0 => f.tail = NoTail
  <2>1. SUFFICES ASSUME k > 0, f.tail # NoTail PROVE FALSE
    OBVIOUS
  <2>2. 1 \in 1..k /\ n + 1 \in 1..(n + k)
    BY <1>3, <2>1
  <2>3. g.lines[n + 1].type = "corrupt"
    BY <1>2, <2>1, <2>2 DEF Corrupt
  <2> QED BY <1>3, <2>2, <2>3 DEF Readable
<1>6. \A i \in 1..k : g.lines[n + i] = lines[i]
  <2>1. \A i \in 1..k : k > 0
    BY <1>3
  <2> QED BY <1>2, <1>5, <2>1
<1>7. ASSUME NEW i \in DOMAIN ReadEvents(g), i > n
      PROVE  \/ i \in DOMAIN ReadEvents(f) /\ ReadEvents(g)[i] = ReadEvents(f)[i]
             \/ i - n \in 1..Len(lines) /\ ReadEvents(g)[i] = lines[i - n]
  <2>1. /\ ReadEvents(g) \in Seq(Line)
        /\ Len(ReadEvents(g)) = n + k + (IF Whole(t) THEN 1 ELSE 0)
        /\ \A m \in 1..(n + k) : ReadEvents(g)[m] = g.lines[m]
        /\ Whole(t) => ReadEvents(g)[n + k + 1] = t
    BY <1>2, <1>3, ReadEventsType
  <2>2. DOMAIN ReadEvents(g) = 1..Len(ReadEvents(g))
    BY <2>1, LenProperties
  <2> HIDE DEF n
  <2>3. CASE i <= n + k
    <3>1. i - n \in 1..k /\ n + (i - n) = i /\ i - n \in 1..Len(lines) /\ i \in 1..(n + k)
      BY <1>3, <1>7, <2>1, <2>2, <2>3
    <3>2. g.lines[n + (i - n)] = lines[i - n]
      BY <1>6, <3>1
    <3> QED BY <2>1, <3>1, <3>2
  <2>4. CASE ~(i <= n + k)
    <3>1. Whole(t) /\ i = n + k + 1
      BY <1>3, <2>1, <2>2, <2>4
    <3>2. t # NoTail /\ t # Partial
      BY <3>1 DEF Whole, NoTail, Partial, EventTypes
    <3>3. CASE k = 0
      <4>1. k # Len(lines)
        BY <1>3, <3>3
      <4>2. t = f.tail \/ t = lines[1]
        BY <3>2, <3>3, <4>1 DEF CutTails
      <4>3. CASE t = f.tail
        <5>1. /\ Len(ReadEvents(f)) = n + 1 /\ ReadEvents(f)[n + 1] = f.tail
              /\ ReadEvents(f) \in Seq(Line)
          BY <3>1, <4>3, ReadEventsType DEF n
        <5>2. DOMAIN ReadEvents(f) = 1..(n + 1) /\ i = n + 1 /\ i \in 1..(n + 1)
          BY <1>3, <3>1, <3>3, <5>1, LenProperties
        <5> QED BY <2>1, <3>1, <4>3, <5>1, <5>2
      <4>4. CASE t = lines[1]
        <5>1. i - n = 1 /\ i - n \in 1..Len(lines)
          BY <1>3, <3>1, <3>3
        <5> QED BY <2>1, <3>1, <4>4, <5>1
      <4> QED BY <4>2, <4>3, <4>4
    <3>4. CASE k # 0
      <4>1. k # Len(lines) /\ t = lines[k + 1]
        BY <3>2, <3>4 DEF CutTails
      <4>2. i - n = k + 1 /\ k + 1 \in 1..Len(lines)
        BY <1>3, <3>1, <4>1
      <4> QED BY <2>1, <3>1, <4>1, <4>2
    <3> QED BY <3>3, <3>4
  <2> QED BY <2>3, <2>4
<1> QED BY <1>2, <1>3, <1>4, <1>7

\* A truncation of a log that can be read keeps a prefix of its events, every event
\* up to the target with it, and each on a line of its own that decodes.
LEMMA TruncatedRead ==
  ASSUME NEW f \in File, Readable(f), NEW target, NEW g \in Truncated(f, target)
  PROVE  /\ g \in File /\ Readable(g) /\ g.tail = NoTail
         /\ ReadEvents(g) = g.lines /\ DOMAIN g.lines \subseteq DOMAIN ReadEvents(f)
         /\ \A i \in DOMAIN g.lines : g.lines[i] = ReadEvents(f)[i]
         /\ \A i \in DOMAIN ReadEvents(f) : ReadEvents(f)[i].seq <= target => i \in DOMAIN g.lines
<1>1. PICK k \in 0..Len(ReadEvents(f)) :
        /\ \A i \in 1..Len(ReadEvents(f)) : (i <= k) <=> (ReadEvents(f)[i].seq <= target)
        /\ g = [lines |-> SubSeq(ReadEvents(f), 1, k), tail |-> NoTail]
  BY DEF Truncated
<1>2. /\ ReadEvents(f) \in Seq(Line) /\ Len(ReadEvents(f)) \in Nat /\ k \in Nat
      /\ DOMAIN ReadEvents(f) = 1..Len(ReadEvents(f))
      /\ \A i \in 1..k : ReadEvents(f)[i] \in Line /\ i \in 1..Len(ReadEvents(f))
  <2>1. ReadEvents(f) \in Seq(Line)
    BY ReadEventsType
  <2>2. Len(ReadEvents(f)) \in Nat /\ DOMAIN ReadEvents(f) = 1..Len(ReadEvents(f))
    BY <2>1, LenProperties
  <2> QED BY <2>1, <2>2, ElementOfSeq
<1>3. /\ g.lines \in Seq(Line) /\ Len(g.lines) = k /\ DOMAIN g.lines = 1..k
      /\ \A i \in 1..k : g.lines[i] = ReadEvents(f)[i]
  <2> DEFINE s == SubSeq(ReadEvents(f), 1, k)
  <2>1. /\ s \in Seq(Line)
        /\ Len(s) = IF 1 <= k THEN k - 1 + 1 ELSE 0
        /\ \A i \in 1..(k - 1 + 1) : s[i] = ReadEvents(f)[1 + i - 1]
    BY <1>2, SubSeqProperties
  <2>2. g.lines = s
    BY <1>1
  <2>3. DOMAIN s = 1..Len(s)
    BY <2>1, LenProperties
  <2> QED BY <1>2, <2>1, <2>2, <2>3
<1>4. \A i \in 1..Len(ReadEvents(f)) : ReadEvents(f)[i].type # "corrupt"
  <2> DEFINE n == Len(f.lines)
  <2>1. n \in Nat /\ DOMAIN f.lines = 1..n
    BY FileFields
  <2>2. /\ Len(ReadEvents(f)) = n + (IF Whole(f.tail) THEN 1 ELSE 0)
        /\ \A i \in 1..n : ReadEvents(f)[i] = f.lines[i]
        /\ Whole(f.tail) => ReadEvents(f)[n + 1] = f.tail
    BY ReadEventsType
  <2>3. ASSUME NEW i \in 1..Len(ReadEvents(f))
        PROVE  i \in 1..n \/ (i = n + 1 /\ Whole(f.tail))
    <3> HIDE DEF n
    <3> QED BY <2>1, <2>2
  <2>4. Whole(f.tail) => f.tail.type # "corrupt"
    BY DEF Whole, EventTypes
  <2> QED BY <2>1, <2>2, <2>3, <2>4 DEF Readable
<1>5. g.tail = NoTail /\ ~Whole(NoTail) /\ ReadEvents(g) = g.lines
  BY <1>1 DEF ReadEvents, Whole, NoTail, EventTypes
<1>6. Readable(g)
  BY <1>2, <1>3, <1>4 DEF Readable
<1>7. \A i \in DOMAIN ReadEvents(f) : ReadEvents(f)[i].seq <= target => i \in 1..k
  BY <1>1, <1>2
<1>8. g \in File
  BY TruncatedSound
<1> QED BY <1>2, <1>3, <1>5, <1>6, <1>7, <1>8

-----------------------------------------------------------------------------
(* A log that no write was cut in can be read.                             *)

CleanInv == ~torn => log.tail = NoTail /\ \A f \in Contents : Readable(f)

\* What is stored of a batch behind a complete last line decodes.
LEMMA CutReadable ==
  ASSUME NEW f \in File, Readable(f), f.tail = NoTail, NEW lines \in Seq(Event),
         NEW g \in CutAppends(f, lines)
  PROVE  Readable(g)
<1>1. PICK k \in 0..Len(lines) : \E t \in CutTails(f, lines, k) :
        g = [lines |-> f.lines \o SubSeq(Glue(f.tail, lines), 1, k), tail |-> t]
  BY DEF CutAppends
<1> DEFINE n == Len(f.lines)
<1>2. /\ g.lines \in Seq(Line) /\ Len(g.lines) = n + k
      /\ \A i \in 1..n : g.lines[i] = f.lines[i]
      /\ \A i \in 1..k : g.lines[n + i] = lines[i]
  <2>1. /\ g.lines \in Seq(Line) /\ Len(g.lines) = n + k
        /\ \A i \in 1..n : g.lines[i] = f.lines[i]
        /\ \A i \in 1..k :
             g.lines[n + i] = IF i = 1 /\ f.tail # NoTail THEN Corrupt ELSE lines[i]
    <3>1. PICK t : g = [lines |-> f.lines \o SubSeq(Glue(f.tail, lines), 1, k), tail |-> t]
      BY <1>1
    <3> QED BY <3>1, CutLines
  <2> QED BY <2>1
<1>3. /\ n \in Nat /\ Len(lines) \in Nat /\ DOMAIN f.lines = 1..n /\ DOMAIN g.lines = 1..(n + k)
      /\ \A i \in 1..Len(lines) : lines[i].type # "corrupt"
  <2>1. \A e \in Event : e.type # "corrupt"
    BY DEF Event, EventTypes
  <2> QED BY <1>2, <2>1, FileFields, LenProperties, ElementOfSeq
<1>4. ASSUME NEW i \in 1..(n + k), i > n PROVE g.lines[i].type # "corrupt"
  <2> HIDE DEF n
  <2>1. i - n \in 1..k /\ n + (i - n) = i /\ i - n \in 1..Len(lines)
    BY <1>3, <1>4
  <2>2. g.lines[n + (i - n)] = lines[i - n]
    BY <1>2, <2>1
  <2> QED BY <1>3, <2>1, <2>2
<1> HIDE DEF n
<1>5. ASSUME NEW i \in 1..(n + k), ~(i > n) PROVE g.lines[i].type # "corrupt"
  <2>1. i \in 1..n
    BY <1>3, <1>5
  <2> QED BY <1>2, <1>3, <2>1 DEF Readable
<1> QED BY <1>3, <1>4, <1>5 DEF Readable

\* Every step keeps an untorn log readable.
LEMMA StepClean == IInv /\ CleanInv /\ [Next]_vars => CleanInv'
<1> SUFFICES ASSUME IInv, CleanInv, [Next]_vars, ~torn'
             PROVE  log'.tail = NoTail /\ \A f \in Contents' : Readable(f)
  BY DEF CleanInv, Readable
<1>t. log \in File /\ ControlTypeOK
  BY DEF IInv, TypeOK, LogTypeOK
<1>1. CASE LogStays
  BY <1>1 DEF CleanInv, LogStays
<1>2. ASSUME NEW w \in Writers, BatchWritten(w)
      PROVE  log'.tail = NoTail /\ \A f \in Contents' : Readable(f)
  <2>1. ~torn /\ log'.tail = NoTail
    BY <1>2 DEF BatchWritten
  <2>2. Readable(log) /\ log.tail = NoTail /\ \A f \in Contents : Readable(f)
    BY <2>1 DEF CleanInv, Contents
  <2>3. Batch(w) \in Seq(Event)
    BY <1>t, BatchNumbers DEF BatchFrom
  <2>4. \A g \in CutAppends(log, Batch(w)) : Readable(g)
    BY <1>t, <2>2, <2>3, CutReadable
  <2> QED BY <1>2, <2>1, <2>2, <2>4 DEF BatchWritten
<1>3. ASSUME NEW w \in Writers, LogTruncated(w)
      PROVE  log'.tail = NoTail /\ \A f \in Contents' : Readable(f)
  <2>1. Readable(log')
    BY <1>3, <1>t, TruncatedRead DEF LogTruncated
  <2> QED BY <1>3, <2>1 DEF LogTruncated, CleanInv
<1>4. CASE LogReturns
  BY <1>4 DEF CleanInv, LogReturns
<1> QED BY <1>1, <1>2, <1>3, <1>4, FileStep

\* No crash, failing call or rewind makes the log unreadable, and no write but one
\* that is cut inside a line: every content a power loss may bring back decodes.
THEOREM OnlyTornUnreadable == Spec => []ReadableUnlessTorn
<1>1. Init => CleanInv
  BY EmptySeq DEF Init, CleanInv, Contents, EmptyFile, Readable
<1>2. CleanInv => ReadableUnlessTorn
  BY DEF CleanInv, ReadableUnlessTorn, Contents
<1> QED BY <1>1, <1>2, Invariance, StepClean, PTL DEF Spec

-----------------------------------------------------------------------------
(* The event that is recorded once.                                        *)

Onces(f)  == {i \in DOMAIN ReadEvents(f) : ReadEvents(f)[i].type = "once"}
OnceIn(f) == Readable(f) => \A i, j \in Onces(f) : i = j

\* From the check under the lock to the write the event is not in the log.
OnceAt(w) ==
  pc[w] \in {"derive", "write"} /\ op[w].kind = "once" => Readable(log) /\ ~Exists(log)
OnceInv == (\A f \in Contents : OnceIn(f)) /\ \A w \in Writers : OnceAt(w)

\* At most one position is at most one event.
LEMMA OnceFromInv == OnceInv => RecordedOnce
<1> SUFFICES ASSUME OnceIn(log), Readable(log) PROVE Cardinality(Onces(log)) <= 1
  BY DEF OnceInv, Contents, RecordedOnce, Onces
<1>1. CASE Onces(log) = {}
  BY <1>1, FS_EmptySet
<1>2. ASSUME NEW i \in Onces(log) PROVE Cardinality(Onces(log)) <= 1
  <2>1. Onces(log) = {i}
    BY <1>2 DEF OnceIn
  <2> QED BY <2>1, FS_Singleton
<1> QED BY <1>1, <1>2

\* Whatever part of a batch is stored adds the event once, and only where it was not.
LEMMA CutOnce ==
  ASSUME IInv, KindInv, OnceInv, NEW w \in Writers, pc[w] = "write",
         NEW g \in CutAppends(log, Batch(w))
  PROVE  OnceIn(g)
<1> SUFFICES ASSUME Readable(g), NEW i \in Onces(g), NEW j \in Onces(g) PROVE i = j
  BY DEF OnceIn
<1> DEFINE n == Len(log.lines)
           b == Batch(w)
<1>1. /\ log \in File /\ b \in Seq(Event) /\ b # <<>> /\ n \in Nat
      /\ op[w].kind \in {"append", "once", "retitle", "rewind"} /\ Len(b) = op[w].n
      /\ \A m \in 1..Len(b) : b[m].type = EventType(op[w].kind)
  <2>1. log \in File /\ b \in Seq(Event) /\ b # <<>> /\ op[w] \in Operation /\ op[w].n \in Nat
    BY BatchNumbers DEF IInv, TypeOK, LogTypeOK, BatchFrom, ControlTypeOK
  <2>2. DOMAIN b = 1..Len(b) /\ Len(b) \in Nat /\ DOMAIN b = 1..op[w].n
    BY <2>1, LenProperties DEF Batch
  <2>3. Len(b) = op[w].n
    <3> HIDE DEF b
    <3> QED BY <2>1, <2>2
  <2>4. \A m \in 1..Len(b) : b[m].type = EventType(op[w].kind)
    BY <2>3 DEF Batch
  <2> QED BY <2>1, <2>3, <2>4, FileFields DEF Operation
<1>2. /\ Readable(log) /\ g \in File /\ n <= Len(g.lines)
      /\ \A m \in 1..n : g.lines[m] = log.lines[m]
      /\ \A m \in DOMAIN ReadEvents(g) :
           m > n =>
             \/ m \in DOMAIN ReadEvents(log) /\ ReadEvents(g)[m] = ReadEvents(log)[m]
             \/ m - n \in 1..Len(b) /\ ReadEvents(g)[m] = b[m - n]
  <2> HIDE DEF b
  <2> QED BY <1>1, CutRead DEF b
<1> HIDE DEF b
<1>3. ASSUME NEW m \in Onces(g)
      PROVE  \/ m \in Onces(log)
             \/ op[w].kind = "once" /\ m = n + 1
  <2>1. m \in DOMAIN ReadEvents(g) /\ ReadEvents(g)[m].type = "once"
    BY DEF Onces
  <2>2. /\ ReadEvents(g) \in Seq(Line) /\ DOMAIN ReadEvents(g) = 1..Len(ReadEvents(g))
        /\ Len(g.lines) \in Nat
        /\ \A a \in 1..Len(g.lines) : ReadEvents(g)[a] = g.lines[a]
    BY <1>2, ReadEventsType, FileFields, LenProperties
  <2>3. /\ ReadEvents(log) \in Seq(Line) /\ DOMAIN ReadEvents(log) = 1..Len(ReadEvents(log))
        /\ Len(ReadEvents(log)) = n + (IF Whole(log.tail) THEN 1 ELSE 0)
        /\ \A a \in 1..n : ReadEvents(log)[a] = log.lines[a]
    BY <1>1, ReadEventsType, LenProperties
  <2>4. CASE ~(m > n)
    <3> HIDE DEF n
    <3>1. m \in 1..n /\ m \in 1..Len(g.lines) /\ m \in DOMAIN ReadEvents(log)
      BY <1>1, <1>2, <2>1, <2>2, <2>3, <2>4
    <3>2. ReadEvents(g)[m] = ReadEvents(log)[m]
      BY <1>2, <2>2, <2>3, <3>1
    <3> QED BY <2>1, <3>1, <3>2 DEF Onces
  <2>5. CASE m > n
    <3>1. CASE m \in DOMAIN ReadEvents(log) /\ ReadEvents(g)[m] = ReadEvents(log)[m]
      BY <2>1, <3>1 DEF Onces
    <3>2. CASE m - n \in 1..Len(b) /\ ReadEvents(g)[m] = b[m - n]
      <4>1. EventType(op[w].kind) = "once"
        BY <1>1, <2>1, <3>2
      <4>2. op[w].kind = "once"
        BY <1>1, <4>1 DEF EventType
      <4>3. Len(b) = 1
        BY <1>1, <4>2 DEF KindInv
      <4> HIDE DEF n
      <4>4. m = n + 1
        BY <1>1, <2>1, <2>2, <3>2, <4>3
      <4> QED BY <4>2, <4>4
    <3> QED BY <1>2, <2>1, <2>5, <3>1, <3>2
  <2> QED BY <2>4, <2>5
<1>4. op[w].kind = "once" => Onces(log) = {}
  BY DEF OnceInv, OnceAt, Exists, Onces
<1>5. \A a, c \in Onces(log) : a = c
  BY <1>2 DEF OnceInv, OnceIn, Contents
<1> QED BY <1>3, <1>4, <1>5

\* Every step keeps the event single, the fault steps included.
LEMMA StepOnce == IInv /\ KindInv /\ OnceInv /\ [Next]_vars => OnceInv'
<1> SUFFICES ASSUME IInv, KindInv, OnceInv, [Next]_vars PROVE OnceInv'
  OBVIOUS
<1>t. log \in File /\ ControlTypeOK
  BY DEF IInv, TypeOK, LogTypeOK
<1>1. \A f \in Contents' : OnceIn(f)
  <2>1. CASE LogStays
    BY <2>1 DEF OnceInv, LogStays
  <2>2. ASSUME NEW w \in Writers, BatchWritten(w) PROVE \A f \in Contents' : OnceIn(f)
    <3>1. \A g \in CutAppends(log, Batch(w)) : OnceIn(g)
      BY <2>2, CutOnce DEF BatchWritten
    <3> QED BY <2>2, <3>1 DEF BatchWritten, OnceInv
  <2>3. ASSUME NEW w \in Writers, LogTruncated(w) PROVE \A f \in Contents' : OnceIn(f)
    <3>1. \A i \in Onces(log') : i \in Onces(log)
      BY <1>t, <2>3, TruncatedRead DEF LogTruncated, Onces
    <3>2. OnceIn(log')
      BY <2>3, <3>1 DEF LogTruncated, OnceIn, OnceInv, Contents
    <3> QED BY <2>3, <3>2 DEF LogTruncated, OnceInv
  <2>4. CASE LogReturns
    BY <2>4 DEF OnceInv, LogReturns
  <2> QED BY <2>1, <2>2, <2>3, <2>4, FileStep
<1>2. ASSUME NEW v \in Writers PROVE OnceAt(v)'
  <2>1. CASE pc'[v] \in {"idle", "want"}
    BY <2>1 DEF OnceAt
  <2>2. CASE pc'[v] \notin {"idle", "want"}
    <3>0. op'[v] = op[v] /\ (Still(v) \/ LockSession(v) \/ Proceed(v)) /\ OnceAt(v)
      BY <2>2, StepInto DEF OnceInv
    <3>1. CASE Still(v)
      BY <3>0, <3>1 DEF Still, OnceAt, logVars
    <3>2. CASE LockSession(v)
      <4>1. pc'[v] = FirstStage(op[v].kind)
        BY <1>t, <3>2 DEF LockSession, ControlTypeOK
      <4> QED BY <3>0, <4>1 DEF FirstStage, OnceAt
    <3>3. CASE CheckExists(v)
      <4>1. log' = log /\ Readable(log) /\ ~Exists(log)
        BY <1>t, <2>2, <3>3 DEF CheckExists, Return, ControlTypeOK, logVars
      <4> QED BY <4>1 DEF OnceAt
    <3>4. CASE Derive(v)
      <4>1. log' = log /\ pc[v] = "derive"
        BY <3>4 DEF Derive, At, logVars
      <4> QED BY <3>0, <4>1 DEF OnceAt
    <3>5. CASE TruncateDirSync(v)
      <4>1. op[v].kind = "rewind"
        BY <3>5 DEF TruncateDirSync, At, KindInv, KindAt, Rewinding
      <4> QED BY <3>0, <4>1 DEF OnceAt
    <3>6. CASE \/ WriteBatch(v) \/ Sync(v) \/ Rename(v) \/ DirSync(v) \/ Retitle(v)
               \/ Truncate(v) \/ LogDirSync(v) \/ TruncateMetadata(v)
      <4>1. pc'[v] \notin {"derive", "write"}
        BY <1>t, <3>6 DEF WriteBatch, Sync, Rename, DirSync, Retitle, Truncate, LogDirSync,
                          TruncateMetadata, Goto, Return, ControlTypeOK
      <4> QED BY <4>1 DEF OnceAt
    <3> QED BY <3>0, <3>1, <3>2, <3>3, <3>4, <3>5, <3>6 DEF Proceed, AppendSteps, RewindSteps
  <2> QED BY <2>1, <2>2
<1> QED BY <1>1, <1>2 DEF OnceInv

\* The invariants of the kinds and of the event recorded once begin true.
LEMMA InitOnce == Init => KindInv /\ OnceInv
<1> SUFFICES ASSUME Init PROVE KindInv /\ OnceInv
  OBVIOUS
<1>1. KindInv
  BY DEF Init, KindInv, KindAt, NoOp, Rewinding
<1>2. ReadEvents(EmptyFile) = <<>>
  BY DEF ReadEvents, Whole, EmptyFile, NoTail, EventTypes
<1>3. OnceIn(EmptyFile)
  BY <1>2, EmptySeq DEF OnceIn, Onces
<1> QED BY <1>1, <1>3 DEF Init, OnceInv, OnceAt, Contents

\* However many callers of AppendEventUnlessExists race, whatever fails between the
\* check and the sync and whatever comes back after a power loss, the log has the
\* event at most once.
THEOREM OnceRecorded == Spec => []RecordedOnce
<1>1. Spec => [](KindInv /\ OnceInv)
  BY InitOnce, Invariance, StepKind, StepOnce, PTL DEF Spec
<1> QED BY <1>1, OnceFromInv, PTL

-----------------------------------------------------------------------------
(* What was acknowledged survives.                                         *)

\* The lines are in the file, each with its newline, as long as it can be read.
Keeps(f, ls) == Readable(f) => ls \subseteq RangeOf(f.lines)

\* A batch that was written is in the log, and once it was synced the log is all
\* that a power loss can bring back, but for files it replaced.
AckedAt(w) ==
  /\ pc[w] = "sync" => Keeps(log, RangeOf(Batch(w)))
  /\ pc[w] \in {"rename", "dirsync"} /\ op[w].kind # "retitle" =>
       survivors = {log} /\ Keeps(log, RangeOf(Batch(w)))
AckedInv == (\A f \in Contents : Keeps(f, acked)) /\ \A w \in Writers : AckedAt(w)

\* A line of the file is an event that ReadEvents returns.
LEMMA KeepsRead ==
  ASSUME NEW f \in File
  PROVE  RangeOf(f.lines) \subseteq RangeOf(ReadEvents(f))
<1>1. /\ DOMAIN f.lines = 1..Len(f.lines) /\ Len(f.lines) \in Nat
      /\ DOMAIN ReadEvents(f) = 1..Len(ReadEvents(f))
      /\ Len(ReadEvents(f)) = Len(f.lines) + (IF Whole(f.tail) THEN 1 ELSE 0)
      /\ \A i \in 1..Len(f.lines) : ReadEvents(f)[i] = f.lines[i]
  BY FileFields, ReadEventsType, LenProperties
<1>2. \A n \in Nat : \A m : m = n \/ m = n + 1 => \A i \in 1..n : i \in 1..m
  OBVIOUS
<1>3. Len(ReadEvents(f)) = Len(f.lines) \/ Len(ReadEvents(f)) = Len(f.lines) + 1
  <2>1. CASE Whole(f.tail)
    BY <1>1, <2>1
  <2>2. CASE ~Whole(f.tail)
    BY <1>1, <2>2
  <2> QED BY <2>1, <2>2
<1>4. \A i \in 1..Len(f.lines) : i \in DOMAIN ReadEvents(f)
  BY <1>1, <1>2, <1>3
<1> QED BY <1>1, <1>4 DEF RangeOf

\* A write keeps what was there, and all of it, when it can be read, has the batch.
LEMMA WriteKeeps ==
  ASSUME NEW f \in File, NEW lines \in Seq(Event), lines # <<>>
  PROVE  /\ \A g \in CutAppends(f, lines) : \A ls : Keeps(f, ls) => Keeps(g, ls)
         /\ Keeps(Appended(f, lines), RangeOf(lines))
<1>1. ASSUME NEW g \in CutAppends(f, lines), NEW ls, Keeps(f, ls), Readable(g)
      PROVE  ls \subseteq RangeOf(g.lines)
  <2>1. /\ Readable(f) /\ g \in File /\ Len(f.lines) <= Len(g.lines)
        /\ \A i \in 1..Len(f.lines) : g.lines[i] = f.lines[i]
    BY <1>1, CutRead
  <2>2. /\ DOMAIN f.lines = 1..Len(f.lines) /\ Len(f.lines) \in Nat
        /\ DOMAIN g.lines = 1..Len(g.lines) /\ Len(g.lines) \in Nat
    BY <2>1, FileFields
  <2>3. DOMAIN f.lines \subseteq DOMAIN g.lines
    BY <2>1, <2>2
  <2> QED BY <1>1, <2>1, <2>2, <2>3 DEF Keeps, RangeOf
<1>2. ASSUME Readable(Appended(f, lines))
      PROVE  RangeOf(lines) \subseteq RangeOf(Appended(f, lines).lines)
  <2> DEFINE n == Len(f.lines)
             k == Len(lines)
             g == Appended(f, lines)
  <2>1. /\ Glue(f.tail, lines) \in Seq(Line) /\ Len(Glue(f.tail, lines)) = k
        /\ \A i \in 1..k :
             Glue(f.tail, lines)[i] = IF i = 1 /\ f.tail # NoTail THEN Corrupt ELSE lines[i]
    BY GlueType
  <2>2. f.lines \in Seq(Line) /\ n \in Nat /\ k \in Nat /\ k # 0 /\ DOMAIN lines = 1..k
    BY FileFields, LenProperties, EmptySeq
  <2>3. g.lines = f.lines \o Glue(f.tail, lines)
    BY DEF Appended
  <2>4. /\ g.lines \in Seq(Line) /\ Len(g.lines) = n + k
        /\ \A i \in 1..(n + k) :
             g.lines[i] = IF i <= n THEN f.lines[i] ELSE Glue(f.tail, lines)[i - n]
    <3> DEFINE glued == Glue(f.tail, lines)
    <3>1. glued \in Seq(Line) /\ Len(glued) = k
      BY <2>1
    <3> HIDE DEF glued, g
    <3> SUFFICES /\ g.lines \in Seq(Line) /\ Len(g.lines) = n + k
                 /\ \A i \in 1..(n + k) : g.lines[i] = IF i <= n THEN f.lines[i] ELSE glued[i - n]
      BY DEF glued
    <3>2. g.lines = f.lines \o glued
      BY <2>3 DEF glued
    <3> QED BY <2>2, <3>1, <3>2, ConcatProperties
  <2>5. DOMAIN g.lines = 1..(n + k)
    BY <2>4, LenProperties
  <2> HIDE DEF g, n, k
  <2>6. ASSUME NEW i \in 1..k
        PROVE  n + i \in 1..(n + k) /\ g.lines[n + i] = Glue(f.tail, lines)[i]
    <3>1. n + i \in 1..(n + k) /\ ~(n + i <= n) /\ (n + i) - n = i
      BY <2>2
    <3> QED BY <2>4, <3>1
  <2>7. f.tail = NoTail
    <3>1. SUFFICES ASSUME f.tail # NoTail PROVE FALSE
      OBVIOUS
    <3>2. 1 \in 1..k
      BY <2>2
    <3>3. g.lines[n + 1] = Corrupt /\ n + 1 \in DOMAIN g.lines
      BY <2>1, <2>5, <2>6, <3>1, <3>2
    <3> QED BY <1>2, <3>3 DEF Readable, g, Corrupt
  <2>8. \A i \in DOMAIN lines : n + i \in DOMAIN g.lines /\ g.lines[n + i] = lines[i]
    BY <2>1, <2>2, <2>5, <2>6, <2>7
  <2> QED BY <2>8 DEF RangeOf, g
<1> QED BY <1>1, <1>2 DEF Keeps

\* Every step keeps what was acknowledged.
LEMMA StepAcked == IInv /\ KindInv /\ AckedInv /\ [Next]_vars => AckedInv'
<1> SUFFICES ASSUME IInv, KindInv, AckedInv, [Next]_vars PROVE AckedInv'
  OBVIOUS
<1>t. log \in File /\ ControlTypeOK /\ acked \subseteq Line
  BY DEF IInv, TypeOK, LogTypeOK, HistoryTypeOK
<1>b. \A w \in Writers : Batch(w) \in Seq(Event) /\ Batch(w) # <<>>
  BY <1>t, BatchNumbers DEF BatchFrom
<1>k. \A f \in Contents : Keeps(f, acked)
  BY DEF AckedInv
<1>1. ASSUME NEW w \in Writers, DirSync(w) PROVE \A f \in Contents' : Keeps(f, acked')
  <2>1. CASE op[w].kind = "retitle"
    BY <1>1, <1>k, <2>1 DEF DirSync, SyncDir, Contents
  <2>2. CASE op[w].kind # "retitle"
    <3>1. survivors = {log} /\ Keeps(log, RangeOf(Batch(w)))
      BY <1>1, <2>2 DEF DirSync, At, AckedInv, AckedAt
    <3>2. Contents' = {log}
      BY <1>1, <3>1 DEF DirSync, SyncDir, Contents
    <3>3. acked' = acked \cup RangeOf(Batch(w)) /\ Keeps(log, acked)
      BY <1>1, <1>k, <2>2 DEF DirSync, Contents
    <3> QED BY <3>1, <3>2, <3>3 DEF Keeps
  <2> QED BY <2>1, <2>2
<1>2. ASSUME LogStays PROVE \A f \in Contents' : Keeps(f, acked')
  BY <1>1, <1>2, <1>k DEF LogStays
<1>3. ASSUME LogReturns PROVE \A f \in Contents' : Keeps(f, acked')
  BY <1>3, <1>k DEF LogReturns
<1>4. ASSUME NEW w \in Writers, BatchWritten(w) PROVE \A f \in Contents' : Keeps(f, acked')
  <2>1. \A g \in CutAppends(log, Batch(w)) : Keeps(g, acked)
    BY <1>b, <1>k, <1>t, WriteKeeps DEF Contents
  <2> QED BY <1>k, <1>4, <2>1 DEF BatchWritten
<1>5. ASSUME NEW w \in Writers, LogTruncated(w) PROVE \A f \in Contents' : Keeps(f, acked')
  <2>1. acked \subseteq RangeOf(ReadEvents(log))
    BY <1>k, <1>t, <1>5, KeepsRead DEF LogTruncated, Contents, Keeps
  <2>2. ASSUME NEW l \in acked' PROVE l \in RangeOf(log'.lines)
    <3>1. l \in acked /\ l.seq <= op[w].target
      BY <1>5, <2>2 DEF LogTruncated
    <3>2. PICK i \in DOMAIN ReadEvents(log) : ReadEvents(log)[i] = l
      BY <2>1, <3>1 DEF RangeOf
    <3>3. i \in DOMAIN log'.lines /\ log'.lines[i] = l
      BY <1>t, <1>5, <3>1, <3>2, TruncatedRead DEF LogTruncated
    <3> QED BY <3>3 DEF RangeOf
  <2>3. acked' \subseteq acked /\ Contents' \subseteq Contents \cup {log'}
    BY <1>5 DEF LogTruncated
  <2> QED BY <1>k, <2>2, <2>3 DEF Keeps
<1>6. \A f \in Contents' : Keeps(f, acked')
  BY <1>2, <1>3, <1>4, <1>5, FileStep
<1>7. ASSUME NEW v \in Writers PROVE AckedAt(v)'
  <2>1. CASE pc'[v] \in {"idle", "want"}
    BY <2>1 DEF AckedAt
  <2>2. CASE pc'[v] \notin {"idle", "want"}
    <3>0. op'[v] = op[v] /\ (Still(v) \/ LockSession(v) \/ Proceed(v)) /\ AckedAt(v)
      BY <2>2, StepInto DEF AckedInv
    <3>b. ASSUME base'[v] = base[v], log' = log
          PROVE  Batch(v)' = Batch(v) /\ (Keeps(log, RangeOf(Batch(v))) => Keeps(log', RangeOf(Batch(v)')))
      BY <3>0, <3>b DEF Batch
    <3>1. CASE Still(v)
      BY <3>0, <3>1, <3>b DEF Still, AckedAt, logVars
    <3>2. CASE LockSession(v)
      <4>1. pc'[v] = FirstStage(op[v].kind)
        BY <1>t, <3>2 DEF LockSession, ControlTypeOK
      <4>2. op[v].kind \in {"append", "once", "retitle", "rewind"}
        BY <1>t DEF ControlTypeOK, Operation
      <4> QED BY <4>1, <4>2 DEF FirstStage, AckedAt
    <3>3. CASE WriteBatch(v)
      <4>1. pc'[v] = "sync" /\ log' = Appended(log, Batch(v)) /\ base' = base
        BY <1>t, <3>3 DEF WriteBatch, Goto, ControlTypeOK, localVars
      <4>2. Keeps(log', RangeOf(Batch(v)))
        BY <1>b, <1>t, <4>1, WriteKeeps
      <4>3. Batch(v)' = Batch(v)
        BY <3>0, <4>1 DEF Batch
      <4> QED BY <4>1, <4>2, <4>3 DEF AckedAt
    <3>4. CASE Sync(v)
      <4>1. /\ pc[v] = "sync" /\ pc'[v] = "rename" /\ survivors' = {log}
            /\ log' = log /\ base' = base
        BY <1>t, <3>4 DEF Sync, At, Goto, ControlTypeOK, localVars
      <4> QED BY <3>0, <3>b, <4>1 DEF AckedAt
    <3>5. CASE Rename(v)
      <4>1. /\ pc[v] = "rename" /\ pc'[v] = "dirsync" /\ UNCHANGED <<log, survivors, base>>
        BY <1>t, <3>5 DEF Rename, At, Goto, ControlTypeOK, localVars, logVars
      <4> QED BY <3>0, <3>b, <4>1 DEF AckedAt
    <3>6. CASE Retitle(v)
      <4>1. pc'[v] = "rename" /\ op[v].kind = "retitle"
        BY <1>t, <2>2, <3>6 DEF Retitle, At, Goto, Return, ControlTypeOK, KindInv, KindAt
      <4> QED BY <3>0, <4>1 DEF AckedAt
    <3>7. CASE CheckExists(v) \/ Derive(v) \/ DirSync(v) \/ RewindSteps(v)
      <4>1. pc'[v] \notin {"sync", "rename", "dirsync"}
        BY <1>t, <3>7 DEF CheckExists, Derive, DirSync, RewindSteps, Truncate, LogDirSync,
                          TruncateMetadata, TruncateDirSync, Goto, Return, ControlTypeOK
      <4> QED BY <4>1 DEF AckedAt
    <3> QED BY <3>0, <3>1, <3>2, <3>3, <3>4, <3>5, <3>6, <3>7 DEF Proceed, AppendSteps
  <2> QED BY <2>1, <2>2
<1> QED BY <1>6, <1>7 DEF AckedInv

\* An append that returned without an error stays in the log, and in everything a
\* power loss can put in its place that can be read, until a rewind removes it:
\* the call returns only after its sync, and after the directory's.
THEOREM AckedKept == Spec => []AckedSurvive
<1>1. Init => AckedInv
  BY DEF Init, AckedInv, AckedAt, Keeps
<1>2. Spec => [](IInv /\ KindInv /\ AckedInv)
  BY <1>1, InitOnce, Invariance, StepKind, StepAcked, PTL DEF Spec
<1>3. IInv /\ AckedInv => AckedSurvive
  <2> SUFFICES ASSUME IInv, AckedInv, NEW f \in {log} \cup survivors \cup displaced, Readable(f)
               PROVE  acked \subseteq RangeOf(ReadEvents(f))
    BY DEF AckedSurvive
  <2>1. f \in File
    BY DEF IInv, TypeOK, LogTypeOK
  <2> QED BY <2>1, KeepsRead DEF AckedInv, Contents, Keeps
<1> QED BY <1>2, <1>3, PTL

=============================================================================
