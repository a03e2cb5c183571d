--------------------------- MODULE TraceDumpProofs ---------------------------
(***************************************************************************)
(* The view of a trace, for frames of any number of reports, any number of *)
(* frames, any interleaving of the two directions and wherever the trace   *)
(* is cut.                                                                 *)
(***************************************************************************)
EXTENDS TraceDump, TLAPS, WellFoundedInduction

\* The elements of a sequence.
On(s) == {s[i] : i \in 1..Len(s)}

LEMMA AppendFacts ==
    ASSUME NEW S, NEW s \in Seq(S), NEW m \in S
    PROVE  /\ Append(s, m) \in Seq(S) /\ Len(s) \in Nat /\ Len(Append(s, m)) = Len(s) + 1
           /\ \A i \in 1..Len(s) : Append(s, m)[i] = s[i]
           /\ Append(s, m)[Len(s) + 1] = m
           /\ \A i \in 1..(Len(s) + 1) : i \in 1..Len(s) \/ i = Len(s) + 1
           /\ On(Append(s, m)) = On(s) \cup {m}
<1>1. /\ Append(s, m) \in Seq(S) /\ Len(s) \in Nat /\ Len(Append(s, m)) = Len(s) + 1
      /\ \A i \in 1..Len(s) : Append(s, m)[i] = s[i]
      /\ Append(s, m)[Len(s) + 1] = m
  OBVIOUS
<1>2. \A i \in 1..(Len(s) + 1) : i \in 1..Len(s) \/ i = Len(s) + 1
  BY <1>1
<1>3. Len(s) + 1 \in 1..(Len(s) + 1) /\ 1..Len(s) \subseteq 1..(Len(s) + 1)
  BY <1>1
<1>4. On(Append(s, m)) \subseteq On(s) \cup {m}
  BY <1>1, <1>2 DEF On
<1>5. On(s) \cup {m} \subseteq On(Append(s, m))
  BY <1>1, <1>3 DEF On
<1>. QED
  BY <1>1, <1>2, <1>4, <1>5

LEMMA OnEmpty == On(<<>>) = {}
<1>1. 1..0 = {}
  OBVIOUS
<1>. QED
  BY <1>1 DEF On

\* A set of natural numbers that is not empty has a smallest one.
LEMMA Smallest ==
    ASSUME NEW I \in SUBSET Nat, I # {}
    PROVE  Min(I) \in I /\ \A j \in I : Min(I) <= j
<1>1. PICK i \in I : \A j \in I : ~(<<j, i>> \in OpToRel(<, Nat))
  BY NatLessThanWellFounded, WFMin
<1>2. \A j \in I : ~(j < i)
  BY <1>1 DEF OpToRel
<1>3. \A j \in I : i <= j
  BY <1>2
<1>. QED
  BY <1>3 DEF Min

\* Where a message is in the trace.
At(t, m) == SelectInSeq(t, LAMBDA q : q = m)

LEMMA AtFacts ==
    ASSUME NEW t \in Seq(Msg), NEW m \in On(t)
    PROVE  At(t, m) \in 1..Len(t) /\ t[At(t, m)] = m
<1>. DEFINE I == {i \in 1..Len(t) : t[i] = m}
<1>1. I # {} /\ I \in SUBSET Nat
  BY DEF On
<1>2. Min(I) \in I
  BY <1>1, Smallest
<1>3. At(t, m) = Min(I)
  BY <1>1 DEF At, SelectInSeq
<1>. QED
  BY <1>2, <1>3

\* DequeueDir finds the first message of a direction.
LEMMA FirstOfFacts ==
    ASSUME NEW d, queue \in Seq(Msg)
    PROVE  /\ (\E m \in On(queue) : m.dir = d) =>
                 /\ FirstOf(d) \in 1..Len(queue) /\ FirstOf(d) # 0
                 /\ queue[FirstOf(d)].dir = d
                 /\ \A j \in 1..Len(queue) : queue[j].dir = d => FirstOf(d) <= j
           /\ (\A m \in On(queue) : m.dir # d) => FirstOf(d) = 0
<1>. DEFINE I == {i \in 1..Len(queue) : queue[i].dir = d}
<1>1. FirstOf(d) = IF I # {} THEN Min(I) ELSE 0
  BY DEF FirstOf, SelectInSeq
<1>2. I # {} => Min(I) \in I /\ \A j \in I : Min(I) <= j
  <2>1. I \in SUBSET Nat
    OBVIOUS
  <2>. HIDE DEF I
  <2>. QED
    BY <2>1, Smallest
<1>3. (\E m \in On(queue) : m.dir = d) => I # {}
  BY DEF On
<1>4. (\A m \in On(queue) : m.dir # d) => I = {}
  BY DEF On
<1>5. 0 \notin 1..Len(queue)
  OBVIOUS
<1>. QED
  BY <1>1, <1>2, <1>3, <1>4, <1>5

LEMMA ConcatFacts ==
    ASSUME NEW S, NEW s \in Seq(S), NEW t \in Seq(S)
    PROVE  /\ s \o t \in Seq(S) /\ Len(s \o t) = Len(s) + Len(t)
           /\ \A i \in 1..Len(s) : (s \o t)[i] = s[i]
           /\ \A i \in 1..Len(t) : (s \o t)[Len(s) + i] = t[i]
  OBVIOUS

LEMMA RemoveFacts ==
    ASSUME NEW S, NEW s \in Seq(S), NEW k \in 1..Len(s)
    PROVE  /\ RemoveAt(s, k) \in Seq(S) /\ Len(s) \in Nat
           /\ Len(RemoveAt(s, k)) = Len(s) - 1
           /\ \A i \in 1..(Len(s) - 1) :
                 RemoveAt(s, k)[i] = IF i < k THEN s[i] ELSE s[i + 1]
<1>1. Len(s) \in Nat /\ k \in Nat /\ k >= 1 /\ k <= Len(s)
  OBVIOUS
<1>2. PICK a : a = SubSeq(s, 1, k - 1)
  OBVIOUS
<1>3. PICK b : b = SubSeq(s, k + 1, Len(s))
  OBVIOUS
<1>4. Len(a) = k - 1 /\ \A i \in 1..(k - 1) : a[i] = s[i]
  BY <1>1, <1>2
<1>5. Len(b) = Len(s) - k /\ \A i \in 1..(Len(s) - k) : b[i] = s[k + i]
  BY <1>1, <1>3
<1>6. a \in Seq(S) /\ b \in Seq(S)
  BY <1>1, <1>2, <1>3
<1>7. RemoveAt(s, k) = a \o b
  BY <1>2, <1>3 DEF RemoveAt
<1>8. /\ a \o b \in Seq(S) /\ Len(a \o b) = Len(a) + Len(b)
      /\ \A i \in 1..Len(a) : (a \o b)[i] = a[i]
      /\ \A i \in 1..Len(b) : (a \o b)[Len(a) + i] = b[i]
  BY ONLY ConcatFacts, <1>6
<1>9. ASSUME NEW i \in 1..(Len(s) - 1)
      PROVE  (a \o b)[i] = IF i < k THEN s[i] ELSE s[i + 1]
  <2>1. CASE i < k
    BY <1>1, <1>4, <1>8, <2>1
  <2>2. CASE ~(i < k)
    <3>1. PICK j \in Nat : j = i - (k - 1)
      BY <1>1, <2>2
    <3>2. j \in 1..(Len(s) - k) /\ k + j = i + 1 /\ (k - 1) + j = i
      BY <1>1, <2>2, <3>1
    <3>3. (a \o b)[(k - 1) + j] = b[j] /\ b[j] = s[k + j]
      BY <1>4, <1>5, <1>8, <3>2
    <3>. QED
      BY <2>2, <3>2, <3>3
  <2>. QED
    BY <2>1, <2>2
<1>10. Len(a \o b) = Len(s) - 1
  BY <1>1, <1>4, <1>5, <1>8
<1>. QED
  BY <1>1, <1>7, <1>8, <1>9, <1>10

-----------------------------------------------------------------------------
(* Recording. *)

Report(d, n, i) == [dir |-> d, frame |-> n, part |-> i]

\* The parts of a frame that are logged.
PartsOf(d, n) == IF n = Len(sizes[d]) THEN parts[d] ELSE sizes[d][n]
Logged(m) == m.frame \in 1..Len(sizes[m.dir]) /\ m.part \in 1..PartsOf(m.dir, m.frame)

Before(m, q) == m.frame < q.frame \/ (m.frame = q.frame /\ m.part < q.part)

\* A frame that is begun has a part, and none beyond its last.
Begun ==
    \A d \in Dirs : IF sizes[d] = <<>> THEN parts[d] = 0
                                       ELSE parts[d] \in 1..sizes[d][Len(sizes[d])]

\* Each part is logged once, those of a direction in their order.
TraceInv ==
    /\ \A m \in On(trace) : Logged(m)
    /\ \A d \in Dirs : \A n \in 1..Len(sizes[d]) : \A i \in 1..PartsOf(d, n) :
          Report(d, n, i) \in On(trace)
    /\ \A i, j \in 1..Len(trace) :
          i < j /\ trace[i].dir = trace[j].dir => Before(trace[i], trace[j])

LEMMA SizeFacts ==
    ASSUME TypeOK, NEW d \in Dirs
    PROVE  /\ sizes[d] \in Seq(Sizes) /\ Len(sizes[d]) \in Nat /\ parts[d] \in Nat
           /\ sizes[d] = <<>> <=> Len(sizes[d]) = 0
           /\ \A n \in 1..Len(sizes[d]) : sizes[d][n] \in Nat /\ sizes[d][n] >= 1
           /\ Whole(d) <=> parts[d] = IF sizes[d] = <<>> THEN 0 ELSE sizes[d][Len(sizes[d])]
<1>1. sizes[d] \in Seq(Sizes) /\ parts[d] \in Nat
  BY DEF TypeOK
<1>2. Len(sizes[d]) \in Nat /\ (sizes[d] = <<>> <=> Len(sizes[d]) = 0)
      /\ \A n \in 1..Len(sizes[d]) : sizes[d][n] \in Sizes
  BY <1>1
<1>3. \A n \in 1..Len(sizes[d]) : sizes[d][n] \in Nat /\ sizes[d][n] >= 1
  <2>1. \A size \in Sizes : size \in Nat /\ size >= 1
    BY TraceAssumption
  <2>. QED
    BY <1>2, <2>1
<1>4. Whole(d) <=> parts[d] = IF sizes[d] = <<>> THEN 0 ELSE sizes[d][Len(sizes[d])]
  BY DEF Whole, Last
<1>. QED
  BY <1>1, <1>2, <1>3, <1>4

\* The message that a step of the recording logs.
LEMMA RecordStep ==
    ASSUME TypeOK, Begun, TraceInv, NEW d \in Dirs,
           NextReport(d) \/ \E size \in Sizes : FirstReport(d, size)
    PROVE  TypeOK' /\ Begun' /\ TraceInv'
<1>n. PICK n : n = Len(sizes'[d])
  OBVIOUS
<1>p. PICK p : p = parts'[d]
  OBVIOUS
<1>. DEFINE m == Report(d, n, p)
<1>1. /\ sizes[d] \in Seq(Sizes) /\ Len(sizes[d]) \in Nat /\ parts[d] \in Nat
      /\ sizes[d] = <<>> <=> Len(sizes[d]) = 0
      /\ \A k \in 1..Len(sizes[d]) : sizes[d][k] \in Nat /\ sizes[d][k] >= 1
      /\ Whole(d) <=> parts[d] = IF sizes[d] = <<>> THEN 0 ELSE sizes[d][Len(sizes[d])]
  BY SizeFacts
<1>2. /\ UNCHANGED <<pc, queue, dir, buf, printed>>
      /\ \A e \in Dirs : e # d => sizes'[e] = sizes[e] /\ parts'[e] = parts[e]
      /\ pc = "recording"
  BY DEF NextReport, FirstReport, TypeOK
<1>3. /\ sizes'[d] \in Seq(Sizes) /\ n \in Nat /\ n >= 1 /\ p \in Nat /\ p >= 1
      /\ sizes' \in [Dirs -> Seq(Sizes)] /\ parts' \in [Dirs -> Nat]
      /\ p \in 1..sizes'[d][n]
      /\ trace' = Append(trace, m)
      /\ \/ n = Len(sizes[d]) /\ p = parts[d] + 1 /\ sizes' = sizes
         \/ /\ n = Len(sizes[d]) + 1 /\ p = 1 /\ Whole(d)
            /\ \A k \in 1..Len(sizes[d]) : sizes'[d][k] = sizes[d][k]
  <2>1. CASE NextReport(d)
    <3>1. /\ ~Whole(d) /\ sizes' = sizes /\ parts' = [parts EXCEPT ![d] = @ + 1]
          /\ trace' = Append(trace, Report(d, Len(sizes[d]), parts[d] + 1))
      BY <2>1 DEF NextReport, Log, Report
    <3>2. sizes[d] # <<>> /\ parts[d] \in 1..sizes[d][Len(sizes[d])]
          /\ parts[d] # sizes[d][Len(sizes[d])]
      BY <1>1, <3>1 DEF Begun
    <3>3. Len(sizes[d]) \in 1..Len(sizes[d]) /\ sizes[d][Len(sizes[d])] \in Nat
      BY <1>1, <3>2
    <3>4. p = parts[d] + 1 /\ parts' \in [Dirs -> Nat]
      BY <1>1, <1>p, <3>1 DEF TypeOK
    <3>5. parts[d] + 1 \in 1..sizes[d][Len(sizes[d])]
      BY <1>1, <3>2, <3>3
    <3>. QED
      BY <1>1, <1>n, <1>p, <3>1, <3>3, <3>4, <3>5 DEF TypeOK
  <2>2. CASE \E size \in Sizes : FirstReport(d, size)
    <3>1. PICK size \in Sizes :
              /\ Whole(d) /\ sizes' = [sizes EXCEPT ![d] = Append(@, size)]
              /\ parts' = [parts EXCEPT ![d] = 1]
              /\ trace' = Append(trace, Report(d, Len(sizes[d]) + 1, 1))
      BY <2>2 DEF FirstReport, Log, Report
    <3>2. sizes'[d] = Append(sizes[d], size) /\ p = 1
      BY <1>p, <3>1 DEF TypeOK
    <3>3. /\ sizes'[d] \in Seq(Sizes) /\ n = Len(sizes[d]) + 1
          /\ \A k \in 1..Len(sizes[d]) : sizes'[d][k] = sizes[d][k]
          /\ sizes'[d][n] = size
      BY <1>1, <1>n, <3>2, AppendFacts
    <3>4. size \in Nat /\ size >= 1
      BY TraceAssumption
    <3>5. parts' \in [Dirs -> Nat] /\ sizes' \in [Dirs -> Seq(Sizes)]
      BY <3>1, <3>2, <3>3 DEF TypeOK
    <3>. QED
      BY <1>1, <3>1, <3>2, <3>3, <3>4, <3>5
  <2>. QED
    BY <2>1, <2>2
<1>4. m \in Msg /\ m.dir = d /\ m.frame = n /\ m.part = p
  BY <1>3 DEF Msg, Report
<1>5. /\ trace' \in Seq(Msg) /\ Len(trace) \in Nat /\ Len(trace') = Len(trace) + 1
      /\ \A i \in 1..Len(trace) : trace'[i] = trace[i]
      /\ trace'[Len(trace) + 1] = m
      /\ \A i \in 1..(Len(trace) + 1) : i \in 1..Len(trace) \/ i = Len(trace) + 1
      /\ On(trace') = On(trace) \cup {m}
  <2>. HIDE DEF m
  <2>1. trace \in Seq(Msg)
    BY DEF TypeOK
  <2>. QED
    BY <1>3, <1>4, <2>1, AppendFacts
<1>6. TypeOK'
  BY <1>2, <1>3, <1>5 DEF TypeOK
<1>7. Begun'
  <2>. SUFFICES ASSUME NEW e \in Dirs
                PROVE  IF sizes'[e] = <<>> THEN parts'[e] = 0
                                           ELSE parts'[e] \in 1..sizes'[e][Len(sizes'[e])]
    BY DEF Begun
  <2>1. CASE e = d
    <3>1. sizes'[d] # <<>>
      BY <1>n, <1>3
    <3>. QED
      BY <1>n, <1>p, <1>3, <2>1, <3>1
  <2>2. CASE e # d
    BY <1>2, <2>2 DEF Begun
  <2>. QED
    BY <2>1, <2>2
\* What was logged of the frames before stays logged.
<1>8. \A k \in 1..Len(sizes[d]) : k # n => PartsOf(d, k)' = PartsOf(d, k)
  <2>. SUFFICES ASSUME NEW k \in 1..Len(sizes[d]), k # n
                PROVE  PartsOf(d, k)' = PartsOf(d, k)
    OBVIOUS
  <2>1. PartsOf(d, k)' = sizes'[d][k]
    BY <1>n DEF PartsOf
  <2>2. CASE n = Len(sizes[d]) /\ sizes' = sizes
    BY <2>1, <2>2 DEF PartsOf
  <2>3. CASE /\ n = Len(sizes[d]) + 1 /\ Whole(d)
             /\ \A i \in 1..Len(sizes[d]) : sizes'[d][i] = sizes[d][i]
    <3>1. parts[d] = sizes[d][Len(sizes[d])]
      BY <1>1, <2>3
    <3>. QED
      BY <2>1, <2>3, <3>1 DEF PartsOf
  <2>. QED
    BY <1>3, <2>2, <2>3
<1>9. /\ PartsOf(d, n)' = p
      /\ n = Len(sizes[d]) => PartsOf(d, n) = parts[d] /\ p = parts[d] + 1
      /\ n # Len(sizes[d]) => n = Len(sizes[d]) + 1 /\ p = 1
  BY <1>1, <1>n, <1>p, <1>3 DEF PartsOf
<1>10. \A e \in Dirs : e # d => \A k : PartsOf(e, k)' = PartsOf(e, k)
  BY <1>2 DEF PartsOf
<1>11. ASSUME NEW q \in On(trace)
       PROVE  Logged(q)' /\ (q.dir = d => Before(q, m))
  <2>1. Logged(q) /\ q \in Msg
    BY DEF TraceInv, TypeOK, On
  <2>2. CASE q.dir # d
    BY <1>2, <1>10, <2>1, <2>2 DEF Logged, Msg
  <2>3. CASE q.dir = d /\ q.frame # n
    <3>1. q.frame \in 1..Len(sizes[d]) /\ q.part \in 1..PartsOf(d, q.frame)
      BY <2>1, <2>3 DEF Logged
    <3>2. PartsOf(d, q.frame)' = PartsOf(d, q.frame)
      BY <1>8, <2>3, <3>1
    <3>3. q.frame \in 1..n /\ q.frame < n
      BY <1>1, <1>3, <2>3, <3>1
    <3>. QED
      BY <1>n, <1>4, <2>3, <3>1, <3>2, <3>3 DEF Logged, Before
  <2>4. CASE q.dir = d /\ q.frame = n
    <3>1. n \in 1..Len(sizes[d]) /\ q.part \in 1..PartsOf(d, n)
      BY <2>1, <2>4 DEF Logged
    <3>2. n = Len(sizes[d])
      BY <1>1, <1>3, <3>1
    <3>3. q.part \in 1..p /\ q.part < p
      BY <1>1, <1>9, <3>1, <3>2
    <3>. QED
      BY <1>n, <1>3, <1>4, <1>9, <2>4, <3>3 DEF Logged, Before
  <2>. QED
    BY <2>2, <2>3, <2>4
<1>12. Logged(m)'
  BY <1>n, <1>3, <1>4, <1>9 DEF Logged
<1>13. ASSUME NEW e \in Dirs, NEW k \in 1..Len(sizes'[e]), NEW i \in 1..PartsOf(e, k)'
       PROVE  Report(e, k, i) \in On(trace')
  <2>1. CASE e # d
    BY <1>2, <1>5, <1>10, <1>13, <2>1 DEF TraceInv
  <2>2. CASE e = d /\ k # n
    <3>1. k \in 1..Len(sizes[d])
      BY <1>1, <1>n, <1>3, <1>13, <2>2
    <3>2. i \in 1..PartsOf(d, k)
      BY <1>8, <1>13, <2>2, <3>1
    <3>. QED
      BY <1>5, <2>2, <3>1, <3>2 DEF TraceInv
  <2>3. CASE e = d /\ k = n
    <3>1. i \in 1..p
      BY <1>9, <1>13, <2>3
    <3>2. CASE i = p
      BY <1>5, <2>3, <3>2
    <3>3. CASE i # p
      <4>1. n = Len(sizes[d]) /\ i \in 1..PartsOf(d, n)
        BY <1>1, <1>9, <3>1, <3>3
      <4>2. n \in 1..Len(sizes[d])
        BY <1>1, <1>3, <4>1
      <4>. QED
        BY <1>5, <2>3, <4>1, <4>2 DEF TraceInv
    <3>. QED
      BY <3>2, <3>3
  <2>. QED
    BY <2>1, <2>2, <2>3
<1>14. ASSUME NEW i \in 1..Len(trace'), NEW j \in 1..Len(trace'), i < j,
              trace'[i].dir = trace'[j].dir
       PROVE  Before(trace'[i], trace'[j])
  <2>1. i \in 1..Len(trace) /\ trace'[i] = trace[i]
    BY <1>5, <1>14
  <2>2. CASE j \in 1..Len(trace)
    BY <1>5, <1>14, <2>1, <2>2 DEF TraceInv
  <2>3. CASE j = Len(trace) + 1
    <3>1. trace[i] \in On(trace) /\ trace'[j] = m /\ trace[i].dir = d
      BY <1>4, <1>5, <1>14, <2>1, <2>3 DEF On
    <3>. QED
      BY <1>11, <2>1, <3>1
  <2>. QED
    BY <1>5, <2>2, <2>3
<1>15. TraceInv'
  BY <1>5, <1>11, <1>12, <1>13, <1>14 DEF TraceInv
<1>. QED
  BY <1>6, <1>7, <1>15

-----------------------------------------------------------------------------
(* Dumping. *)

\* c says which frame of each direction is next; of the one that is read, what
\* is in the buffer has been taken.
Due(d) == IF d = dir THEN Len(buf) + 1 ELSE 1
Remains(c, m) == m.frame > c[m.dir] \/ (m.frame = c[m.dir] /\ m.part >= Due(m.dir))
Cursors == [Dirs -> Nat \ {0}]

\* The queue is what remains of the trace, in its order.
Cursor(c) ==
    /\ \A m \in On(queue) : m \in On(trace) /\ Remains(c, m)
    /\ \A m \in On(trace) : Remains(c, m) => m \in On(queue)
    /\ \A d \in Dirs : c[d] <= Len(sizes[d]) + 1
QueueOrder == \A i, j \in 1..Len(queue) : i < j => At(trace, queue[i]) < At(trace, queue[j])

\* The buffer is the beginning of a frame, which began before all that remains
\* and after all that is printed.
Reading(c) ==
    dir # None =>
       /\ c[dir] \in 1..Len(sizes[dir])
       /\ Len(buf) < sizes[dir][c[dir]] /\ Len(buf) <= PartsOf(dir, c[dir])
       /\ \A i \in 1..Len(buf) : buf[i] = Report(dir, c[dir], i)
       /\ buf = <<>> => queue # <<>> /\ Head(queue).dir = dir
       /\ buf # <<>> =>
             /\ \A m \in On(queue) : At(trace, buf[1]) < At(trace, m)
             /\ \A f \in On(printed) : At(trace, f[1]) < At(trace, buf[1])

\* What is printed are the frames before those that are next.
PrintInv(c) ==
    /\ \A f \in On(printed) : \E d \in Dirs : \E n \in 1..(c[d] - 1) : f = FrameOf(d, n)
    /\ \A f \in On(printed), m \in On(queue) : At(trace, f[1]) < At(trace, m)
    /\ \A d \in Dirs : \A n \in 1..(c[d] - 1) : FrameOf(d, n) \in On(printed)
PrintOrder ==
    \A k, l \in 1..Len(printed) : k < l => At(trace, printed[k][1]) < At(trace, printed[l][1])

DumpInv(c) == Cursor(c) /\ Reading(c) /\ PrintInv(c) /\ QueueOrder /\ PrintOrder

LEMMA OnType ==
    ASSUME NEW s \in Seq(Msg), NEW m \in On(s)
    PROVE  /\ m \in Msg /\ m.dir \in Dirs
           /\ m.frame \in Nat /\ m.frame >= 1 /\ m.part \in Nat /\ m.part >= 1
           /\ m = Report(m.dir, m.frame, m.part)
<1>1. m \in Msg
  BY DEF On
<1>. QED
  BY <1>1 DEF Msg, Report

LEMMA AtIs ==
    ASSUME TypeOK, TraceInv, NEW i \in 1..Len(trace)
    PROVE  At(trace, trace[i]) = i
<1>1. trace \in Seq(Msg) /\ trace[i] \in On(trace)
  BY DEF TypeOK, On
<1>2. PICK a \in 1..Len(trace) : a = At(trace, trace[i]) /\ trace[a] = trace[i]
  BY <1>1, AtFacts
<1>3. ~Before(trace[i], trace[i])
  BY <1>1, OnType DEF Before
<1>4. Len(trace) \in Nat /\ trace[a].dir = trace[i].dir
  BY <1>1, <1>2
<1>5. ~(a < i) /\ ~(i < a)
  BY <1>2, <1>3, <1>4 DEF TraceInv
<1>. QED
  BY <1>2, <1>4, <1>5

\* Of two messages of a direction the one that comes first in the trace is the
\* one that was logged first.
LEMMA AtBefore ==
    ASSUME TypeOK, TraceInv, NEW m \in On(trace), NEW q \in On(trace),
           m.dir = q.dir, At(trace, m) < At(trace, q)
    PROVE  Before(m, q)
<1>1. /\ At(trace, m) \in 1..Len(trace) /\ trace[At(trace, m)] = m
      /\ At(trace, q) \in 1..Len(trace) /\ trace[At(trace, q)] = q
  BY AtFacts DEF TypeOK
<1>. QED
  BY <1>1 DEF TraceInv

LEMMA LoggedFacts ==
    ASSUME TypeOK, Begun, TraceInv, NEW d \in Dirs, NEW n \in 1..Len(sizes[d])
    PROVE  /\ PartsOf(d, n) \in Nat /\ 1 <= PartsOf(d, n) /\ PartsOf(d, n) <= sizes[d][n]
           /\ sizes[d][n] \in Nat
           /\ n # Len(sizes[d]) => PartsOf(d, n) = sizes[d][n]
           /\ \A i \in 1..PartsOf(d, n) : Report(d, n, i) \in On(trace)
<1>1. /\ Len(sizes[d]) \in Nat /\ sizes[d] # <<>> /\ parts[d] \in Nat
      /\ sizes[d][n] \in Nat /\ sizes[d][n] >= 1
  BY SizeFacts
<1>2. parts[d] \in 1..sizes[d][Len(sizes[d])]
  BY <1>1 DEF Begun
<1>. QED
  BY <1>1, <1>2 DEF PartsOf, TraceInv

LEMMA LoadStep ==
    ASSUME TypeOK, Begun, TraceInv, Load, dir = None, buf = <<>>, printed = <<>>
    PROVE  TypeOK' /\ \E c \in Cursors : DumpInv(c)'
<1>. DEFINE c == [d \in Dirs |-> 1]
<1>1. /\ UNCHANGED <<sizes, parts, trace, dir, buf, printed>> /\ queue' = trace /\ pc' = "dumping"
      /\ trace \in Seq(Msg) /\ Len(printed) = 0 /\ On(printed) = {}
  BY OnEmpty DEF Load, TypeOK
<1>2. TypeOK'
  BY <1>1 DEF TypeOK, None
<1>3. \A m \in On(trace) : m.dir \in Dirs /\ m.frame \in Nat /\ m.frame >= 1 /\ m.part \in Nat /\ m.part >= 1
  BY <1>1, OnType
<1>4. \A m \in On(trace) : Remains(c, m)'
  <2>1. \A d \in Dirs : Due(d)' = 1 /\ c[d] = 1
    BY <1>1 DEF Due, Dirs, None
  <2>. QED
    BY <1>3, <2>1 DEF Remains
<1>5. \A d \in Dirs : c[d] <= Len(sizes'[d]) + 1
  BY <1>1, SizeFacts
<1>6. Cursor(c)'
  BY <1>1, <1>4, <1>5 DEF Cursor
<1>7. QueueOrder'
  BY <1>1, AtIs DEF QueueOrder
<1>8. \A d \in Dirs : 1..(c[d] - 1) = {}
  OBVIOUS
<1>9. PrintInv(c)' /\ PrintOrder' /\ Reading(c)'
  BY <1>1, <1>8 DEF PrintInv, PrintOrder, Reading
<1>10. c \in Cursors
  BY DEF Cursors
<1>. QED
  BY <1>2, <1>6, <1>7, <1>9, <1>10 DEF DumpInv

LEMMA HeadStep ==
    ASSUME TypeOK, Begun, TraceInv, TakeHead, NEW c \in Cursors, DumpInv(c)
    PROVE  TypeOK' /\ DumpInv(c)'
<1>1. /\ UNCHANGED <<pc, sizes, parts, trace, queue, printed>> /\ buf' = <<>>
      /\ pc = "dumping" /\ dir = None /\ queue # <<>> /\ dir' = Head(queue).dir
      /\ queue \in Seq(Msg) /\ Head(queue) \in Msg
  BY DEF TakeHead, StartFrame, TypeOK
<1>2. PICK d \in Dirs : d = dir' /\ d = Head(queue).dir
  BY <1>1 DEF Msg
<1>3. TypeOK'
  BY <1>1, <1>2 DEF TypeOK
<1>4. \A e \in Dirs : Due(e) = 1 /\ Due(e)' = 1
  BY <1>1, <1>2 DEF Due, Dirs, None
<1>5. \A m \in On(trace) : m.dir \in Dirs
  BY OnType DEF TypeOK
<1>6. \A m \in On(trace) : Remains(c, m)' <=> Remains(c, m)
  BY <1>4, <1>5 DEF Remains
<1>7. Cursor(c)'
  BY <1>1, <1>6 DEF Cursor, DumpInv
<1>8. QueueOrder' /\ PrintInv(c)' /\ PrintOrder'
  BY <1>1 DEF QueueOrder, PrintInv, PrintOrder, DumpInv, FrameOf
<1>9. c[d] \in 1..Len(sizes[d])
  <2>1. Head(queue) \in On(queue)
    <3>1. Len(queue) \in Nat /\ Len(queue) >= 1 /\ Head(queue) = queue[1]
      BY <1>1
    <3>. QED
      BY <3>1 DEF On
  <2>2. Head(queue) \in On(trace) /\ Remains(c, Head(queue)) /\ Logged(Head(queue))
    BY <2>1 DEF DumpInv, Cursor, TraceInv
  <2>3. Head(queue).frame \in 1..Len(sizes[d]) /\ c[d] \in Nat /\ c[d] >= 1 /\ Len(sizes[d]) \in Nat
    BY <1>2, <2>2, SizeFacts DEF Logged, Cursors
  <2>4. c[d] <= Head(queue).frame
    BY <1>1, <1>2, <2>2, <2>3 DEF Remains
  <2>. QED
    BY <2>3, <2>4
<1>10. 0 < sizes[d][c[d]] /\ 0 <= PartsOf(d, c[d])
  BY <1>9, LoggedFacts
<1>11. Len(buf') = 0 /\ PartsOf(d, c[d])' = PartsOf(d, c[d])
  BY <1>1 DEF PartsOf
<1>12. Reading(c)'
  BY <1>1, <1>2, <1>9, <1>10, <1>11 DEF Reading
<1>. QED
  BY <1>3, <1>7, <1>8, <1>12 DEF DumpInv

\* The report that is read is the next part of the frame that is read.
LEMMA NextPart ==
    ASSUME TypeOK, Begun, TraceInv, ReadReport, NEW c \in Cursors, DumpInv(c)
    PROVE  \E d \in Dirs, n \in Nat \ {0}, b \in Nat, k \in 1..Len(queue) :
              /\ d = dir /\ n = c[d] /\ b = Len(buf) /\ queue[k] = Report(d, n, b + 1)
              /\ b = 0 => k = 1
              /\ queue' = RemoveAt(queue, k) /\ buf' = Append(buf, queue[k])
              /\ IF b + 1 = sizes[d][n] THEN printed' = Append(printed, buf') /\ dir' = None
                                       ELSE UNCHANGED <<printed, dir>>
              /\ n \in 1..Len(sizes[d]) /\ b < sizes[d][n] /\ b + 1 <= PartsOf(d, n)
<1>1. /\ dir # None /\ dir \in Dirs /\ FirstOf(dir) # 0 /\ queue \in Seq(Msg) /\ buf \in Seq(Msg)
      /\ trace \in Seq(Msg)
      /\ queue' = RemoveAt(queue, FirstOf(dir)) /\ buf' = Accumulate(queue[FirstOf(dir)])
      /\ IF EndsFrame(queue[FirstOf(dir)])
         THEN printed' = Append(printed, buf') /\ dir' = None
         ELSE UNCHANGED <<printed, dir>>
  BY DEF ReadReport, TypeOK
<1>2. PICK d \in Dirs : d = dir
  BY <1>1
<1>3. PICK k : k = FirstOf(d)
  OBVIOUS
<1>4. /\ k \in 1..Len(queue) /\ queue[k].dir = d
      /\ \A j \in 1..Len(queue) : queue[j].dir = d => k <= j
  BY <1>1, <1>2, <1>3, FirstOfFacts
<1>5. PICK n \in Nat \ {0} : n = c[d]
  BY DEF Cursors
<1>6. PICK b \in Nat : b = Len(buf)
  BY <1>1
<1>7. /\ n \in 1..Len(sizes[d]) /\ b < sizes[d][n] /\ b <= PartsOf(d, n)
      /\ buf = <<>> => queue # <<>> /\ Head(queue).dir = d
  BY <1>1, <1>2, <1>5, <1>6 DEF DumpInv, Reading
<1>8. /\ PartsOf(d, n) \in Nat /\ sizes[d][n] \in Nat /\ PartsOf(d, n) <= sizes[d][n]
      /\ n # Len(sizes[d]) => PartsOf(d, n) = sizes[d][n]
      /\ \A i \in 1..PartsOf(d, n) : Report(d, n, i) \in On(trace)
      /\ Len(sizes[d]) \in Nat
  BY <1>7, LoggedFacts, SizeFacts
<1>9. PICK m : m = queue[k]
  OBVIOUS
<1>10. m \in On(queue) /\ m \in On(trace) /\ Remains(c, m) /\ Logged(m)
  BY <1>4, <1>9 DEF On, DumpInv, Cursor, TraceInv
<1>11. /\ m.dir = d /\ m.frame \in Nat /\ m.part \in Nat /\ m = Report(d, m.frame, m.part)
  BY <1>1, <1>4, <1>9, <1>10, OnType
<1>12. Due(d) = b + 1
  BY <1>2, <1>6 DEF Due
<1>13. m.frame > n \/ (m.frame = n /\ m.part >= b + 1)
  BY <1>5, <1>10, <1>11, <1>12 DEF Remains
<1>14. b + 1 \in 1..PartsOf(d, n)
  <2>1. CASE n # Len(sizes[d])
    BY <1>7, <1>8, <2>1
  <2>2. CASE n = Len(sizes[d])
    <3>1. m.frame <= Len(sizes[d]) /\ m.part \in 1..PartsOf(d, m.frame)
      BY <1>8, <1>10, <1>11 DEF Logged
    <3>2. m.frame = n
      BY <1>8, <1>11, <1>13, <2>2, <3>1
    <3>. QED
      BY <1>8, <1>11, <1>13, <3>1, <3>2
  <2>. QED
    BY <2>1, <2>2
<1>15. PICK r : r = Report(d, n, b + 1)
  OBVIOUS
<1>16. r.dir = d /\ r.frame = n /\ r.part = b + 1
  BY <1>15 DEF Report
<1>17. r \in On(trace) /\ Remains(c, r)
  BY <1>5, <1>8, <1>12, <1>14, <1>15, <1>16 DEF Remains
<1>18. r \in On(queue)
  BY <1>17 DEF DumpInv, Cursor
<1>19. PICK j \in 1..Len(queue) : queue[j] = r
  BY <1>18 DEF On
<1>20. m = r
  <2>1. k <= j
    BY <1>4, <1>16, <1>19
  <2>2. ASSUME k < j PROVE FALSE
    <3>1. At(trace, m) < At(trace, r)
      BY <1>4, <1>9, <1>19, <2>2 DEF DumpInv, QueueOrder
    <3>2. Before(m, r)
      BY <1>10, <1>11, <1>16, <1>17, <3>1, AtBefore
    <3>. QED
      BY <1>11, <1>13, <1>16, <3>2 DEF Before
  <2>3. k \in Nat /\ j \in Nat
    BY <1>4, <1>19
  <2>4. k = j
    BY <2>1, <2>2, <2>3
  <2>. QED
    BY <1>9, <1>19, <2>4
<1>21. EndsFrame(m) <=> b + 1 = sizes[d][n]
  <2>1. m.dir = d /\ m.frame = n /\ m.part = b + 1
    BY <1>16, <1>20
  <2>. QED
    BY <2>1 DEF EndsFrame
<1>22. b = 0 => buf = <<>>
  <2>1. buf \in Seq(Msg)
    BY <1>1
  <2>2. Len(buf) = 0 => buf = <<>>
    BY <2>1
  <2>. QED
    BY <1>6, <2>2
<1>23. buf' = Append(buf, m)
  <2>1. CASE b = 0
    <3>1. buf' = <<m>>
      BY <1>1, <1>2, <1>3, <1>9, <1>16, <1>20, <2>1 DEF Accumulate
    <3>. QED
      BY <1>22, <2>1, <3>1
  <2>2. CASE b # 0
    BY <1>1, <1>2, <1>3, <1>9, <1>16, <1>20, <2>2 DEF Accumulate
  <2>. QED
    BY <2>1, <2>2
<1>24. b = 0 => k = 1
  <2>. SUFFICES ASSUME b = 0 PROVE k = 1
    OBVIOUS
  <2>1. queue # <<>> /\ Head(queue).dir = d
    BY <1>7, <1>22
  <2>2. Len(queue) >= 1 /\ Head(queue) = queue[1] /\ Len(queue) \in Nat
    BY <1>1, <2>1
  <2>3. k <= 1
    BY <1>4, <2>1, <2>2
  <2>. QED
    BY <1>4, <2>2, <2>3
<1>25. /\ d = dir /\ n = c[d] /\ b = Len(buf) /\ queue[k] = Report(d, n, b + 1)
       /\ b = 0 => k = 1
       /\ queue' = RemoveAt(queue, k) /\ buf' = Append(buf, queue[k])
  BY <1>1, <1>2, <1>3, <1>5, <1>6, <1>9, <1>15, <1>20, <1>23, <1>24
<1>26. IF b + 1 = sizes[d][n] THEN printed' = Append(printed, buf') /\ dir' = None
                              ELSE UNCHANGED <<printed, dir>>
  BY <1>1, <1>2, <1>3, <1>9, <1>21
<1>27. n \in 1..Len(sizes[d]) /\ b < sizes[d][n] /\ b + 1 <= PartsOf(d, n)
  BY <1>7, <1>8, <1>14
<1>. QED
  BY <1>4, <1>25, <1>26, <1>27

\* What is taken out of the queue leaves the rest in its order.
LEMMA QueueWithout ==
    ASSUME TypeOK, QueueOrder, \A q \in On(queue) : q \in On(trace),
           NEW k \in 1..Len(queue), queue' = RemoveAt(queue, k), UNCHANGED trace
    PROVE  /\ queue' \in Seq(Msg) /\ QueueOrder'
           /\ On(queue') = On(queue) \ {queue[k]}
           /\ k = 1 => \A q \in On(queue') : At(trace, queue[1]) < At(trace, q)
<1>1. queue \in Seq(Msg) /\ trace \in Seq(Msg)
  BY DEF TypeOK
<1>2. /\ queue' \in Seq(Msg) /\ Len(queue) \in Nat /\ Len(queue') = Len(queue) - 1
      /\ \A i \in 1..(Len(queue) - 1) :
            queue'[i] = IF i < k THEN queue[i] ELSE queue[i + 1]
  BY <1>1, RemoveFacts
<1>3. k \in Nat /\ k >= 1 /\ k <= Len(queue)
  BY <1>2
<1>4. \A i \in 1..Len(queue) : At(trace, queue[i]) \in Nat
  BY <1>1, AtFacts DEF On
\* Where a message of the new queue was.
<1>. DEFINE old(i) == IF i < k THEN i ELSE i + 1
<1>5. \A i \in 1..Len(queue') : old(i) \in 1..Len(queue) /\ old(i) # k /\ queue'[i] = queue[old(i)]
  BY <1>2, <1>3
<1>6. \A i, j \in 1..Len(queue') : i < j => old(i) < old(j)
  BY <1>2, <1>3
<1>7. \A j \in 1..Len(queue) : j # k => \E i \in 1..Len(queue') : old(i) = j
  <2>. SUFFICES ASSUME NEW j \in 1..Len(queue), j # k
                PROVE  \E i \in 1..Len(queue') : old(i) = j
    OBVIOUS
  <2>1. CASE j < k
    BY <1>2, <1>3, <2>1
  <2>2. CASE j > k
    <3>1. j - 1 \in 1..Len(queue') /\ old(j - 1) = j
      BY <1>2, <1>3, <2>2
    <3>. QED
      BY <3>1
  <2>. QED
    BY <1>3, <2>1, <2>2
<1>. HIDE DEF old
<1>8. QueueOrder'
  <2>. SUFFICES ASSUME NEW i \in 1..Len(queue'), NEW j \in 1..Len(queue'), i < j
                PROVE  At(trace, queue'[i]) < At(trace, queue'[j])
    BY DEF QueueOrder
  <2>. QED
    BY <1>5, <1>6 DEF QueueOrder
<1>9. \A j \in 1..Len(queue) : j # k => queue[j] # queue[k]
  <2>. SUFFICES ASSUME NEW j \in 1..Len(queue), j # k, queue[j] = queue[k] PROVE FALSE
    OBVIOUS
  <2>1. j < k \/ k < j
    BY <1>2, <1>3
  <2>2. At(trace, queue[j]) < At(trace, queue[k]) \/ At(trace, queue[k]) < At(trace, queue[j])
    BY <2>1 DEF QueueOrder
  <2>. QED
    BY <1>4, <2>2
<1>10. On(queue') \subseteq On(queue) \ {queue[k]}
  BY <1>5, <1>9 DEF On
<1>11. On(queue) \ {queue[k]} \subseteq On(queue')
  BY <1>5, <1>7 DEF On
<1>12. ASSUME k = 1, NEW q \in On(queue')
       PROVE  At(trace, queue[1]) < At(trace, q)
  <2>1. PICK j \in 1..Len(queue) : q = queue[j] /\ j # k
    BY <1>5 DEF On
  <2>2. 1 < j
    BY <1>12, <2>1
  <2>. QED
    BY <1>12, <2>1, <2>2 DEF QueueOrder
<1>. QED
  BY <1>2, <1>8, <1>10, <1>11, <1>12

LEMMA ReadStep ==
    ASSUME TypeOK, Begun, TraceInv, ReadReport, NEW c \in Cursors, DumpInv(c)
    PROVE  TypeOK' /\ \E cc \in Cursors : DumpInv(cc)'
<1>1. PICK d \in Dirs, n \in Nat \ {0}, b \in Nat, k \in 1..Len(queue) :
              /\ d = dir /\ n = c[d] /\ b = Len(buf) /\ queue[k] = Report(d, n, b + 1)
              /\ b = 0 => k = 1
              /\ queue' = RemoveAt(queue, k) /\ buf' = Append(buf, queue[k])
              /\ IF b + 1 = sizes[d][n] THEN printed' = Append(printed, buf') /\ dir' = None
                                       ELSE UNCHANGED <<printed, dir>>
              /\ n \in 1..Len(sizes[d]) /\ b < sizes[d][n] /\ b + 1 <= PartsOf(d, n)
  BY NextPart
<1>2. /\ UNCHANGED <<pc, sizes, parts, trace>> /\ d # None /\ pc = "dumping"
      /\ queue \in Seq(Msg) /\ buf \in Seq(Msg) /\ trace \in Seq(Msg) /\ printed \in Seq(Seq(Msg))
  BY <1>1 DEF ReadReport, TypeOK
<1>3. PICK m : m = queue[k]
  OBVIOUS
<1>4. m = Report(d, n, b + 1) /\ m \in On(queue) /\ m \in Msg
      /\ m.dir = d /\ m.frame = n /\ m.part = b + 1
  <2>1. m \in On(queue) /\ m = Report(d, n, b + 1)
    BY <1>1, <1>3 DEF On
  <2>2. m \in Msg
    BY <1>2, <2>1, OnType
  <2>. QED
    BY <2>1, <2>2 DEF Report
<1>5. /\ queue' \in Seq(Msg) /\ QueueOrder'
      /\ On(queue') = On(queue) \ {m}
      /\ k = 1 => \A q \in On(queue') : At(trace, m) < At(trace, q)
  <2>1. QueueOrder /\ (\A q \in On(queue) : q \in On(trace)) /\ UNCHANGED trace
        /\ queue' = RemoveAt(queue, k)
    BY <1>1, <1>2 DEF DumpInv, Cursor
  <2>2. k = 1 => queue[1] = m
    BY <1>3
  <2>3. /\ queue' \in Seq(Msg) /\ QueueOrder' /\ On(queue') = On(queue) \ {queue[k]}
        /\ k = 1 => \A q \in On(queue') : At(trace, queue[1]) < At(trace, q)
    BY <2>1, QueueWithout
  <2>. QED
    BY <1>3, <2>2, <2>3
<1>6. /\ buf' \in Seq(Msg) /\ Len(buf') = b + 1
      /\ \A i \in 1..b : buf'[i] = buf[i]
      /\ buf'[b + 1] = m
      /\ \A i \in 1..(b + 1) : i \in 1..b \/ i = b + 1
  <2>1. buf' = Append(buf, m) /\ b = Len(buf)
    BY <1>1, <1>3
  <2>2. buf \in Seq(Msg) /\ m \in Msg
    BY <1>2, <1>4
  <2>. QED
    BY <2>1, <2>2, AppendFacts
<1>7. \A i \in 1..(b + 1) : buf'[i] = Report(d, n, i)
  <2>1. \A i \in 1..b : buf[i] = Report(d, n, i)
    BY <1>1, <1>2 DEF DumpInv, Reading
  <2>. QED
    BY <1>4, <1>6, <2>1
<1>8. /\ PartsOf(d, n) \in Nat /\ PartsOf(d, n) <= sizes[d][n] /\ sizes[d][n] \in Nat
      /\ Len(sizes[d]) \in Nat
  BY <1>1, LoggedFacts, SizeFacts
\* The frame that is read begins before what remains and after what is printed.
<1>9. /\ \A q \in On(queue') : At(trace, buf'[1]) < At(trace, q)
      /\ \A f \in On(printed) : At(trace, f[1]) < At(trace, buf'[1])
  <2>1. CASE b = 0
    <3>1. buf'[1] = m /\ k = 1
      BY <1>1, <1>6, <2>1
    <3>2. \A f \in On(printed) : At(trace, f[1]) < At(trace, m)
      BY <1>4 DEF DumpInv, PrintInv
    <3>. QED
      BY <1>5, <3>1, <3>2
  <2>2. CASE b # 0
    <3>1. buf'[1] = buf[1] /\ buf # <<>>
      BY <1>1, <1>2, <1>6, <2>2
    <3>2. /\ \A q \in On(queue) : At(trace, buf[1]) < At(trace, q)
          /\ \A f \in On(printed) : At(trace, f[1]) < At(trace, buf[1])
      BY <1>1, <1>2, <3>1 DEF DumpInv, Reading
    <3>. QED
      BY <1>5, <3>1, <3>2
  <2>. QED
    BY <2>1, <2>2
<1>10. /\ \A q \in On(queue) : q \in On(trace) /\ Remains(c, q)
       /\ \A q \in On(trace) : Remains(c, q) => q \in On(queue)
       /\ \A e \in Dirs : c[e] <= Len(sizes[e]) + 1 /\ c[e] \in Nat \ {0}
  BY DEF DumpInv, Cursor, Cursors
<1>11. \A q \in On(trace) :
          /\ q.dir \in Dirs /\ q.frame \in Nat /\ q.part \in Nat /\ q.part >= 1
          /\ q = Report(q.dir, q.frame, q.part)
          /\ q.part <= PartsOf(q.dir, q.frame)
  <2>. SUFFICES ASSUME NEW q \in On(trace)
                PROVE  /\ q.dir \in Dirs /\ q.frame \in Nat /\ q.part \in Nat /\ q.part >= 1
                       /\ q = Report(q.dir, q.frame, q.part)
                       /\ q.part <= PartsOf(q.dir, q.frame)
    OBVIOUS
  <2>1. /\ q.dir \in Dirs /\ q.frame \in Nat /\ q.part \in Nat /\ q.part >= 1
        /\ q = Report(q.dir, q.frame, q.part)
    BY <1>2, OnType
  <2>2. q.frame \in 1..Len(sizes[q.dir]) /\ q.part \in 1..PartsOf(q.dir, q.frame)
    BY DEF TraceInv, Logged
  <2>3. PartsOf(q.dir, q.frame) \in Nat
    BY <2>1, <2>2, LoggedFacts
  <2>. QED
    BY <2>1, <2>2, <2>3
<1>12. /\ \A e \in Dirs : \A j : FrameOf(e, j)' = FrameOf(e, j) /\ PartsOf(e, j)' = PartsOf(e, j)
       /\ Due(d) = b + 1 /\ \A e \in Dirs : e # d => Due(e) = 1
  BY <1>1, <1>2 DEF FrameOf, PartsOf, Due
<1>13. /\ \A f \in On(printed) : \E e \in Dirs : \E j \in 1..(c[e] - 1) : f = FrameOf(e, j)
       /\ \A f \in On(printed), q \in On(queue) : At(trace, f[1]) < At(trace, q)
       /\ \A e \in Dirs : \A j \in 1..(c[e] - 1) : FrameOf(e, j) \in On(printed)
  BY DEF DumpInv, PrintInv
<1>14. CASE b + 1 # sizes[d][n]
  <2>1. printed' = printed /\ dir' = d /\ dir = d
    BY <1>1, <1>14
  <2>2. TypeOK'
    BY <1>2, <1>5, <1>6, <2>1 DEF TypeOK
  <2>3. Due(d)' = b + 2 /\ \A e \in Dirs : e # d => Due(e)' = 1
    BY <1>6, <2>1 DEF Due
  <2>4. ASSUME NEW q \in On(trace)
        PROVE  Remains(c, q)' <=> Remains(c, q) /\ q # m
    <3>1. CASE q.dir # d
      BY <1>4, <1>11, <1>12, <2>3, <3>1 DEF Remains
    <3>2. CASE q.dir = d
      <4>1. Remains(c, q) <=> q.frame > n \/ (q.frame = n /\ q.part >= b + 1)
        BY <1>1, <1>12, <3>2 DEF Remains
      <4>2. Remains(c, q)' <=> q.frame > n \/ (q.frame = n /\ q.part >= b + 2)
        BY <1>1, <2>3, <3>2 DEF Remains
      <4>3. q = m <=> q.frame = n /\ q.part = b + 1
        BY <1>4, <1>11, <3>2
      <4>. QED
        BY <1>11, <4>1, <4>2, <4>3
    <3>. QED
      BY <3>1, <3>2
  <2>5. Cursor(c)'
    <3>1. /\ \A q \in On(queue') : q \in On(trace') /\ Remains(c, q)'
          /\ \A q \in On(trace') : Remains(c, q)' => q \in On(queue')
      BY <1>2, <1>5, <1>10, <2>4
    <3>. QED
      BY <1>2, <1>10, <3>1 DEF Cursor
  <2>6. Reading(c)'
    <3>1. /\ c[d] \in 1..Len(sizes[d]) /\ b + 1 < sizes[d][c[d]] /\ b + 1 <= PartsOf(d, c[d])'
      BY <1>1, <1>8, <1>12, <1>14
    <3>2. buf' # <<>>
      BY <1>6
    <3>3. \A i \in 1..Len(buf') : buf'[i] = Report(d, c[d], i)
      BY <1>1, <1>6, <1>7
    <3>4. /\ \A q \in On(queue') : At(trace', buf'[1]) < At(trace', q)
          /\ \A f \in On(printed') : At(trace', f[1]) < At(trace', buf'[1])
      BY <1>2, <1>9, <2>1
    <3>. QED
      BY <1>2, <1>6, <2>1, <3>1, <3>2, <3>3, <3>4 DEF Reading
  <2>7. PrintInv(c)' /\ PrintOrder'
    <3>1. PrintOrder'
      BY <1>2, <2>1 DEF DumpInv, PrintOrder
    <3>2. PrintInv(c)'
      BY <1>2, <1>5, <1>12, <1>13, <2>1 DEF PrintInv
    <3>. QED
      BY <3>1, <3>2
  <2>. QED
    BY <1>5, <2>2, <2>5, <2>6, <2>7 DEF DumpInv
<1>15. CASE b + 1 = sizes[d][n]
  <2>1. printed' = Append(printed, buf') /\ dir' = None
    BY <1>1, <1>15
  <2>2. PICK cc : cc = [c EXCEPT ![d] = n + 1]
    OBVIOUS
  <2>3. /\ cc \in Cursors /\ cc[d] = n + 1 /\ cc[d] - 1 = n
        /\ \A e \in Dirs : e # d => cc[e] = c[e]
    BY <2>2 DEF Cursors
  <2>4. /\ printed' \in Seq(Seq(Msg)) /\ Len(printed) \in Nat /\ Len(printed') = Len(printed) + 1
        /\ \A i \in 1..Len(printed) : printed'[i] = printed[i]
        /\ printed'[Len(printed) + 1] = buf'
        /\ \A i \in 1..(Len(printed) + 1) : i \in 1..Len(printed) \/ i = Len(printed) + 1
        /\ On(printed') = On(printed) \cup {buf'}
    <3>1. PICK g \in Seq(Msg) : g = buf'
      BY <1>6
    <3>2. printed' = Append(printed, g)
      BY <2>1, <3>1
    <3>. QED
      BY <1>2, <3>1, <3>2, AppendFacts
  <2>5. TypeOK'
    BY <1>2, <1>5, <1>6, <2>1, <2>4 DEF TypeOK
  <2>6. \A e \in Dirs : Due(e)' = 1
    BY <2>1 DEF Due, Dirs, None
  <2>7. ASSUME NEW q \in On(trace)
        PROVE  Remains(cc, q)' <=> Remains(c, q) /\ q # m
    <3>1. CASE q.dir # d
      BY <1>4, <1>11, <1>12, <2>3, <2>6, <3>1 DEF Remains
    <3>2. CASE q.dir = d
      <4>1. Remains(c, q) <=> q.frame > n \/ (q.frame = n /\ q.part >= b + 1)
        BY <1>1, <1>12, <3>2 DEF Remains
      <4>2. Remains(cc, q)' <=> q.frame > n + 1 \/ (q.frame = n + 1 /\ q.part >= 1)
        BY <1>1, <2>3, <2>6, <3>2 DEF Remains
      <4>3. q = m <=> q.frame = n /\ q.part = b + 1
        BY <1>4, <1>11, <3>2
      <4>4. q.frame = n => q.part <= b + 1
        BY <1>8, <1>11, <1>15, <3>2
      <4>. QED
        BY <1>11, <4>1, <4>2, <4>3, <4>4
    <3>. QED
      BY <3>1, <3>2
  <2>8. Cursor(cc)'
    <3>1. /\ \A q \in On(queue') : q \in On(trace') /\ Remains(cc, q)'
          /\ \A q \in On(trace') : Remains(cc, q)' => q \in On(queue')
      BY <1>2, <1>5, <1>10, <2>7
    <3>2. ASSUME NEW e \in Dirs PROVE cc[e] <= Len(sizes[e]) + 1
      <4>1. n + 1 <= Len(sizes[d]) + 1
        BY <1>1, <1>8
      <4>2. CASE e = d
        BY <2>3, <4>1, <4>2
      <4>3. CASE e # d
        BY <1>10, <2>3, <4>3
      <4>. QED
        BY <4>2, <4>3
    <3>. QED
      BY <1>2, <3>1, <3>2 DEF Cursor
  <2>9. Reading(cc)'
    BY <2>1 DEF Reading
  <2>10. buf' = FrameOf(d, n)
    <3>1. /\ buf' = [i \in 1..Len(buf') |-> buf'[i]]
      BY <1>6
    <3>2. FrameOf(d, n) = [i \in 1..(b + 1) |-> Report(d, n, i)]
      BY <1>15 DEF FrameOf, Report
    <3>. QED
      BY <1>6, <1>7, <3>1, <3>2
  <2>11. PrintInv(cc)'
    <3>1. ASSUME NEW f \in On(printed')
          PROVE  \E e \in Dirs : \E j \in 1..(cc[e] - 1) : f = FrameOf(e, j)'
      <4>1. CASE f = buf'
        <5>1. n \in 1..(cc[d] - 1)
          BY <2>3
        <5>. QED
          BY <1>12, <2>10, <4>1, <5>1
      <4>2. CASE f \in On(printed)
        <5>1. PICK e \in Dirs : \E j \in 1..(c[e] - 1) : f = FrameOf(e, j)
          BY <1>13, <4>2
        <5>2. PICK j \in 1..(c[e] - 1) : f = FrameOf(e, j)
          BY <5>1
        <5>3. j \in 1..(cc[e] - 1)
          <6>1. CASE e = d
            <7>1. j \in 1..(n - 1)
              BY <1>1, <6>1
            <7>. QED
              BY <2>3, <6>1, <7>1
          <6>2. CASE e # d
            BY <2>3, <6>2
          <6>. QED
            BY <6>1, <6>2
        <5>. QED
          BY <1>12, <5>2, <5>3
      <4>. QED
        BY <2>4, <4>1, <4>2
    <3>2. ASSUME NEW f \in On(printed'), NEW q \in On(queue')
          PROVE  At(trace', f[1]) < At(trace', q)
      <4>1. At(trace', f[1]) = At(trace, f[1]) /\ At(trace', q) = At(trace, q)
        BY <1>2
      <4>. QED
        BY <1>5, <1>9, <1>13, <2>4, <4>1
    <3>3. ASSUME NEW e \in Dirs, NEW j \in 1..(cc[e] - 1)
          PROVE  FrameOf(e, j)' \in On(printed')
      <4>1. CASE e = d /\ j = n
        BY <1>12, <2>4, <2>10, <4>1
      <4>2. CASE ~(e = d /\ j = n)
        <5>1. j \in 1..(c[e] - 1)
          BY <1>1, <1>10, <2>3, <4>2
        <5>. QED
          BY <1>12, <1>13, <2>4, <5>1
      <4>. QED
        BY <4>1, <4>2
    <3>. QED
      BY <3>1, <3>2, <3>3 DEF PrintInv
  <2>12. PrintOrder'
    <3>. SUFFICES ASSUME NEW i \in 1..Len(printed'), NEW j \in 1..Len(printed'), i < j
                  PROVE  At(trace, printed'[i][1]) < At(trace, printed'[j][1])
      BY <1>2 DEF PrintOrder
    <3>1. i \in 1..Len(printed) /\ printed'[i] = printed[i]
      BY <2>4
    <3>2. CASE j \in 1..Len(printed)
      BY <2>4, <3>1, <3>2 DEF DumpInv, PrintOrder
    <3>3. CASE j = Len(printed) + 1
      <4>1. printed[i] \in On(printed)
        BY <3>1 DEF On
      <4>. QED
        BY <1>9, <2>4, <3>1, <3>3, <4>1
    <3>. QED
      BY <2>4, <3>2, <3>3
  <2>. QED
    BY <1>5, <2>3, <2>5, <2>8, <2>9, <2>11, <2>12 DEF DumpInv
<1>. QED
  BY <1>14, <1>15

-----------------------------------------------------------------------------
(* What was shown. *)

LEMMA FrameBegins ==
    ASSUME TypeOK, NEW d \in Dirs, NEW n \in 1..Len(sizes[d])
    PROVE  /\ FrameOf(d, n)[1] = Report(d, n, 1)
           /\ FrameOf(d, n)[1].dir = d /\ FrameOf(d, n)[1].frame = n
           /\ Begins(d, n) = At(trace, Report(d, n, 1))
<1>1. 1 \in 1..sizes[d][n]
  BY SizeFacts
<1>2. FrameOf(d, n)[1] = Report(d, n, 1)
  BY <1>1 DEF FrameOf, Report
<1>3. Begins(d, n) = At(trace, Report(d, n, 1))
  BY DEF Begins, At, Report
<1>. QED
  BY <1>2, <1>3 DEF Report

LEMMA InOrder ==
    ASSUME TypeOK, NEW c \in Cursors, DumpInv(c)
    PROVE  PrintedInOrder
<1>1. DOMAIN printed = 1..Len(printed)
  BY DEF TypeOK
<1>2. ASSUME NEW k \in 1..Len(printed)
      PROVE  /\ printed[k] = FrameOf(printed[k][1].dir, printed[k][1].frame)
             /\ Begins(printed[k][1].dir, printed[k][1].frame) = At(trace, printed[k][1])
  <2>1. printed[k] \in On(printed)
    BY DEF On
  <2>2. PICK d \in Dirs : \E n \in 1..(c[d] - 1) : printed[k] = FrameOf(d, n)
    BY <2>1 DEF DumpInv, PrintInv
  <2>3. PICK n \in 1..(c[d] - 1) : printed[k] = FrameOf(d, n)
    BY <2>2
  <2>4. n \in 1..Len(sizes[d])
    <3>1. c[d] \in Nat /\ c[d] <= Len(sizes[d]) + 1 /\ Len(sizes[d]) \in Nat
      BY SizeFacts DEF Cursors, DumpInv, Cursor
    <3>. QED
      BY <3>1
  <2>. QED
    BY <2>3, <2>4, FrameBegins
<1>3. \A k, l \in 1..Len(printed) : k < l => At(trace, printed[k][1]) < At(trace, printed[l][1])
  BY DEF DumpInv, PrintOrder
<1>. QED
  BY <1>1, <1>2, <1>3 DEF PrintedInOrder

\* The reader stops at a frame that the trace cuts off, which began before
\* anything that remains.
LEMMA StopsAtCut ==
    ASSUME TypeOK, Begun, TraceInv, ReadEOF, NEW c \in Cursors, DumpInv(c)
    PROVE  \E e \in Dirs :
              /\ e = dir /\ c[e] = Len(sizes[e]) /\ ~Whole(e)
              /\ Begins(e, Len(sizes[e])) \in CutAt /\ Begins(e, Len(sizes[e])) \in Nat
              /\ \A m \in On(queue) : Begins(e, Len(sizes[e])) < At(trace, m)
<1>1. dir # None /\ dir \in Dirs /\ FirstOf(dir) = 0 /\ queue \in Seq(Msg) /\ buf \in Seq(Msg)
      /\ trace \in Seq(Msg)
  BY DEF ReadEOF, TypeOK
<1>2. PICK e \in Dirs : e = dir
  BY <1>1
<1>3. \A m \in On(queue) : m.dir # e
  BY <1>1, <1>2, FirstOfFacts
<1>4. PICK n \in Nat \ {0} : n = c[e]
  BY DEF Cursors
<1>5. PICK b \in Nat : b = Len(buf)
  BY <1>1
<1>6. /\ n \in 1..Len(sizes[e]) /\ b < sizes[e][n] /\ b <= PartsOf(e, n)
      /\ \A i \in 1..b : buf[i] = Report(e, n, i)
      /\ buf # <<>> => \A m \in On(queue) : At(trace, buf[1]) < At(trace, m)
  BY <1>1, <1>2, <1>4, <1>5 DEF DumpInv, Reading
<1>7. /\ PartsOf(e, n) \in Nat /\ 1 <= PartsOf(e, n) /\ sizes[e][n] \in Nat
      /\ n # Len(sizes[e]) => PartsOf(e, n) = sizes[e][n]
      /\ \A i \in 1..PartsOf(e, n) : Report(e, n, i) \in On(trace)
  BY <1>6, LoggedFacts
<1>8. b = PartsOf(e, n)
  <2>. SUFFICES ASSUME b + 1 <= PartsOf(e, n) PROVE FALSE
    BY <1>6, <1>7
  <2>1. PICK r : r = Report(e, n, b + 1)
    OBVIOUS
  <2>2. r \in On(trace) /\ r.dir = e /\ r.frame = n /\ r.part = b + 1
    BY <1>7, <2>1 DEF Report
  <2>3. Due(e) = b + 1
    BY <1>2, <1>5 DEF Due
  <2>4. Remains(c, r)
    BY <1>4, <2>2, <2>3 DEF Remains
  <2>5. r \in On(queue)
    BY <2>2, <2>4 DEF DumpInv, Cursor
  <2>. QED
    BY <1>3, <2>2, <2>5
<1>9. n = Len(sizes[e]) /\ ~Whole(e)
  <2>1. n = Len(sizes[e])
    BY <1>6, <1>7, <1>8
  <2>2. parts[e] = b /\ parts[e] # sizes[e][Len(sizes[e])] /\ sizes[e] # <<>>
    BY <1>6, <1>7, <1>8, <2>1, SizeFacts DEF PartsOf
  <2>. QED
    BY <2>1, <2>2, SizeFacts
<1>10. buf # <<>> /\ buf[1] = Report(e, n, 1)
  <2>1. b >= 1
    BY <1>7, <1>8
  <2>2. buf # <<>>
    BY <1>5, <2>1
  <2>. QED
    BY <1>6, <2>1, <2>2
<1>11. Begins(e, n) = At(trace, buf[1])
  BY <1>6, <1>10, FrameBegins
<1>12. Begins(e, n) \in CutAt
  BY <1>9 DEF CutAt
<1>13. Begins(e, n) \in Nat
  <2>1. Report(e, n, 1) \in On(trace)
    BY <1>7
  <2>2. At(trace, Report(e, n, 1)) \in 1..Len(trace)
    BY <1>1, <2>1, AtFacts
  <2>. QED
    BY <1>10, <1>11, <2>2
<1>. QED
  BY <1>2, <1>4, <1>6, <1>9, <1>10, <1>11, <1>12, <1>13

LEMMA NothingIsLeft ==
    ASSUME TypeOK, Begun, TraceInv, ReadEOF \/ NoHead, NEW c \in Cursors, DumpInv(c),
           NEW d \in Dirs, NEW n \in 1..Len(sizes[d]), Complete(d, n),
           \A at \in CutAt : Begins(d, n) < at
    PROVE  FrameOf(d, n) \in On(printed)
<1>1. c[d] \in Nat /\ c[d] >= 1 /\ Len(sizes[d]) \in Nat /\ n \in Nat /\ n >= 1
      /\ trace \in Seq(Msg)
  BY SizeFacts DEF Cursors, TypeOK
<1>2. CASE n < c[d]
  <2>1. n \in 1..(c[d] - 1)
    BY <1>1, <1>2
  <2>. QED
    BY <2>1 DEF DumpInv, PrintInv
<1>3. CASE n >= c[d]
  <2>1. PICK r : r = Report(d, n, 1)
    OBVIOUS
  <2>2. r.dir = d /\ r.frame = n /\ r.part = 1
    BY <2>1 DEF Report
  <2>3. r \in On(trace)
    <3>1. 1 \in 1..PartsOf(d, n)
      BY LoggedFacts
    <3>. QED
      BY <2>1, <3>1 DEF TraceInv
  <2>4. d # dir => r \in On(queue)
    <3>. SUFFICES ASSUME d # dir PROVE r \in On(queue)
      OBVIOUS
    <3>1. Due(d) = 1
      BY DEF Due
    <3>2. Remains(c, r)
      BY <1>1, <1>3, <2>2, <3>1 DEF Remains
    <3>. QED
      BY <2>3, <3>2 DEF DumpInv, Cursor
  <2>5. CASE NoHead
    <3>1. d # dir /\ queue = <<>>
      BY <2>5 DEF NoHead, Dirs, None
    <3>. QED
      BY <2>4, <3>1, OnEmpty
  <2>6. CASE ReadEOF
    <3>1. PICK e \in Dirs :
              /\ e = dir /\ c[e] = Len(sizes[e]) /\ ~Whole(e)
              /\ Begins(e, Len(sizes[e])) \in CutAt /\ Begins(e, Len(sizes[e])) \in Nat
              /\ \A m \in On(queue) : Begins(e, Len(sizes[e])) < At(trace, m)
      BY <2>6, StopsAtCut
    <3>2. CASE d = e
      <4>1. ~(n < Len(sizes[d]))
        BY <1>1, <1>3, <3>1, <3>2
      <4>. QED
        BY <3>1, <3>2, <4>1 DEF Complete
    <3>3. CASE d # e
      <4>1. Begins(e, Len(sizes[e])) < At(trace, r)
        BY <2>4, <3>1, <3>3
      <4>2. Begins(d, n) < Begins(e, Len(sizes[e]))
        BY <3>1
      <4>3. Begins(d, n) = At(trace, r)
        BY <2>1, FrameBegins
      <4>4. At(trace, r) \in Nat
        BY <1>1, <2>3, AtFacts
      <4>. QED
        BY <3>1, <4>1, <4>2, <4>3, <4>4
    <3>. QED
      BY <3>2, <3>3
  <2>. QED
    BY <2>5, <2>6
<1>. QED
  BY <1>1, <1>2, <1>3

\* What is said of the trace alone does not change while it stays.
LEMMA Unmoved ==
    ASSUME UNCHANGED <<sizes, parts, trace>>
    PROVE  /\ CutAt' = CutAt
           /\ \A d, n : /\ Begins(d, n)' = Begins(d, n) /\ FrameOf(d, n)' = FrameOf(d, n)
                        /\ Complete(d, n)' <=> Complete(d, n)
<1>1. ASSUME NEW d, NEW n PROVE Begins(d, n)' = Begins(d, n)
  BY DEF Begins, SelectInSeq
<1>2. ASSUME NEW d, NEW n PROVE FrameOf(d, n)' = FrameOf(d, n)
  BY DEF FrameOf
<1>3. ASSUME NEW d PROVE Whole(d)' <=> Whole(d)
  BY DEF Whole
<1>4. ASSUME NEW d, NEW n PROVE Complete(d, n)' <=> Complete(d, n)
  BY <1>3 DEF Complete
<1>5. CutAt' = CutAt
  BY <1>1, <1>3 DEF CutAt
<1>. QED
  BY <1>1, <1>2, <1>4, <1>5

\* What the end leaves behind.
LEMMA EndStep ==
    ASSUME TypeOK, Begun, TraceInv, ReadEOF \/ NoHead, NEW c \in Cursors, DumpInv(c)
    PROVE  TypeOK' /\ PrintedInOrder' /\ AllPrinted'
<1>1. UNCHANGED <<sizes, parts, trace, queue, buf, printed>> /\ pc' = "done" /\ dir' = None
  BY DEF ReadEOF, NoHead
<1>2. TypeOK'
  BY <1>1 DEF TypeOK
<1>3. \A d \in Dirs : \A n \in DOMAIN sizes[d] :
         Complete(d, n) /\ (\A at \in CutAt : Begins(d, n) < at)
         => FrameOf(d, n) \in Range(printed)
  <2>1. \A d \in Dirs : DOMAIN sizes[d] = 1..Len(sizes[d])
    BY DEF TypeOK
  <2>2. Range(printed) = On(printed)
    BY DEF TypeOK, Range, On
  <2>. QED
    BY <2>1, <2>2, NothingIsLeft
<1>4. /\ CutAt' = CutAt
      /\ \A d, n : /\ Begins(d, n)' = Begins(d, n) /\ FrameOf(d, n)' = FrameOf(d, n)
                   /\ Complete(d, n)' <=> Complete(d, n)
  BY <1>1, Unmoved
<1>5. PrintedInOrder'
  <2>1. PrintedInOrder
    BY InOrder
  <2>. QED
    BY <1>1, <1>4, <2>1 DEF PrintedInOrder
<1>6. AllPrinted'
  BY <1>1, <1>3, <1>4 DEF AllPrinted
<1>. QED
  BY <1>2, <1>5, <1>6

-----------------------------------------------------------------------------
(* The invariant. *)

DumpInvariant ==
    /\ TypeOK /\ Begun /\ TraceInv
    /\ pc = "recording" => dir = None /\ buf = <<>> /\ printed = <<>>
    /\ pc = "dumping" => \E c \in Cursors : DumpInv(c)
    /\ pc = "done" => PrintedInOrder /\ AllPrinted

LEMMA DumpInit == Init => DumpInvariant
<1>. SUFFICES ASSUME Init PROVE DumpInvariant
  OBVIOUS
<1>1. TypeOK
  BY DEF Init, TypeOK, Dirs, None
<1>2. Begun
  BY DEF Init, Begun
<1>3. TraceInv
  <2>1. trace = <<>> /\ Len(trace) = 0 /\ \A d \in Dirs : Len(sizes[d]) = 0
    BY DEF Init
  <2>2. On(trace) = {} /\ 1..0 = {}
    BY <2>1, OnEmpty
  <2>. QED
    BY <2>1, <2>2 DEF TraceInv
<1>. QED
  BY <1>1, <1>2, <1>3 DEF DumpInvariant, Init

LEMMA DumpNext == DumpInvariant /\ [Next]_vars => DumpInvariant'
<1>. SUFFICES ASSUME DumpInvariant, [Next]_vars PROVE DumpInvariant'
  OBVIOUS
<1>0. /\ TypeOK /\ Begun /\ TraceInv
      /\ pc = "recording" => dir = None /\ buf = <<>> /\ printed = <<>>
      /\ pc = "dumping" => \E c \in Cursors : DumpInv(c)
  BY DEF DumpInvariant
<1>1. ASSUME NEW d \in Dirs, NextReport(d) \/ \E size \in Sizes : FirstReport(d, size)
      PROVE  DumpInvariant'
  <2>1. TypeOK' /\ Begun' /\ TraceInv'
    BY <1>0, <1>1, RecordStep
  <2>2. pc = "recording" /\ UNCHANGED <<pc, queue, dir, buf, printed>>
    BY <1>1 DEF NextReport, FirstReport
  <2>. QED
    BY <1>0, <2>1, <2>2 DEF DumpInvariant
\* A step of the dump does not touch the trace.
<1>2. Load \/ TakeHead \/ ReadReport \/ ReadEOF \/ NoHead => Begun' /\ TraceInv'
  <2>. SUFFICES ASSUME UNCHANGED <<sizes, parts, trace>> PROVE Begun' /\ TraceInv'
    BY DEF Load, TakeHead, StartFrame, ReadReport, ReadEOF, NoHead
  <2>. QED
    BY <1>0 DEF Begun, TraceInv, Logged, PartsOf
<1>3. CASE Load
  <2>1. TypeOK' /\ (\E c \in Cursors : DumpInv(c)') /\ pc' = "dumping"
    BY <1>0, <1>3, LoadStep DEF Load
  <2>. QED
    BY <1>2, <1>3, <2>1 DEF DumpInvariant
<1>4. CASE TakeHead
  <2>1. PICK c \in Cursors : DumpInv(c)
    BY <1>0, <1>4 DEF TakeHead
  <2>2. TypeOK' /\ DumpInv(c)' /\ pc' = "dumping"
    BY <1>0, <1>4, <2>1, HeadStep DEF TakeHead, StartFrame
  <2>. QED
    BY <1>2, <1>4, <2>2 DEF DumpInvariant
<1>5. CASE ReadReport
  <2>1. pc = "dumping" /\ pc' = pc
    BY <1>0, <1>5 DEF ReadReport, TypeOK
  <2>2. PICK c \in Cursors : DumpInv(c)
    BY <1>0, <2>1
  <2>3. TypeOK' /\ \E cc \in Cursors : DumpInv(cc)'
    BY <1>0, <1>5, <2>2, ReadStep
  <2>. QED
    BY <1>2, <1>5, <2>1, <2>3 DEF DumpInvariant
<1>6. CASE ReadEOF \/ NoHead
  <2>1. pc = "dumping" /\ pc' = "done"
    BY <1>0, <1>6 DEF ReadEOF, NoHead, TypeOK
  <2>2. PICK c \in Cursors : DumpInv(c)
    BY <1>0, <2>1
  <2>3. TypeOK' /\ PrintedInOrder' /\ AllPrinted'
    BY <1>0, <1>6, <2>2, EndStep
  <2>. QED
    BY <1>2, <1>6, <2>1, <2>3 DEF DumpInvariant
<1>7. CASE UNCHANGED vars
  <2>1. UNCHANGED <<pc, sizes, parts, trace, queue, dir, buf, printed>>
    BY <1>7 DEF vars
  <2>2. TypeOK' /\ Begun' /\ TraceInv'
    BY <1>0, <2>1 DEF TypeOK, Begun, TraceInv, Logged, PartsOf
  <2>3. ASSUME NEW c \in Cursors, DumpInv(c)
        PROVE  DumpInv(c)'
    BY <2>1, <2>3 DEF DumpInv, Cursor, Remains, Due, Reading, PrintInv, QueueOrder, PrintOrder,
                      FrameOf, PartsOf
  <2>4. \A d, n : Begins(d, n)' = Begins(d, n) /\ FrameOf(d, n)' = FrameOf(d, n)
    BY <2>1, Unmoved
  <2>5. CutAt' = CutAt /\ \A d, n : Complete(d, n)' <=> Complete(d, n)
    BY <2>1, Unmoved
  <2>6. PrintedInOrder => PrintedInOrder'
    BY <2>1, <2>4 DEF PrintedInOrder
  <2>7. AllPrinted => AllPrinted'
    BY <2>1, <2>4, <2>5 DEF AllPrinted
  <2>. QED
    BY <2>1, <2>2, <2>3, <2>6, <2>7 DEF DumpInvariant
<1>. QED
  BY <1>1, <1>3, <1>4, <1>5, <1>6, <1>7 DEF Next

\* TypeOK: what main.go keeps while it shows a trace has its type, and a reader
\* is open only while it does.
THEOREM TraceTypeCorrect == Spec => []TypeOK
<1>1. DumpInvariant => TypeOK
  BY DEF DumpInvariant
<1>. QED
  BY <1>1, DumpInit, DumpNext, PTL DEF Spec

\* PrintedInOrder: dumpTrace prints frames of the trace, whole and unmixed, in
\* the order in which they begin.
THEOREM FramesPrintedInOrder == Spec => []PrintedInOrder
<1>1. DumpInvariant => PrintedInOrder
  <2>. SUFFICES ASSUME DumpInvariant PROVE PrintedInOrder
    OBVIOUS
  <2>1. CASE pc = "recording"
    <3>1. DOMAIN printed = {}
      BY <2>1 DEF DumpInvariant
    <3>. QED
      BY <3>1 DEF PrintedInOrder
  <2>2. CASE pc = "dumping"
    BY <2>2, InOrder DEF DumpInvariant
  <2>3. CASE pc = "done"
    BY <2>3 DEF DumpInvariant
  <2>. QED
    BY <2>1, <2>2, <2>3 DEF DumpInvariant, TypeOK
<1>. QED
  BY <1>1, DumpInit, DumpNext, PTL DEF Spec

\* AllPrinted: when dumpTrace ends, it has printed every frame, or, of a trace
\* that is cut within a frame, every one that begins before that.
THEOREM AllFramesPrinted == Spec => []AllPrinted
<1>1. DumpInvariant => AllPrinted
  BY DEF DumpInvariant, AllPrinted
<1>. QED
  BY <1>1, DumpInit, DumpNext, PTL DEF Spec

=============================================================================
