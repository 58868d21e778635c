------------------------- MODULE TcpipTimersProofs --------------------------
(***************************************************************************)
(* For every interval and every number of connections: the TCP timer runs  *)
(* while there are connections, and once; no timer runs late; and the list *)
(* of differences is an alarm clock.  A list is read through the time to   *)
(* each of its timers, a sum of differences, and the lemmas say what       *)
(* sys_timeout, a timeout and a message do to those sums.                  *)
(***************************************************************************)
EXTENDS TcpipTimers, WellFoundedInduction, TLAPS

\* A set of numbers has a smallest one.
LEMMA Smallest ==
    ASSUME NEW T, T \subseteq Nat, T # {}
    PROVE  \E x \in T : \A y \in T : ~(y < x)
<1>1. \E x \in T : \A y \in T : ~(<<y, x>> \in OpToRel(<, Nat))
  BY NatLessThanWellFounded, WFMin
<1>2. \A x, y \in Nat : y < x => <<y, x>> \in OpToRel(<, Nat)
  BY DEF OpToRel
<1> QED BY <1>1, <1>2

\* t is s with e at place k.
WithAt(t, s, k, e) ==
    \A j \in 1..(Len(s) + 1) : t[j] = IF j < k THEN s[j]
                                     ELSE IF j = k THEN e ELSE s[j - 1]

LEMMA InsertAtTypes ==
    ASSUME NEW S, NEW s \in Seq(S), NEW e \in S, NEW k \in 1..(Len(s) + 1)
    PROVE  /\ InsertAt(s, k, e) \in Seq(S)
           /\ Len(InsertAt(s, k, e)) = Len(s) + 1
           /\ WithAt(InsertAt(s, k, e), s, k, e)
<1> DEFINE a == SubSeq(s, 1, k - 1)
           b == SubSeq(s, k, Len(s))
<1>1. /\ a \in Seq(S) /\ Len(a) = k - 1
      /\ \A j \in 1..(k - 1) : a[j] = s[j]
  OBVIOUS
<1>2. /\ b \in Seq(S) /\ Len(b) = Len(s) + 1 - k
      /\ \A j \in 1..(Len(s) + 1 - k) : b[j] = s[k + j - 1]
  OBVIOUS
<1>3. InsertAt(s, k, e) = (a \o <<e>>) \o b
  BY DEF InsertAt
<1> HIDE DEF a, b
<1>4. /\ a \o <<e>> \in Seq(S) /\ Len(a \o <<e>>) = k
      /\ \A j \in 1..k : (a \o <<e>>)[j] = IF j < k THEN s[j] ELSE e
  BY <1>1
<1>5. /\ InsertAt(s, k, e) \in Seq(S)
      /\ Len(InsertAt(s, k, e)) = Len(s) + 1
  <2> DEFINE c == a \o <<e>>
  <2>1. c \in Seq(S) /\ Len(c) = k
    BY <1>4
  <2> HIDE DEF c
  <2>2. \A x, y \in Seq(S) : x \o y \in Seq(S) /\ Len(x \o y) = Len(x) + Len(y)
    OBVIOUS
  <2>3. Len(s) \in Nat /\ Len(c) + Len(b) = Len(s) + 1
    BY <1>2, <2>1
  <2> QED BY <1>2, <1>3, <2>1, <2>2, <2>3 DEF c
<1>6. ASSUME NEW j \in 1..(Len(s) + 1)
      PROVE  InsertAt(s, k, e)[j] = IF j < k THEN s[j]
                                    ELSE IF j = k THEN e ELSE s[j - 1]
  <2>1. CASE j <= k
    BY <1>2, <1>3, <1>4, <2>1
  <2>2. CASE j > k
    <3>1. InsertAt(s, k, e)[j] = b[j - k]
      BY <1>2, <1>3, <1>4, <2>2
    <3>2. b[j - k] = s[k + (j - k) - 1]
      BY <1>2, <2>2
    <3> QED BY <2>2, <3>1, <3>2
  <2> QED BY <2>1, <2>2
<1> QED BY <1>5, <1>6 DEF WithAt

-----------------------------------------------------------------------------
(* Prefix sums                                                             *)

Timer == [h : Handler, t : Nat]

\* f gives the time from the start of list s to each of its timers.
Sums(f, s) == f = [i \in 0..Len(s) |-> IF i = 0 THEN 0 ELSE f[i - 1] + s[i].t]

LEMMA TimerSeq ==
    ASSUME NEW s \in Seq(Timer)
    PROVE  /\ Len(s) \in Nat /\ DOMAIN s = 1..Len(s)
           /\ \A i \in 1..Len(s) : s[i] \in Timer /\ s[i].t \in Nat /\ s[i].h \in Handler
<1>1. Len(s) \in Nat /\ DOMAIN s = 1..Len(s) /\ \A i \in 1..Len(s) : s[i] \in Timer
  OBVIOUS
<1> QED BY <1>1 DEF Timer

\* Such a function exists: one for all but the last timer can be prolonged.
LEMMA SumsExist == ASSUME NEW s \in Seq(Timer) PROVE \E f : Sums(f, s)
<1> DEFINE Upto(f, n) == /\ f \in [0..n -> Nat] /\ f[0] = 0
                         /\ \A i \in 1..n : f[i] = f[i - 1] + s[i].t
           Bad == {n \in 0..Len(s) : ~\E f : Upto(f, n)}
<1>1. Len(s) \in Nat /\ \A i \in 1..Len(s) : s[i].t \in Nat
  BY TimerSeq
<1>2. Bad = {}
  <2> SUFFICES ASSUME Bad # {} PROVE FALSE
    OBVIOUS
  <2>1. Bad \subseteq Nat
    BY <1>1
  <2>2. PICK n \in Bad : \A k \in Bad : ~(k < n)
    <3> HIDE DEF Bad
    <3> QED BY <2>1, Smallest
  <2>3. n \in 0..Len(s) /\ n \in Nat
    BY <1>1
  <2>4. n # 0
    <3> SUFFICES ASSUME n = 0 PROVE FALSE
      OBVIOUS
    <3> DEFINE z == [i \in 0..0 |-> 0]
    <3>1. z \in [0..0 -> Nat] /\ z[0] = 0 /\ 1..0 = {}
      OBVIOUS
    <3> HIDE DEF z
    <3>2. Upto(z, n)
      BY <3>1
    <3>3. ~Upto(z, n)
      <4> HIDE DEF Upto
      <4> QED OBVIOUS
    <3> HIDE DEF Upto, Bad
    <3> QED BY <3>2, <3>3
  <2>5. n - 1 \in 0..Len(s) /\ n - 1 < n
    BY <1>1, <2>3, <2>4
  <2>6. PICK f : Upto(f, n - 1)
    <3>1. n - 1 \notin Bad
      BY <2>2, <2>5
    <3> QED BY <2>5, <3>1
  <2> DEFINE g == [i \in 0..n |-> IF i = n THEN f[n - 1] + s[n].t ELSE f[i]]
  <2>7. n \in 1..Len(s) /\ s[n].t \in Nat /\ f[n - 1] \in Nat
    BY <1>1, <2>3, <2>4, <2>6
  <2>8. g \in [0..n -> Nat]
    BY <2>3, <2>6, <2>7
  <2>9. g[0] = 0
    BY <2>3, <2>4, <2>6
  <2>10. \A i \in 1..n : g[i] = g[i - 1] + s[i].t
    <3> SUFFICES ASSUME NEW i \in 1..n PROVE g[i] = g[i - 1] + s[i].t
      OBVIOUS
    <3>1. g[i - 1] = f[i - 1]
      BY <2>3
    <3>2. i # n => g[i] = f[i] /\ i \in 1..(n - 1)
      BY <2>3
    <3>3. i = n => g[i] = f[n - 1] + s[n].t
      BY <2>3
    <3> HIDE DEF g
    <3> QED BY <2>6, <3>1, <3>2, <3>3
  <2> QED BY <2>8, <2>9, <2>10
<1>3. PICK f : Upto(f, Len(s))
  <2>1. Len(s) \in 0..Len(s)
    BY <1>1
  <2> QED BY <1>2, <2>1
<1>4. f = [i \in 0..Len(s) |-> f[i]]
  BY <1>3
<1>5. \A i \in 0..Len(s) : f[i] = IF i = 0 THEN 0 ELSE f[i - 1] + s[i].t
  BY <1>1, <1>3
<1>6. Sums(f, s)
  BY <1>4, <1>5 DEF Sums
<1> QED BY <1>6

\* There is only one: two differ nowhere first.
LEMMA SumsUnique ==
    ASSUME NEW s \in Seq(Timer), NEW f, NEW g, Sums(f, s), Sums(g, s)
    PROVE  f = g /\ f \in [0..Len(s) -> Nat]
<1>1. Len(s) \in Nat /\ \A i \in 1..Len(s) : s[i].t \in Nat
  BY TimerSeq
<1>2. /\ \A i \in 0..Len(s) : f[i] = IF i = 0 THEN 0 ELSE f[i - 1] + s[i].t
      /\ \A i \in 0..Len(s) : g[i] = IF i = 0 THEN 0 ELSE g[i - 1] + s[i].t
      /\ f = [i \in 0..Len(s) |-> f[i]] /\ g = [i \in 0..Len(s) |-> g[i]]
  BY DEF Sums
<1> DEFINE Bad == {i \in 0..Len(s) : ~(f[i] = g[i] /\ f[i] \in Nat)}
<1>3. Bad = {}
  <2> SUFFICES ASSUME Bad # {} PROVE FALSE
    OBVIOUS
  <2>1. Bad \subseteq Nat
    BY <1>1
  <2>2. PICK n \in Bad : \A k \in Bad : ~(k < n)
    <3> HIDE DEF Bad
    <3> QED BY <2>1, Smallest
  <2>3. n \in 0..Len(s) /\ ~(f[n] = g[n] /\ f[n] \in Nat)
    OBVIOUS
  <2>4. n # 0
    <3>1. 0 \in 0..Len(s)
      BY <1>1
    <3>2. f[0] = 0 /\ g[0] = 0
      BY <1>2, <3>1
    <3> HIDE DEF Bad
    <3> QED BY <2>3, <3>2
  <2>5. n - 1 \in 0..Len(s) /\ n - 1 < n /\ n \in 1..Len(s)
    BY <1>1, <2>3, <2>4
  <2>6. f[n - 1] = g[n - 1] /\ f[n - 1] \in Nat
    BY <2>2, <2>5
  <2>7. f[n] = f[n - 1] + s[n].t /\ g[n] = g[n - 1] + s[n].t
    BY <1>2, <2>4, <2>5
  <2> QED BY <1>1, <2>3, <2>5, <2>6, <2>7
<1>4. \A i \in 0..Len(s) : f[i] = g[i] /\ f[i] \in Nat
  BY <1>3
<1> QED BY <1>2, <1>4

TimeTo(s) == CHOOSE f : Sums(f, s)

\* What the sums are, and how to recognise them.
LEMMA SumOf ==
    ASSUME NEW s \in Seq(Timer)
    PROVE  /\ TimeTo(s) \in [0..Len(s) -> Nat] /\ TimeTo(s)[0] = 0
           /\ \A i \in 1..Len(s) : TimeTo(s)[i] = TimeTo(s)[i - 1] + s[i].t
<1>1. Sums(TimeTo(s), s)
  BY SumsExist DEF TimeTo
<1>2. TimeTo(s) \in [0..Len(s) -> Nat]
  BY <1>1, SumsUnique
<1>3. Len(s) \in Nat
  BY TimerSeq
<1>4. \A i \in 0..Len(s) : TimeTo(s)[i] = IF i = 0 THEN 0 ELSE TimeTo(s)[i - 1] + s[i].t
  BY <1>1 DEF Sums
<1> QED BY <1>2, <1>3, <1>4

LEMMA SumIs ==
    ASSUME NEW s \in Seq(Timer), NEW f, DOMAIN f = 0..Len(s), f = [i \in DOMAIN f |-> f[i]],
           f[0] = 0, \A i \in 1..Len(s) : f[i] = f[i - 1] + s[i].t
    PROVE  TimeTo(s) = f
<1>1. Len(s) \in Nat
  BY TimerSeq
<1>2. \A i \in 0..Len(s) : f[i] = IF i = 0 THEN 0 ELSE f[i - 1] + s[i].t
  BY <1>1
<1>3. Sums(f, s)
  BY <1>2 DEF Sums
<1>4. Sums(TimeTo(s), s)
  BY SumsExist DEF TimeTo
<1> QED BY <1>3, <1>4, SumsUnique

\* No timer is due before the first.
LEMMA SumFirst ==
    ASSUME NEW s \in Seq(Timer), NEW i \in 1..Len(s)
    PROVE  TimeTo(s)[1] = s[1].t /\ TimeTo(s)[i] >= s[1].t
<1>1. Len(s) \in Nat /\ \A k \in 1..Len(s) : s[k].t \in Nat
  BY TimerSeq
<1>2. /\ TimeTo(s) \in [0..Len(s) -> Nat] /\ TimeTo(s)[0] = 0
      /\ \A k \in 1..Len(s) : TimeTo(s)[k] = TimeTo(s)[k - 1] + s[k].t
  BY SumOf
<1>3. TimeTo(s)[1] = s[1].t /\ 1 \in 1..Len(s)
  <2>1. 1 \in 1..Len(s) /\ 1 - 1 = 0
    BY <1>1
  <2> QED BY <1>1, <1>2, <2>1
<1> DEFINE Bad == {k \in 1..Len(s) : ~(TimeTo(s)[k] >= s[1].t)}
<1>4. Bad = {}
  <2> SUFFICES ASSUME Bad # {} PROVE FALSE
    OBVIOUS
  <2>1. Bad \subseteq Nat
    BY <1>1
  <2>2. PICK n \in Bad : \A k \in Bad : ~(k < n)
    <3> HIDE DEF Bad
    <3> QED BY <2>1, Smallest
  <2>3. n # 1
    BY <1>1, <1>3
  <2>4. n - 1 \in 1..Len(s) /\ n - 1 < n /\ n \in 1..Len(s)
    BY <1>1, <2>3
  <2>5. TimeTo(s)[n - 1] >= s[1].t
    BY <2>2, <2>4
  <2>6. TimeTo(s)[n] = TimeTo(s)[n - 1] + s[n].t /\ s[n].t \in Nat /\ s[1].t \in Nat
        /\ TimeTo(s)[n - 1] \in Nat /\ TimeTo(s)[n] \in Nat
    <3>1. s[n].t \in Nat /\ s[1].t \in Nat
      BY <1>1, <1>3, <2>4
    <3>2. n \in 0..Len(s) /\ n - 1 \in 0..Len(s)
      BY <1>1, <2>4
    <3>3. TimeTo(s)[n - 1] \in Nat /\ TimeTo(s)[n] \in Nat
      BY <1>2, <3>2
    <3> QED BY <1>2, <2>4, <3>1, <3>3
  <2>7. TimeTo(s)[n] >= s[1].t
    BY <2>5, <2>6
  <2> QED BY <2>7
<1> QED BY <1>3, <1>4

-----------------------------------------------------------------------------
(* Lists of timers                                                         *)

\* Each handler has at most one timer.
Timers(s) ==
    /\ s \in Seq(Timer)
    /\ \A i, j \in DOMAIN s : s[i].h = s[j].h => i = j

Handlers(s) == {s[i].h : i \in DOMAIN s}

\* Handler h is due after d.
DueAfter(s, h, d) == \E i \in 1..Len(s) : s[i].h = h /\ TimeTo(s)[i] = d

\* The first timer is taken off the list: the others are due sooner by its time.
LEMMA TailTimers ==
    ASSUME NEW s, Timers(s), Handlers(s) # {}
    PROVE  /\ Timers(Tail(s))
           /\ Handlers(Tail(s)) = Handlers(s) \ {Head(s).h}
           /\ Head(s).h \in Handlers(s) /\ Head(s).t \in Nat
           /\ \A h \in Handlers(Tail(s)) : \A d \in Nat :
                DueAfter(s, h, d) => d >= Head(s).t /\ DueAfter(Tail(s), h, d - Head(s).t)
<1>1. /\ s \in Seq(Timer) /\ Len(s) \in Nat /\ DOMAIN s = 1..Len(s)
      /\ \A i \in 1..Len(s) : s[i].t \in Nat
  BY TimerSeq DEF Timers
<1>2. Len(s) >= 1 /\ s # <<>>
  BY <1>1 DEF Handlers
<1>3. /\ Tail(s) \in Seq(Timer) /\ DOMAIN Tail(s) = 1..(Len(s) - 1)
      /\ Len(Tail(s)) = Len(s) - 1
      /\ \A i \in 1..(Len(s) - 1) : Tail(s)[i] = s[i + 1]
      /\ Head(s) = s[1]
  BY <1>1, <1>2
<1>4. \A i, j \in 1..Len(s) : s[i].h = s[j].h => i = j
  BY <1>1 DEF Timers
<1> DEFINE r == Tail(s)
<1> HIDE DEF r
<1>5. Timers(r)
  <2>1. ASSUME NEW i \in 1..(Len(s) - 1), NEW j \in 1..(Len(s) - 1), r[i].h = r[j].h
        PROVE  i = j
    <3>1. s[i + 1].h = s[j + 1].h
      BY <1>3, <2>1 DEF r
    <3>2. i + 1 \in 1..Len(s) /\ j + 1 \in 1..Len(s)
      BY <1>1
    <3>3. i + 1 = j + 1
      BY <1>4, <3>1, <3>2
    <3> QED BY <3>3
  <2> QED BY <1>3, <2>1 DEF Timers, r
<1>6. Head(s).h \in Handlers(s) /\ Head(s).t \in Nat
  BY <1>1, <1>2, <1>3 DEF Handlers
<1>7. Handlers(r) = Handlers(s) \ {Head(s).h}
  <2>1. ASSUME NEW x \in Handlers(s), x # Head(s).h PROVE x \in Handlers(r)
    <3>1. PICK i \in 1..Len(s) : s[i].h = x
      BY <1>1 DEF Handlers
    <3>2. i # 1
      BY <1>3, <2>1, <3>1
    <3>3. i - 1 \in 1..(Len(s) - 1) /\ (i - 1) + 1 = i
      BY <1>1, <3>2
    <3>4. r[i - 1] = s[i]
      BY <1>3, <3>3 DEF r
    <3> QED BY <1>3, <3>1, <3>3, <3>4 DEF Handlers, r
  <2>2. ASSUME NEW x \in Handlers(r) PROVE x \in Handlers(s) /\ x # Head(s).h
    <3>1. PICK i \in 1..(Len(s) - 1) : r[i].h = x
      BY <1>3 DEF Handlers, r
    <3>2. i + 1 \in 1..Len(s) /\ 1 \in 1..Len(s) /\ i + 1 # 1 /\ s[i + 1].h = x
      BY <1>1, <1>3, <3>1 DEF r
    <3> QED BY <1>1, <1>3, <1>4, <3>2 DEF Handlers
  <2> QED BY <2>1, <2>2
<1>8. /\ TimeTo(s) \in [0..Len(s) -> Nat] /\ TimeTo(s)[0] = 0
      /\ \A i \in 1..Len(s) : TimeTo(s)[i] = TimeTo(s)[i - 1] + s[i].t
      /\ \A i \in 1..Len(s) : TimeTo(s)[i] >= s[1].t
      /\ TimeTo(s)[1] = s[1].t
  <2>1. 1 \in 1..Len(s)
    BY <1>1, <1>2
  <2>2. \A i \in 1..Len(s) : TimeTo(s)[1] = s[1].t /\ TimeTo(s)[i] >= s[1].t
    BY <1>1, SumFirst
  <2>3. /\ TimeTo(s) \in [0..Len(s) -> Nat] /\ TimeTo(s)[0] = 0
        /\ \A i \in 1..Len(s) : TimeTo(s)[i] = TimeTo(s)[i - 1] + s[i].t
    BY <1>1, SumOf
  <2> QED BY <2>1, <2>2, <2>3
<1> DEFINE f == [i \in 0..(Len(s) - 1) |-> TimeTo(s)[i + 1] - s[1].t]
<1>9. TimeTo(r) = f
  <2>1. DOMAIN f = 0..Len(r) /\ f = [i \in DOMAIN f |-> f[i]]
    BY <1>3 DEF r
  <2>2. f[0] = 0
    <3>1. f[0] = TimeTo(s)[0 + 1] - s[1].t
      BY <1>1, <1>2
    <3> QED BY <1>1, <1>2, <1>8, <3>1
  <2>3. ASSUME NEW i \in 1..Len(r) PROVE f[i] = f[i - 1] + r[i].t
    <3>1. /\ i \in 1..(Len(s) - 1) /\ i + 1 \in 1..Len(s) /\ (i + 1) - 1 = i
          /\ i \in 0..(Len(s) - 1) /\ i - 1 \in 0..(Len(s) - 1) /\ (i - 1) + 1 = i
          /\ 1 \in 1..Len(s)
      BY <1>1, <1>2, <1>3 DEF r
    <3>2. TimeTo(s)[i + 1] = TimeTo(s)[i] + s[i + 1].t
      BY <1>8, <3>1
    <3>3. f[i] = TimeTo(s)[i + 1] - s[1].t /\ f[i - 1] = TimeTo(s)[i] - s[1].t
      BY <3>1
    <3>4. r[i].t = s[i + 1].t /\ s[i + 1].t \in Nat /\ s[1].t \in Nat
      BY <1>1, <1>3, <3>1 DEF r
    <3>5. TimeTo(s)[i] \in Nat /\ TimeTo(s)[i + 1] \in Nat
      <4>1. i \in 0..Len(s) /\ i + 1 \in 0..Len(s)
        BY <1>1, <3>1
      <4> QED BY <1>8, <4>1
    <3> HIDE DEF f
    <3> QED BY <3>2, <3>3, <3>4, <3>5
  <2>4. r \in Seq(Timer)
    BY <1>5 DEF Timers
  <2> HIDE DEF f
  <2> QED BY <2>1, <2>2, <2>3, <2>4, SumIs
<1>10. ASSUME NEW h \in Handlers(r), NEW d \in Nat, DueAfter(s, h, d)
       PROVE  d >= Head(s).t /\ DueAfter(r, h, d - Head(s).t)
  <2>1. PICK i \in 1..Len(s) : s[i].h = h /\ TimeTo(s)[i] = d
    BY <1>10 DEF DueAfter
  <2>2. i # 1
    BY <1>3, <1>7, <1>10, <2>1
  <2>3. i - 1 \in 1..(Len(s) - 1) /\ i - 1 \in 0..(Len(s) - 1) /\ (i - 1) + 1 = i
    BY <1>1, <2>2
  <2>4. r[i - 1] = s[i] /\ TimeTo(r)[i - 1] = d - s[1].t
    BY <1>3, <1>9, <2>1, <2>3 DEF r
  <2>5. i - 1 \in 1..Len(r)
    BY <1>3, <2>3 DEF r
  <2> HIDE DEF f
  <2> QED BY <1>3, <1>8, <2>1, <2>4, <2>5 DEF DueAfter
<1> QED BY <1>5, <1>6, <1>7, <1>10 DEF r

\* The first timer's time is cut to x: all are due sooner by what was cut.
LEMMA CutTimers ==
    ASSUME NEW s, Timers(s), Handlers(s) # {}, NEW x \in Nat, x <= Head(s).t
    PROVE  /\ Timers([s EXCEPT ![1].t = x])
           /\ Handlers([s EXCEPT ![1].t = x]) = Handlers(s)
           /\ \A h \in Handlers(s), d \in Nat :
                DueAfter(s, h, d) => /\ d >= Head(s).t
                                     /\ DueAfter([s EXCEPT ![1].t = x], h, d - (Head(s).t - x))
<1>1. /\ s \in Seq(Timer) /\ Len(s) \in Nat /\ DOMAIN s = 1..Len(s)
      /\ \A i \in 1..Len(s) : s[i] \in Timer /\ s[i].t \in Nat
  BY TimerSeq DEF Timers
<1>2. Len(s) >= 1 /\ 1 \in 1..Len(s)
  BY <1>1 DEF Handlers
<1>3. Head(s) = s[1]
  BY <1>1, <1>2
<1> DEFINE r == [s EXCEPT ![1].t = x]
<1>4. /\ DOMAIN r = 1..Len(s)
      /\ \A i \in 1..Len(s) : r[i] \in Timer /\ r[i].h = s[i].h
      /\ \A i \in 2..Len(s) : r[i] = s[i]
      /\ r[1].t = x
  BY <1>1, <1>2 DEF Timer
<1>5. r \in Seq(Timer) /\ Len(r) = Len(s)
  <2>1. r = [i \in 1..Len(s) |-> r[i]]
    BY <1>1
  <2> HIDE DEF r
  <2>2. r \in Seq(Timer)
    BY <1>1, <1>4, <2>1
  <2> QED BY <1>1, <1>4, <2>2
<1> HIDE DEF r
<1>6. Timers(r)
  BY <1>1, <1>4, <1>5 DEF Timers
<1>7. Handlers(r) = Handlers(s)
  <2>1. Handlers(r) = {r[i].h : i \in 1..Len(s)}
    BY <1>4 DEF Handlers
  <2>2. Handlers(s) = {s[i].h : i \in 1..Len(s)}
    BY <1>1 DEF Handlers
  <2> QED BY <1>4, <2>1, <2>2
<1>8. /\ TimeTo(s) \in [0..Len(s) -> Nat] /\ TimeTo(s)[0] = 0
      /\ \A i \in 1..Len(s) : TimeTo(s)[i] = TimeTo(s)[i - 1] + s[i].t
      /\ \A i \in 1..Len(s) : TimeTo(s)[i] >= s[1].t
      /\ TimeTo(s)[1] = s[1].t
  <2>1. 1 \in 1..Len(s)
    BY <1>1, <1>2
  <2>2. \A i \in 1..Len(s) : TimeTo(s)[1] = s[1].t /\ TimeTo(s)[i] >= s[1].t
    BY <1>1, SumFirst
  <2>3. /\ TimeTo(s) \in [0..Len(s) -> Nat] /\ TimeTo(s)[0] = 0
        /\ \A i \in 1..Len(s) : TimeTo(s)[i] = TimeTo(s)[i - 1] + s[i].t
    BY <1>1, SumOf
  <2> QED BY <2>1, <2>2, <2>3
<1> DEFINE f == [i \in 0..Len(s) |-> IF i = 0 THEN 0 ELSE TimeTo(s)[i] - (s[1].t - x)]
<1>9. TimeTo(r) = f
  <2>1. DOMAIN f = 0..Len(r) /\ f = [i \in DOMAIN f |-> f[i]]
    BY <1>5
  <2>2. f[0] = 0
    BY <1>1
  <2>3. ASSUME NEW i \in 1..Len(r) PROVE f[i] = f[i - 1] + r[i].t
    <3>1. /\ i \in 1..Len(s) /\ i \in 0..Len(s) /\ i # 0 /\ i - 1 \in 0..Len(s)
          /\ s[1].t \in Nat /\ TimeTo(s)[i] \in Nat
      BY <1>1, <1>2, <1>5, <1>8
    <3>2. f[i] = TimeTo(s)[i] - (s[1].t - x)
      BY <3>1
    <3>3. ASSUME i = 1 PROVE f[i] = f[i - 1] + r[i].t
      <4>1. f[i - 1] = 0
        BY <2>2, <3>3
      <4> QED BY <1>4, <1>8, <3>1, <3>2, <3>3, <4>1
    <3>4. ASSUME i # 1 PROVE f[i] = f[i - 1] + r[i].t
      <4>1. i - 1 # 0 /\ i \in 2..Len(s) /\ s[i].t \in Nat /\ TimeTo(s)[i - 1] \in Nat
        <5>1. i - 1 # 0 /\ i \in 2..Len(s) /\ i - 1 \in 0..Len(s)
          BY <1>1, <3>1, <3>4
        <5> QED BY <1>1, <1>8, <3>1, <5>1
      <4>2. f[i - 1] = TimeTo(s)[i - 1] - (s[1].t - x)
        BY <3>1, <4>1
      <4>3. r[i].t = s[i].t /\ TimeTo(s)[i] = TimeTo(s)[i - 1] + s[i].t
        BY <1>4, <1>8, <3>1, <4>1
      <4> HIDE DEF f
      <4>4. \A a, b, c, y \in Nat : (a + b) - (c - y) = (a - (c - y)) + b
        OBVIOUS
      <4>5. (TimeTo(s)[i - 1] + s[i].t) - (s[1].t - x)
                = (TimeTo(s)[i - 1] - (s[1].t - x)) + s[i].t
        BY <3>1, <4>1, <4>4
      <4> QED BY <3>2, <4>2, <4>3, <4>5
    <3> QED BY <3>3, <3>4
  <2> HIDE DEF f
  <2> QED BY <1>5, <2>1, <2>2, <2>3, SumIs
<1>10. ASSUME NEW h \in Handlers(s), NEW d \in Nat, DueAfter(s, h, d)
       PROVE  d >= Head(s).t /\ DueAfter(r, h, d - (Head(s).t - x))
  <2>1. PICK i \in 1..Len(s) : s[i].h = h /\ TimeTo(s)[i] = d
    BY <1>10 DEF DueAfter
  <2>2. i \in 0..Len(s) /\ i # 0
    BY <1>1
  <2>3. TimeTo(r)[i] = d - (s[1].t - x)
    BY <1>9, <2>1, <2>2
  <2> HIDE DEF f
  <2> QED BY <1>3, <1>4, <1>5, <1>8, <2>1, <2>3 DEF DueAfter
<1> QED BY <1>6, <1>7, <1>10 DEF r

\* What is left of msecs behind each timer, as sys_timeout computes it.
LEMMA RestOf ==
    ASSUME NEW s \in Seq(Timer), NEW msecs \in Nat
    PROVE  (CHOOSE rest : rest = [i \in 0..Len(s) |->
                IF i = 0 THEN msecs ELSE rest[i - 1] - s[i].t])
             = [i \in 0..Len(s) |-> msecs - TimeTo(s)[i]]
<1> DEFINE Is(f) == f = [i \in 0..Len(s) |-> IF i = 0 THEN msecs ELSE f[i - 1] - s[i].t]
           p == [i \in 0..Len(s) |-> msecs - TimeTo(s)[i]]
<1>1. Len(s) \in Nat /\ \A i \in 1..Len(s) : s[i].t \in Nat
  BY TimerSeq
<1>2. /\ TimeTo(s) \in [0..Len(s) -> Nat] /\ TimeTo(s)[0] = 0
      /\ \A i \in 1..Len(s) : TimeTo(s)[i] = TimeTo(s)[i - 1] + s[i].t
  BY SumOf
<1>3. ASSUME NEW i \in 0..Len(s), i # 0
      PROVE  /\ i \in 1..Len(s) /\ i - 1 \in 0..Len(s) /\ i - 1 < i
             /\ TimeTo(s)[i] = TimeTo(s)[i - 1] + s[i].t
             /\ TimeTo(s)[i - 1] \in Nat /\ s[i].t \in Nat /\ TimeTo(s)[i] \in Nat
  <2>1. i \in 1..Len(s) /\ i - 1 \in 0..Len(s) /\ i - 1 < i
    BY <1>1, <1>3
  <2> QED BY <1>1, <1>2, <2>1
<1>4. 0 \in 0..Len(s) /\ p[0] = msecs
  BY <1>1, <1>2
<1>5. ASSUME NEW i \in 0..Len(s), i # 0
      PROVE  p[i] = p[i - 1] - s[i].t
  <2>1. p[i] = msecs - TimeTo(s)[i] /\ p[i - 1] = msecs - TimeTo(s)[i - 1]
    BY <1>3, <1>5
  <2> HIDE DEF p
  <2>2. \A a, b, c \in Nat : c - (a + b) = (c - a) - b
    OBVIOUS
  <2> QED BY <1>3, <1>5, <2>1, <2>2
<1>6. Is(p)
  <2>1. p = [i \in 0..Len(s) |-> p[i]]
    OBVIOUS
  <2> HIDE DEF p
  <2>2. \A i \in 0..Len(s) : p[i] = IF i = 0 THEN msecs ELSE p[i - 1] - s[i].t
    BY <1>4, <1>5
  <2> QED BY <2>1, <2>2
<1>7. ASSUME NEW f, Is(f) PROVE f = p
  <2>1. /\ \A i \in 0..Len(s) : f[i] = IF i = 0 THEN msecs ELSE f[i - 1] - s[i].t
        /\ f = [i \in 0..Len(s) |-> f[i]]
    BY <1>7
  <2> DEFINE Bad == {i \in 0..Len(s) : f[i] # p[i]}
  <2>2. Bad = {}
    <3> SUFFICES ASSUME Bad # {} PROVE FALSE
      OBVIOUS
    <3>1. Bad \subseteq Nat
      BY <1>1
    <3>2. PICK n \in Bad : \A k \in Bad : ~(k < n)
      <4> HIDE DEF Bad
      <4> QED BY <3>1, Smallest
    <3> HIDE DEF p, Is
    <3>3. n \in 0..Len(s) /\ f[n] # p[n]
      OBVIOUS
    <3>4. n # 0
      <4> HIDE DEF Bad
      <4> QED BY <1>4, <2>1, <3>3
    <3>5. n - 1 \in 0..Len(s) /\ n - 1 < n
      BY <1>3, <3>3, <3>4
    <3>6. f[n - 1] = p[n - 1]
      BY <3>2, <3>5
    <3> HIDE DEF Bad
    <3> QED BY <1>5, <2>1, <3>3, <3>4, <3>6
  <2>3. p = [i \in 0..Len(s) |-> p[i]]
    OBVIOUS
  <2> HIDE DEF p
  <2>4. \A i \in 0..Len(s) : f[i] = p[i]
    BY <2>2
  <2> QED BY <2>1, <2>3, <2>4
<1> HIDE DEF p
<1>8. (CHOOSE f : Is(f)) = p
  <2> HIDE DEF Is
  <2> QED BY <1>6, <1>7
<1> QED BY <1>8 DEF p

\* A new timer is due when it should be, and the others are when they were.
LEMMA InsertedTimers ==
    ASSUME NEW s, Timers(s), NEW h \in Handler \ Handlers(s), NEW msecs \in Nat
    PROVE  /\ Timers(Inserted(s, h, msecs))
           /\ Handlers(Inserted(s, h, msecs)) = Handlers(s) \cup {h}
           /\ DueAfter(Inserted(s, h, msecs), h, msecs)
           /\ \A g \in Handlers(s), d \in Nat :
                DueAfter(s, g, d) => DueAfter(Inserted(s, h, msecs), g, d)
<1> DEFINE rest == CHOOSE rest : rest = [i \in 0..Len(s) |->
                       IF i = 0 THEN msecs ELSE rest[i - 1] - s[i].t]
           Stop(i) == i = Len(s) \/ s[i + 1].t > rest[i]
           at == CHOOSE i \in 0..Len(s) : Stop(i) /\ \A j \in 0..(i - 1) : ~Stop(j)
           next == [i \in DOMAIN s |-> IF i = at + 1
                                       THEN Entry(s[i].h, s[i].t - rest[at]) ELSE s[i]]
           new == Entry(h, rest[at])
           all == InsertAt(next, at + 1, new)
<1>1. Inserted(s, h, msecs) = all
  BY DEF Inserted
<1>2. /\ s \in Seq(Timer) /\ Len(s) \in Nat /\ DOMAIN s = 1..Len(s)
      /\ \A i \in 1..Len(s) : s[i] \in Timer /\ s[i].t \in Nat /\ s[i].h \in Handler
  BY TimerSeq DEF Timers
<1>3. rest = [i \in 0..Len(s) |-> msecs - TimeTo(s)[i]]
  BY <1>2, RestOf
<1> HIDE DEF rest
<1>4. /\ TimeTo(s) \in [0..Len(s) -> Nat] /\ TimeTo(s)[0] = 0
      /\ \A i \in 1..Len(s) : TimeTo(s)[i] = TimeTo(s)[i - 1] + s[i].t
  BY <1>2, SumOf
<1>5. at \in 0..Len(s) /\ Stop(at) /\ \A j \in 0..(at - 1) : ~Stop(j)
  <2> DEFINE Stops == {i \in 0..Len(s) : Stop(i)}
  <2>1. Stops \subseteq Nat /\ Len(s) \in Stops
    BY <1>2
  <2>2. PICK i \in Stops : \A j \in Stops : ~(j < i)
    <3> HIDE DEF Stops
    <3> QED BY <2>1, Smallest
  <2>3. i \in 0..Len(s) /\ Stop(i)
    OBVIOUS
  <2>4. \A j \in 0..(i - 1) : ~Stop(j)
    <3> SUFFICES ASSUME NEW j \in 0..(i - 1), Stop(j) PROVE FALSE
      OBVIOUS
    <3>1. j \in 0..Len(s) /\ j < i
      <4>1. i \in 0..Len(s)
        BY <2>3
      <4> HIDE DEF Stop, Stops
      <4> QED BY <1>2, <4>1
    <3>2. j \in Stops
      BY <3>1
    <3> HIDE DEF Stops, Stop
    <3> QED BY <2>2, <3>1, <3>2
  <2> HIDE DEF Stop
  <2> QED BY <2>3, <2>4
<1> DEFINE left == rest[at]
<1> HIDE DEF at, all
<1>6. left = msecs - TimeTo(s)[at] /\ TimeTo(s)[at] \in Nat /\ at \in Nat /\ at <= Len(s)
  <2>1. at \in 0..Len(s)
    BY <1>5
  <2> HIDE DEF Stop
  <2>2. rest[at] = msecs - TimeTo(s)[at]
    BY <1>3, <2>1
  <2>3. at \in Nat /\ at <= Len(s)
    BY <1>2, <2>1
  <2> QED BY <1>4, <2>1, <2>2, <2>3
<1>7. left \in Nat
  <2>1. at = 0 => left = msecs - 0
    BY <1>4, <1>6
  <2>2. ASSUME at # 0 PROVE left \in Nat
    <3>1. at - 1 \in 0..(at - 1) /\ at - 1 \in 0..Len(s) /\ at \in 1..Len(s)
          /\ (at - 1) + 1 = at
      <4> HIDE DEF Stop, left
      <4> QED BY <1>2, <1>6, <2>2
    <3>2. ~(s[at].t > rest[at - 1])
      BY <1>5, <3>1
    <3>3. /\ rest[at - 1] = msecs - TimeTo(s)[at - 1]
          /\ TimeTo(s)[at] = TimeTo(s)[at - 1] + s[at].t
          /\ TimeTo(s)[at - 1] \in Nat /\ s[at].t \in Nat
      BY <1>2, <1>3, <1>4, <3>1
    <3> HIDE DEF left
    <3> QED BY <1>6, <3>2, <3>3
  <2> QED BY <2>1, <2>2
<1>8. at + 1 \in 1..Len(s) => s[at + 1].t - left \in Nat
  <2> SUFFICES ASSUME at + 1 \in 1..Len(s) PROVE s[at + 1].t - left \in Nat
    OBVIOUS
  <2>1. s[at + 1].t > left
    <3>1. at # Len(s)
      <4> HIDE DEF Stop, left
      <4> QED BY <1>2
    <3> QED BY <1>5, <3>1
  <2>2. s[at + 1].t \in Nat
    BY <1>2
  <2> HIDE DEF left
  <2> QED BY <1>7, <2>1, <2>2
<1>9. /\ next \in Seq(Timer) /\ Len(next) = Len(s) /\ new \in Timer
      /\ \A i \in 1..Len(s) : /\ next[i].h = s[i].h
                              /\ next[i].t = IF i = at + 1 THEN s[i].t - left ELSE s[i].t
  <2>1. ASSUME NEW i \in 1..Len(s)
        PROVE  /\ next[i] \in Timer /\ next[i].h = s[i].h
               /\ next[i].t = IF i = at + 1 THEN s[i].t - left ELSE s[i].t
    <3>1. ASSUME i = at + 1
          PROVE  next[i] = Entry(s[i].h, s[i].t - left) /\ s[i].t - left \in Nat
      BY <1>2, <1>8, <3>1
    <3>2. i # at + 1 => next[i] = s[i]
      BY <1>2
    <3> HIDE DEF next, left
    <3> QED BY <1>2, <3>1, <3>2 DEF Entry, Timer
  <2>2. next \in [1..Len(s) -> Timer]
    <3>1. next = [i \in 1..Len(s) |-> next[i]]
      BY <1>2
    <3> HIDE DEF next
    <3> QED BY <2>1, <3>1
  <2>3. new \in Timer
    BY <1>7 DEF Entry, Timer
  <2> HIDE DEF next, new, left
  <2>4. next \in Seq(Timer) /\ Len(next) = Len(s)
    BY <1>2, <2>2
  <2> QED BY <2>1, <2>3, <2>4
<1>10. new.h = h /\ new.t = left
  BY DEF Entry
<1> HIDE DEF next, new, Stop, left
<1>11. /\ all \in Seq(Timer) /\ Len(all) = Len(s) + 1
       /\ \A j \in 1..(Len(s) + 1) :
            all[j] = IF j < at + 1 THEN next[j]
                     ELSE IF j = at + 1 THEN new ELSE next[j - 1]
  <2> DEFINE k == at + 1
  <2>1. k \in 1..(Len(next) + 1)
    BY <1>6, <1>9, <1>2
  <2> HIDE DEF k
  <2>2. /\ InsertAt(next, k, new) \in Seq(Timer)
        /\ Len(InsertAt(next, k, new)) = Len(next) + 1
    BY <1>9, <2>1, InsertAtTypes
  <2>3. WithAt(InsertAt(next, k, new), next, k, new)
    BY <1>9, <2>1, InsertAtTypes
  <2> QED BY <1>9, <2>2, <2>3 DEF k, WithAt, all
<1>12. DOMAIN all = 1..(Len(s) + 1)
  BY <1>11
<1>13. ASSUME NEW j \in 1..(Len(s) + 1)
       PROVE  /\ j < at + 1 => /\ j \in 1..Len(s)
                               /\ all[j].h = s[j].h /\ all[j].t = s[j].t
              /\ j = at + 1 => all[j].h = h /\ all[j].t = left
              /\ j > at + 1 => /\ j - 1 \in 1..Len(s)
                               /\ all[j].h = s[j - 1].h
                               /\ all[j].t = IF j = at + 2 THEN s[j - 1].t - left
                                             ELSE s[j - 1].t
  <2>1. ASSUME j < at + 1
        PROVE  j \in 1..Len(s) /\ all[j].h = s[j].h /\ all[j].t = s[j].t
    <3>1. j \in 1..Len(s)
      BY <1>2, <1>6, <2>1
    <3>2. all[j] = next[j] /\ j # at + 1
      BY <1>6, <1>11, <2>1
    <3> QED BY <1>9, <3>1, <3>2
  <2>2. j = at + 1 => all[j].h = h /\ all[j].t = left
    BY <1>6, <1>10, <1>11
  <2>3. ASSUME j > at + 1
        PROVE  /\ j - 1 \in 1..Len(s) /\ all[j].h = s[j - 1].h
               /\ all[j].t = IF j = at + 2 THEN s[j - 1].t - left ELSE s[j - 1].t
    <3>1. all[j] = next[j - 1] /\ j - 1 \in 1..Len(s) /\ (j - 1 = at + 1 <=> j = at + 2)
      BY <1>2, <1>6, <1>11, <2>3
    <3> QED BY <1>9, <3>1
  <2> QED BY <2>1, <2>2, <2>3
<1>14. \A i \in 1..Len(s) : s[i].h # h
  BY <1>2 DEF Handlers
<1>15. \A i, j \in 1..Len(s) : s[i].h = s[j].h => i = j
  BY <1>2 DEF Timers
<1>16. Timers(all)
  <2>1. ASSUME NEW i \in 1..(Len(s) + 1), NEW j \in 1..(Len(s) + 1),
               all[i].h = all[j].h
        PROVE  i = j
    <3>1. i < at + 1 \/ i = at + 1 \/ i > at + 1
      BY <1>6
    <3>2. j < at + 1 \/ j = at + 1 \/ j > at + 1
      BY <1>6
    <3>3. i - 1 = j - 1 => i = j
      OBVIOUS
    <3>4. j - 1 = i => ~(i < at + 1 /\ j > at + 1)
      BY <1>6
    <3>5. i - 1 = j => ~(j < at + 1 /\ i > at + 1)
      BY <1>6
    <3> QED BY <1>13, <1>14, <1>15, <2>1, <3>1, <3>2, <3>3, <3>4, <3>5, SMTT(30)
  <2> QED BY <1>11, <1>12, <2>1 DEF Timers
\* Where a timer of s is in the new list.
<1> DEFINE to(i) == IF i < at + 1 THEN i ELSE i + 1
<1>17. ASSUME NEW i \in 1..Len(s)
       PROVE  to(i) \in 1..(Len(s) + 1) /\ all[to(i)].h = s[i].h
  <2>1. i < at + 1 => i \in 1..(Len(s) + 1) /\ to(i) = i
    BY <1>2
  <2>2. ASSUME ~(i < at + 1)
        PROVE  i + 1 \in 1..(Len(s) + 1) /\ i + 1 > at + 1 /\ (i + 1) - 1 = i
               /\ to(i) = i + 1
    BY <1>2, <1>6, <2>2
  <2> HIDE DEF to
  <2> QED BY <1>13, <2>1, <2>2
<1>18. at + 1 \in 1..(Len(s) + 1) /\ all[at + 1].h = h
  <2>1. at + 1 \in 1..(Len(s) + 1)
    BY <1>2, <1>6
  <2> QED BY <1>13, <2>1
<1>19. Handlers(all) = Handlers(s) \cup {h}
  <2>1. ASSUME NEW j \in 1..(Len(s) + 1)
        PROVE  all[j].h \in Handlers(s) \cup {h}
    <3>1. \A i \in 1..Len(s) : s[i].h \in Handlers(s)
      BY <1>2 DEF Handlers
    <3>2. j < at + 1 \/ j = at + 1 \/ j > at + 1
      BY <1>6
    <3> QED BY <1>13, <3>1, <3>2
  <2>2. Handlers(all) = {all[j].h : j \in 1..(Len(s) + 1)}
    BY <1>12 DEF Handlers
  <2>3. Handlers(s) = {s[i].h : i \in 1..Len(s)}
    BY <1>2 DEF Handlers
  <2> HIDE DEF to
  <2>4. Handlers(s) \subseteq Handlers(all)
    BY <1>17, <2>2, <2>3
  <2>5. h \in Handlers(all)
    BY <1>18, <2>2
  <2> QED BY <2>1, <2>2, <2>4, <2>5
<1> DEFINE f == [j \in 0..(Len(s) + 1) |-> IF j < at + 1 THEN TimeTo(s)[j]
                                           ELSE IF j = at + 1 THEN msecs
                                           ELSE TimeTo(s)[j - 1]]
<1>20. TimeTo(all) = f
  <2>1. DOMAIN f = 0..Len(all) /\ f = [i \in DOMAIN f |-> f[i]]
    BY <1>11
  <2>2. f[0] = 0
    <3>1. 0 < at + 1 /\ 0 \in 0..(Len(s) + 1)
      BY <1>2, <1>6
    <3>2. f[0] = TimeTo(s)[0]
      BY <3>1
    <3> QED BY <1>4, <3>2
  <2>3. ASSUME NEW j \in 1..Len(all) PROVE f[j] = f[j - 1] + all[j].t
    <3>0. j \in 1..(Len(s) + 1) /\ j \in 0..(Len(s) + 1) /\ j - 1 \in 0..(Len(s) + 1)
      BY <1>2, <1>11
    <3>1. ASSUME j < at + 1 PROVE f[j] = f[j - 1] + all[j].t
      <4>1. f[j] = TimeTo(s)[j] /\ f[j - 1] = TimeTo(s)[j - 1]
        <5>1. j - 1 < at + 1
          BY <1>6, <3>0, <3>1
        <5> QED BY <3>0, <3>1, <5>1
      <4> HIDE DEF f
      <4> QED BY <1>4, <1>13, <3>0, <3>1, <4>1
    <3>2. ASSUME j = at + 1 PROVE f[j] = f[j - 1] + all[j].t
      <4>1. f[j] = msecs
        BY <3>0, <3>2, <1>6
      <4>2. f[j - 1] = TimeTo(s)[at]
        <5>1. j - 1 = at /\ j - 1 < at + 1
          BY <1>6, <3>2
        <5> QED BY <3>0, <5>1
      <4>3. all[j].t = msecs - TimeTo(s)[at]
        BY <1>6, <1>13, <3>0, <3>2
      <4> HIDE DEF f
      <4> QED BY <1>6, <4>1, <4>2, <4>3
    <3>3. ASSUME j > at + 1 PROVE f[j] = f[j - 1] + all[j].t
      <4>1. /\ j - 1 \in 1..Len(s) /\ j - 1 \in 0..Len(s) /\ (j - 1) - 1 \in 0..Len(s)
            /\ ~(j < at + 1) /\ j # at + 1 /\ ~(j - 1 < at + 1)
        BY <1>2, <1>6, <3>0, <3>3
      <4>2. f[j] = TimeTo(s)[j - 1]
        BY <3>0, <4>1
      <4>3. /\ TimeTo(s)[j - 1] = TimeTo(s)[(j - 1) - 1] + s[j - 1].t
            /\ TimeTo(s)[(j - 1) - 1] \in Nat /\ s[j - 1].t \in Nat
        BY <1>2, <1>4, <4>1
      <4>4. ASSUME j = at + 2 PROVE f[j] = f[j - 1] + all[j].t
        <5>1. j - 1 = at + 1 /\ (j - 1) - 1 = at
          BY <1>6, <4>4
        <5>2. f[j - 1] = msecs
          BY <3>0, <4>1, <5>1
        <5>3. all[j].t = s[j - 1].t - (msecs - TimeTo(s)[at])
          BY <1>6, <1>13, <3>0, <3>3, <4>4
        <5> HIDE DEF f
        <5>4. \A a, b, c \in Nat : a + b = c + (b - (c - a))
          OBVIOUS
        <5>5. TimeTo(s)[at] + s[j - 1].t = msecs + (s[j - 1].t - (msecs - TimeTo(s)[at]))
          BY <1>6, <4>3, <5>4
        <5> QED BY <4>2, <4>3, <5>1, <5>2, <5>3, <5>5
      <4>5. ASSUME j # at + 2 PROVE f[j] = f[j - 1] + all[j].t
        <5>1. j - 1 # at + 1
          BY <1>6, <3>0, <4>5
        <5>2. f[j - 1] = TimeTo(s)[(j - 1) - 1]
          BY <3>0, <4>1, <5>1
        <5>3. all[j].t = s[j - 1].t
          BY <1>13, <3>0, <3>3, <4>5
        <5> HIDE DEF f
        <5> QED BY <4>2, <4>3, <5>2, <5>3
      <4> QED BY <4>4, <4>5
    <3>4. j < at + 1 \/ j = at + 1 \/ j > at + 1
      BY <1>6, <3>0
    <3> QED BY <3>1, <3>2, <3>3, <3>4
  <2> HIDE DEF f
  <2> QED BY <1>11, <2>1, <2>2, <2>3, SumIs
<1>21. DueAfter(all, h, msecs)
  <2>1. at + 1 \in 0..(Len(s) + 1) /\ ~(at + 1 < at + 1)
    BY <1>2, <1>6
  <2>2. TimeTo(all)[at + 1] = msecs
    BY <1>20, <2>1
  <2> HIDE DEF f
  <2> QED BY <1>11, <1>18, <2>2 DEF DueAfter
<1>22. ASSUME NEW g \in Handlers(s), NEW d \in Nat, DueAfter(s, g, d)
       PROVE  DueAfter(all, g, d)
  <2>1. PICK i \in 1..Len(s) : s[i].h = g /\ TimeTo(s)[i] = d
    BY <1>22 DEF DueAfter
  <2>2. TimeTo(all)[to(i)] = d
    <3>1. i < at + 1 => /\ i \in 0..(Len(s) + 1) /\ to(i) = i
                        /\ f[i] = TimeTo(s)[i]
      BY <1>2
    <3>2. ASSUME ~(i < at + 1) PROVE to(i) = i + 1 /\ f[i + 1] = TimeTo(s)[i]
      <4>1. i + 1 \in 0..(Len(s) + 1) /\ ~(i + 1 < at + 1) /\ i + 1 # at + 1
            /\ (i + 1) - 1 = i
        BY <1>2, <1>6, <3>2
      <4>2. f[i + 1] = TimeTo(s)[(i + 1) - 1]
        BY <4>1
      <4> HIDE DEF f
      <4> QED BY <3>2, <4>1, <4>2
    <3> HIDE DEF f, to
    <3> QED BY <1>20, <2>1, <3>1, <3>2
  <2> HIDE DEF f, to
  <2> QED BY <1>11, <1>17, <2>1, <2>2 DEF DueAfter
<1> HIDE DEF f, to
<1> QED BY <1>1, <1>16, <1>19, <1>21, <1>22

-----------------------------------------------------------------------------
(* When each timer is due                                                  *)

DueIn(s, h) == CHOOSE d \in Nat : DueAfter(s, h, d)

LEMMA DueOf ==
    ASSUME NEW s, Timers(s)
    PROVE  /\ \A h \in Handlers(s) : DueIn(s, h) \in Nat /\ DueAfter(s, h, DueIn(s, h))
           /\ \A h, d : DueAfter(s, h, d) => d \in Nat /\ d = DueIn(s, h)
<1>1. s \in Seq(Timer) /\ Len(s) \in Nat /\ DOMAIN s = 1..Len(s)
  BY TimerSeq DEF Timers
<1>2. \A i \in 1..Len(s) : TimeTo(s)[i] \in Nat
  BY <1>1, SumOf
<1>3. \A h, d : DueAfter(s, h, d) => d \in Nat
  BY <1>2 DEF DueAfter
<1>4. ASSUME NEW h, NEW d, NEW e, DueAfter(s, h, d), DueAfter(s, h, e) PROVE d = e
  BY <1>1, <1>4 DEF DueAfter, Timers
<1>5. ASSUME NEW h \in Handlers(s) PROVE \E d \in Nat : DueAfter(s, h, d)
  <2>1. PICK i \in 1..Len(s) : s[i].h = h
    BY <1>1 DEF Handlers
  <2>2. DueAfter(s, h, TimeTo(s)[i])
    BY <2>1 DEF DueAfter
  <2> QED BY <1>2, <2>2
<1>6. ASSUME NEW h, NEW d \in Nat, DueAfter(s, h, d)
      PROVE  DueIn(s, h) \in Nat /\ DueAfter(s, h, DueIn(s, h))
  BY <1>6 DEF DueIn
<1> QED BY <1>3, <1>4, <1>5, <1>6

\* The first timer is due first.
LEMMA DueFirst ==
    ASSUME NEW s, Timers(s), Handlers(s) # {}
    PROVE  /\ Head(s).h \in Handlers(s) /\ Head(s).t \in Nat
           /\ DueIn(s, Head(s).h) = Head(s).t
           /\ \A h \in Handlers(s) : DueIn(s, h) >= Head(s).t
<1>1. s \in Seq(Timer) /\ Len(s) \in Nat /\ DOMAIN s = 1..Len(s)
  BY TimerSeq DEF Timers
<1>2. Len(s) >= 1 /\ 1 \in 1..Len(s)
  BY <1>1 DEF Handlers
<1>3. Head(s) = s[1]
  BY <1>1, <1>2
<1>4. TimeTo(s)[1] = s[1].t /\ \A i \in 1..Len(s) : TimeTo(s)[i] >= s[1].t
  BY <1>1, <1>2, SumFirst
<1>5. DueAfter(s, Head(s).h, Head(s).t)
  BY <1>2, <1>3, <1>4 DEF DueAfter
<1>6. \A h, d : DueAfter(s, h, d) => d >= Head(s).t
  BY <1>3, <1>4 DEF DueAfter
<1> QED BY <1>5, <1>6, DueOf, TailTimers

LEMMA DueTail ==
    ASSUME NEW s, Timers(s), Handlers(s) # {}
    PROVE  \A h \in Handlers(Tail(s)) :
              /\ h \in Handlers(s)
              /\ DueIn(s, h) \in Nat /\ DueIn(s, h) >= Head(s).t
              /\ DueIn(Tail(s), h) = DueIn(s, h) - Head(s).t
<1>1. SUFFICES ASSUME NEW h \in Handlers(Tail(s))
               PROVE  /\ h \in Handlers(s)
                      /\ DueIn(s, h) \in Nat /\ DueIn(s, h) >= Head(s).t
                      /\ DueIn(Tail(s), h) = DueIn(s, h) - Head(s).t
  OBVIOUS
<1>2. h \in Handlers(s) /\ Timers(Tail(s))
  BY TailTimers
<1>3. DueIn(s, h) \in Nat /\ DueAfter(s, h, DueIn(s, h))
  BY <1>2, DueOf
<1>4. DueIn(s, h) >= Head(s).t /\ DueAfter(Tail(s), h, DueIn(s, h) - Head(s).t)
  BY <1>3, TailTimers
<1> QED BY <1>2, <1>3, <1>4, DueOf

LEMMA DueCut ==
    ASSUME NEW s, Timers(s), Handlers(s) # {}, NEW x \in Nat, x <= Head(s).t
    PROVE  \A h \in Handlers(s) :
              /\ DueIn(s, h) \in Nat /\ DueIn(s, h) >= Head(s).t
              /\ DueIn([s EXCEPT ![1].t = x], h) = DueIn(s, h) - (Head(s).t - x)
<1> DEFINE r == [s EXCEPT ![1].t = x]
<1>1. SUFFICES ASSUME NEW h \in Handlers(s)
               PROVE  /\ DueIn(s, h) \in Nat /\ DueIn(s, h) >= Head(s).t
                      /\ DueIn(r, h) = DueIn(s, h) - (Head(s).t - x)
  OBVIOUS
<1>2. DueIn(s, h) \in Nat /\ DueAfter(s, h, DueIn(s, h))
  BY DueOf
<1>3. /\ DueIn(s, h) >= Head(s).t /\ Timers(r)
      /\ DueAfter(r, h, DueIn(s, h) - (Head(s).t - x))
  BY <1>2, CutTimers
<1> HIDE DEF r
<1> QED BY <1>2, <1>3, DueOf

LEMMA DueInserted ==
    ASSUME NEW s, Timers(s), NEW h \in Handler \ Handlers(s), NEW msecs \in Nat
    PROVE  /\ DueIn(Inserted(s, h, msecs), h) = msecs
           /\ \A g \in Handlers(s) : DueIn(Inserted(s, h, msecs), g) = DueIn(s, g)
<1> DEFINE r == Inserted(s, h, msecs)
<1>1. /\ Timers(r) /\ DueAfter(r, h, msecs)
      /\ \A g \in Handlers(s), d \in Nat : DueAfter(s, g, d) => DueAfter(r, g, d)
  BY InsertedTimers
<1>2. \A g \in Handlers(s) : DueIn(s, g) \in Nat /\ DueAfter(s, g, DueIn(s, g))
  BY DueOf
<1> HIDE DEF r
<1>3. \A g \in Handlers(s) : DueAfter(r, g, DueIn(s, g))
  BY <1>1, <1>2
<1>4. \A g, d : DueAfter(r, g, d) => d = DueIn(r, g)
  BY <1>1, DueOf
<1>5. DueIn(r, h) = msecs
  BY <1>1, <1>4
<1>6. \A g \in Handlers(s) : DueIn(r, g) = DueIn(s, g)
  BY <1>3, <1>4
<1> QED BY <1>5, <1>6 DEF r

-----------------------------------------------------------------------------
(* Time                                                                    *)

\* Timers s are on time, w ticks into a wait: with the time p that each has
\* waited and the time it is due in, none is set further off than its interval,
\* and those of q, which saw no message, not nearer either.
OnTime(s, p, q, w) ==
    \A h \in Handlers(s) : /\ p[h] + DueIn(s, h) <= Interval[h] + w
                           /\ h \in q => p[h] + DueIn(s, h) = Interval[h] + w

LEMMA HandlersAreKnown == ASSUME NEW s, Timers(s) PROVE Handlers(s) \subseteq Handler
<1>1. s \in Seq(Timer)
  BY DEF Timers
<1> QED BY <1>1, TimerSeq DEF Handlers

LEMMA InsertOnTime ==
    ASSUME NEW s, NEW p \in [Handler -> Nat], NEW q, Timers(s), OnTime(s, p, q, 0),
           NEW h \in Handler \ Handlers(s)
    PROVE  OnTime(Inserted(s, h, Interval[h]), [p EXCEPT ![h] = 0], q \cup {h}, 0)
<1> DEFINE r == Inserted(s, h, Interval[h])
           p1 == [p EXCEPT ![h] = 0]
<1>1. Interval[h] \in Nat
  BY TcpipTimersAssumption
<1>2. Handlers(r) = Handlers(s) \cup {h}
  BY <1>1, InsertedTimers
<1>3. DueIn(r, h) = Interval[h] /\ \A g \in Handlers(s) : DueIn(r, g) = DueIn(s, g)
  BY <1>1, DueInserted
<1>4. p1[h] = 0 /\ \A g \in Handlers(s) : p1[g] = p[g] /\ g # h
  BY HandlersAreKnown
<1> HIDE DEF r, p1
<1>5. ASSUME NEW g \in Handlers(s)
      PROVE  /\ p1[g] + DueIn(r, g) <= Interval[g] + 0
             /\ g \in q \cup {h} => p1[g] + DueIn(r, g) = Interval[g] + 0
  BY <1>3, <1>4 DEF OnTime
<1>6. p1[h] + DueIn(r, h) = Interval[h] + 0
  BY <1>1, <1>3, <1>4
<1>7. p1[h] + DueIn(r, h) <= Interval[h] + 0
  BY <1>1, <1>6
<1> QED BY <1>2, <1>5, <1>6, <1>7 DEF OnTime, r, p1

LEMMA TailOnTime ==
    ASSUME NEW s, NEW p \in [Handler -> Nat], NEW q, Timers(s), Handlers(s) # {},
           OnTime(s, p, q, Head(s).t), NEW q1, q1 \subseteq q
    PROVE  OnTime(Tail(s), p, q1, 0)
<1> SUFFICES ASSUME NEW h \in Handlers(Tail(s))
             PROVE  /\ p[h] + DueIn(Tail(s), h) <= Interval[h] + 0
                    /\ h \in q1 => p[h] + DueIn(Tail(s), h) = Interval[h] + 0
  BY DEF OnTime
<1>1. /\ h \in Handlers(s) /\ DueIn(s, h) \in Nat
      /\ DueIn(Tail(s), h) = DueIn(s, h) - Head(s).t
  BY DueTail
<1>2. Head(s).t \in Nat
  BY TailTimers
<1>3. h \in Handler
  BY <1>1, HandlersAreKnown
<1>4. p[h] \in Nat /\ Interval[h] \in Nat
  BY <1>3, TcpipTimersAssumption
<1> DEFINE pp == p[h]
           ii == Interval[h]
           dd == DueIn(s, h)
           tt == Head(s).t
<1>5. pp + dd <= ii + tt /\ (h \in q => pp + dd = ii + tt)
  BY <1>1 DEF OnTime
<1>6. pp \in Nat /\ ii \in Nat /\ dd \in Nat /\ tt \in Nat
  BY <1>1, <1>2, <1>4
<1> HIDE DEF pp, ii, dd, tt
<1>7. pp + (dd - tt) <= ii + 0
  BY <1>5, <1>6
<1>8. h \in q => pp + (dd - tt) = ii + 0
  BY <1>5, <1>6
<1> QED BY <1>1, <1>7, <1>8 DEF pp, ii, dd, tt

LEMMA CutOnTime ==
    ASSUME NEW s, NEW p \in [Handler -> Nat], NEW q, NEW w \in Nat,
           Timers(s), Handlers(s) # {},
           OnTime(s, p, q, w), NEW x \in Nat, x + w <= Head(s).t
    PROVE  OnTime([s EXCEPT ![1].t = x], p, {}, 0)
<1> DEFINE r == [s EXCEPT ![1].t = x]
<1>1. Head(s).t \in Nat
  BY TailTimers
<1>2. x <= Head(s).t
  BY <1>1
<1>3. Handlers(r) = Handlers(s)
  BY <1>2, CutTimers
<1>4. \A h \in Handlers(s) : DueIn(s, h) \in Nat
                             /\ DueIn(r, h) = DueIn(s, h) - (Head(s).t - x)
  BY <1>2, DueCut
<1> HIDE DEF r
<1>5. ASSUME NEW h \in Handlers(s) PROVE p[h] + DueIn(r, h) <= Interval[h] + 0
  <2> DEFINE pp == p[h]
             ii == Interval[h]
             dd == DueIn(s, h)
             tt == Head(s).t
  <2>1. pp + dd <= ii + w /\ x + w <= tt
    BY DEF OnTime
  <2>2. h \in Handler
    BY HandlersAreKnown
  <2>3. pp \in Nat /\ ii \in Nat /\ dd \in Nat /\ tt \in Nat
    BY <1>1, <1>4, <2>2, TcpipTimersAssumption
  <2>4. DueIn(r, h) = dd - (tt - x)
    BY <1>4
  <2> HIDE DEF pp, ii, dd, tt
  <2>5. pp + (dd - (tt - x)) <= ii + 0
    BY <2>1, <2>3
  <2> QED BY <2>4, <2>5 DEF pp, ii, dd, tt
<1> QED BY <1>3, <1>5 DEF OnTime, r

LEMMA TickOnTime ==
    ASSUME NEW s, NEW p \in [Handler -> Nat], NEW q, NEW w \in Nat,
           Timers(s), OnTime(s, p, q, w)
    PROVE  OnTime(s, [h \in Handler |-> p[h] + (IF h \in Handlers(s) THEN 1 ELSE 0)],
                  q, w + 1)
<1> DEFINE p1 == [h \in Handler |-> p[h] + (IF h \in Handlers(s) THEN 1 ELSE 0)]
<1> SUFFICES ASSUME NEW h \in Handlers(s)
             PROVE  /\ p1[h] + DueIn(s, h) <= Interval[h] + (w + 1)
                    /\ h \in q => p1[h] + DueIn(s, h) = Interval[h] + (w + 1)
  BY DEF OnTime
<1> DEFINE pp == p[h]
           ii == Interval[h]
           dd == DueIn(s, h)
<1>1. h \in Handler /\ DueIn(s, h) \in Nat
  BY HandlersAreKnown, DueOf
<1>2. p1[h] = pp + 1
  BY <1>1
<1>3. pp \in Nat /\ ii \in Nat /\ dd \in Nat
  BY <1>1, TcpipTimersAssumption
<1>4. pp + dd <= ii + w /\ (h \in q => pp + dd = ii + w)
  BY DEF OnTime
<1> HIDE DEF p1, pp, ii, dd
<1>5. (pp + 1) + dd <= ii + (w + 1)
  BY <1>3, <1>4
<1>6. h \in q => (pp + 1) + dd = ii + (w + 1)
  BY <1>3, <1>4
<1> QED BY <1>2, <1>5, <1>6 DEF ii, dd

-----------------------------------------------------------------------------
(* The invariant                                                           *)

\* The ticks of the wait that no message has ended yet.
Late == IF pc = "wait" THEN waited ELSE 0

Types ==
    /\ pc \in {"again", "wait", "message"} /\ waited \in Nat
    /\ patience \in [Handler -> Nat] /\ last \in Handler
    /\ pcbs \in 0..MaxPcbs

Lists ==
    /\ Timers(list) /\ {"ip_reass", "arp"} \subseteq Handlers(list)
    /\ quiet \subseteq Handlers(list)

Flag ==
    /\ active \in BOOLEAN
    /\ active <=> "tcp" \in Handlers(list)
    /\ pcbs > 0 => active

\* No wait goes past the first timer, and the timers are on time.
Punctual ==
    /\ pc = "wait" => waited <= Head(list).t
    /\ OnTime(list, patience, quiet, Late)

TInv == Types /\ Lists /\ Flag /\ Punctual

\* sys_timeout sets a timer that is not in the list.
LEMMA TimeoutKeeps ==
    ASSUME NEW s, Timers(s), NEW q \in SUBSET Handlers(s), NEW h \in Handler \ Handlers(s),
           NEW p \in [Handler -> Nat], OnTime(s, p, q, 0)
    PROVE  /\ Timers(Inserted(s, h, Interval[h]))
           /\ Handlers(Inserted(s, h, Interval[h])) = Handlers(s) \cup {h}
           /\ [p EXCEPT ![h] = 0] \in [Handler -> Nat]
           /\ q \cup {h} \subseteq Handlers(Inserted(s, h, Interval[h]))
           /\ OnTime(Inserted(s, h, Interval[h]), [p EXCEPT ![h] = 0], q \cup {h}, 0)
<1>1. Interval[h] \in Nat
  BY TcpipTimersAssumption
<1>2. /\ Timers(Inserted(s, h, Interval[h]))
      /\ Handlers(Inserted(s, h, Interval[h])) = Handlers(s) \cup {h}
  BY <1>1, InsertedTimers
<1>3. OnTime(Inserted(s, h, Interval[h]), [p EXCEPT ![h] = 0], q \cup {h}, 0)
  BY InsertOnTime
<1>4. [p EXCEPT ![h] = 0] \in [Handler -> Nat]
  OBVIOUS
<1> QED BY <1>2, <1>3, <1>4

LEMMA StartsSound == Init => TInv
<1> SUFFICES ASSUME Init PROVE TInv
  OBVIOUS
<1> DEFINE e == Entry("ip_reass", Interval["ip_reass"])
           p == [h \in Handler |-> 0]
<1>1. Interval["ip_reass"] \in Nat /\ "ip_reass" \in Handler /\ "arp" \in Handler
  BY TcpipTimersAssumption DEF Handler
<1>2. e \in Timer /\ e.h = "ip_reass" /\ e.t = Interval["ip_reass"]
  BY <1>1 DEF Entry, Timer
<1> HIDE DEF e
<1>3. /\ <<e>> \in Seq(Timer) /\ DOMAIN <<e>> = {1} /\ <<e>>[1] = e /\ Head(<<e>>) = e
  BY <1>2
<1>4. Timers(<<e>>) /\ Handlers(<<e>>) = {"ip_reass"}
  BY <1>2, <1>3 DEF Timers, Handlers
<1>5. OnTime(<<e>>, p, {"ip_reass"}, 0)
  <2>1. DueIn(<<e>>, "ip_reass") = Interval["ip_reass"]
    BY <1>2, <1>3, <1>4, DueFirst
  <2>2. p["ip_reass"] = 0
    BY <1>1
  <2>3. p["ip_reass"] + DueIn(<<e>>, "ip_reass") = Interval["ip_reass"] + 0
    BY <1>1, <2>1, <2>2
  <2>4. p["ip_reass"] + DueIn(<<e>>, "ip_reass") <= Interval["ip_reass"] + 0
    BY <1>1, <2>3
  <2> HIDE DEF p
  <2> QED BY <1>4, <2>3, <2>4 DEF OnTime
<1> DEFINE s == <<e>>
<1>6. "arp" \in Handler \ Handlers(s) /\ {"ip_reass"} \in SUBSET Handlers(s)
      /\ p \in [Handler -> Nat]
  BY <1>1, <1>4
<1>7. [p EXCEPT !["arp"] = 0] = p
  BY <1>1
<1> HIDE DEF p, s
<1>8. /\ Timers(Inserted(s, "arp", Interval["arp"]))
      /\ Handlers(Inserted(s, "arp", Interval["arp"])) = Handlers(s) \cup {"arp"}
      /\ OnTime(Inserted(s, "arp", Interval["arp"]), [p EXCEPT !["arp"] = 0],
                {"ip_reass"} \cup {"arp"}, 0)
  <2>1. Timers(s) /\ OnTime(s, p, {"ip_reass"}, 0)
    BY <1>4, <1>5 DEF s
  <2> DEFINE q == {"ip_reass"}
  <2>2. q \in SUBSET Handlers(s) /\ OnTime(s, p, q, 0)
    BY <1>6, <2>1
  <2> HIDE DEF q
  <2>3. /\ Timers(Inserted(s, "arp", Interval["arp"]))
        /\ Handlers(Inserted(s, "arp", Interval["arp"])) = Handlers(s) \cup {"arp"}
        /\ OnTime(Inserted(s, "arp", Interval["arp"]), [p EXCEPT !["arp"] = 0],
                  q \cup {"arp"}, 0)
    BY <1>6, <2>1, <2>2, TimeoutKeeps
  <2> QED BY <2>3 DEF q
<1>9. list = Inserted(s, "arp", Interval["arp"]) /\ patience = p
  BY DEF Init, e, s, p
<1>10. quiet = {"ip_reass"} \cup {"arp"}
  BY DEF Init
<1>11. pc = "again" /\ waited = 0 /\ active = FALSE /\ pcbs = 0 /\ last = "ip_reass"
  BY DEF Init
<1>12. Handlers(list) = {"ip_reass", "arp"}
  BY <1>4, <1>8, <1>9 DEF s
<1>13. Types
  BY <1>1, <1>6, <1>9, <1>11, TcpipTimersAssumption DEF Types
<1>14. Lists
  BY <1>8, <1>9, <1>10, <1>12 DEF Lists
<1>15. Flag
  <2>1. "tcp" \notin Handlers(list) /\ ~(pcbs > 0)
    BY <1>11, <1>12
  <2> QED BY <1>11, <2>1 DEF Flag
<1>16. Punctual
  BY <1>7, <1>8, <1>9, <1>10, <1>11 DEF Punctual, Late
<1> QED BY <1>13, <1>14, <1>15, <1>16 DEF TInv

\* Steps that leave the list alone, outside a wait.
LEMMA ListStays ==
    ASSUME TInv, pc # "wait", UNCHANGED <<list, patience, quiet>>,
           Types', active' = active, pcbs' > 0 => active, Late' = 0, waited' \in Nat,
           pc' = "wait" => waited' = 0 /\ Head(list).t > 0
    PROVE  TInv'
<1>1. Lists'
  BY DEF TInv, Lists
<1>2. Flag'
  BY DEF TInv, Flag
<1>3. Late = 0
  BY DEF Late
<1>4. OnTime(list', patience', quiet', Late')
  BY <1>3 DEF TInv, Punctual
<1>5. Timers(list) /\ Handlers(list) # {}
  BY DEF TInv, Lists
<1>6. pc' = "wait" => waited' <= Head(list').t
  BY <1>5, TailTimers
<1>7. Punctual'
  BY <1>4, <1>6 DEF Punctual
<1> QED BY <1>1, <1>2, <1>7 DEF TInv

LEMMA FetchKeeps == TInv /\ Fetch => TInv'
<1> SUFFICES ASSUME TInv, Fetch PROVE TInv'
  OBVIOUS
<1>1. Types' /\ active' = active /\ (pcbs' > 0 => active) /\ waited' \in Nat
  BY DEF TInv, Types, Fetch, Flag
<1>2. Late' = 0
  BY DEF Fetch, Late
<1> QED BY <1>1, <1>2, ListStays DEF Fetch

LEMMA HandledKeeps == TInv /\ Handled => TInv'
<1> SUFFICES ASSUME TInv, Handled PROVE TInv'
  OBVIOUS
<1>1. Types' /\ active' = active /\ (pcbs' > 0 => active) /\ waited' \in Nat
  BY DEF TInv, Types, Handled, Flag
<1>2. Late' = 0
  BY DEF Handled, Late
<1> QED BY <1>1, <1>2, ListStays DEF Handled

LEMMA UnregisterKeeps == TInv /\ Unregister => TInv'
<1> SUFFICES ASSUME TInv, Unregister PROVE TInv'
  OBVIOUS
<1>1. pcbs' \in 0..MaxPcbs
  BY TcpipTimersAssumption DEF TInv, Types, Unregister
<1>2. Types' /\ active' = active /\ waited' \in Nat
  BY <1>1 DEF TInv, Types, Unregister
<1>3. pcbs' > 0 => active
  BY DEF TInv, Flag, Unregister
<1>4. Late' = 0
  BY DEF Unregister, Late
<1> QED BY <1>2, <1>3, <1>4, ListStays DEF Unregister

LEMMA TickKeeps == TInv /\ Tick => TInv'
<1> SUFFICES ASSUME TInv, Tick PROVE TInv'
  OBVIOUS
<1>1. waited \in Nat /\ patience \in [Handler -> Nat] /\ Timers(list)
      /\ OnTime(list, patience, quiet, waited) /\ Handlers(list) # {}
  BY DEF TInv, Types, Lists, Punctual, Late, Tick
<1>2. OnTime(list, [h \in Handler |-> patience[h] + (IF h \in Handlers(list) THEN 1 ELSE 0)],
             quiet, waited + 1)
  BY <1>1, TickOnTime
<1>3. Pending = Handlers(list)
  BY DEF Pending, Handlers
<1>4. patience' = [h \in Handler |-> patience[h] + (IF h \in Handlers(list) THEN 1 ELSE 0)]
  BY <1>3 DEF Tick
<1>5. patience' \in [Handler -> Nat]
  BY <1>1, <1>4
<1>6. Types' /\ Lists' /\ Flag'
  BY <1>1, <1>5 DEF TInv, Types, Lists, Flag, Tick
<1>7. pc' = "wait" /\ waited' = waited + 1 /\ list' = list /\ quiet' = quiet
  BY DEF TInv, Types, Tick
<1>8. OnTime(list', patience', quiet', Late')
  BY <1>2, <1>4, <1>7 DEF Late
<1>9. waited' <= Head(list').t
  BY <1>1, <1>7, TailTimers DEF Tick
<1> QED BY <1>6, <1>8, <1>9 DEF TInv, Punctual

LEMMA MessageKeeps == TInv /\ Message => TInv'
<1> SUFFICES ASSUME TInv, Message PROVE TInv'
  OBVIOUS
<1> DEFINE t == Head(list).t
           e == Elapsed(waited)
           x == IF e < t THEN t - e ELSE 0
<1>1. waited \in Nat /\ patience \in [Handler -> Nat] /\ Timers(list)
      /\ OnTime(list, patience, quiet, waited) /\ Handlers(list) # {}
  BY DEF TInv, Types, Lists, Punctual, Late, Message
<1>2. t \in Nat /\ waited < t
  BY <1>1, TailTimers DEF Message
<1>3. e \in Nat /\ e >= waited
  BY <1>1, TcpipTimersAssumption DEF Elapsed
<1>4. list' = [list EXCEPT ![1].t = x] /\ pc' = "message" /\ quiet' = {}
      /\ patience' = patience /\ waited' = waited /\ active' = active /\ pcbs' = pcbs
      /\ last' = last
  BY DEF Message
<1> HIDE DEF t, e
<1>5. x \in Nat /\ x + waited <= t /\ x <= t
  BY <1>1, <1>2, <1>3
<1> HIDE DEF x
<1>6. OnTime([list EXCEPT ![1].t = x], patience, {}, 0)
  BY <1>1, <1>5, CutOnTime DEF t
<1>7. /\ Timers([list EXCEPT ![1].t = x])
      /\ Handlers([list EXCEPT ![1].t = x]) = Handlers(list)
  BY <1>1, <1>5, CutTimers DEF t
<1>8. Timers(list') /\ Handlers(list') = Handlers(list)
  BY <1>4, <1>7
<1>9. Types' /\ Lists' /\ Flag'
  BY <1>4, <1>8 DEF TInv, Types, Lists, Flag
<1>10. OnTime(list', patience', quiet', Late')
  BY <1>4, <1>6 DEF Late
<1> QED BY <1>4, <1>9, <1>10 DEF TInv, Punctual

LEMMA RegisterKeeps == TInv /\ Register => TInv'
<1> SUFFICES ASSUME TInv, Register PROVE TInv'
  OBVIOUS
<1>1. pcbs' \in 0..MaxPcbs /\ pcbs' > 0
  BY TcpipTimersAssumption DEF TInv, Types, Register
<1>2. ASSUME active PROVE TInv'
  <2>1. UNCHANGED <<list, active, patience, quiet>> /\ pc # "wait" /\ pc' = "again"
        /\ waited' = waited /\ last' = last
    BY <1>2 DEF Register
  <2>2. Types' /\ waited' \in Nat
    BY <1>1, <2>1 DEF TInv, Types
  <2>3. Late' = 0
    BY <2>1 DEF Late
  <2> QED BY <1>2, <2>1, <2>2, <2>3, ListStays
<1>3. ASSUME ~active PROVE TInv'
  <2>1. /\ active' = TRUE /\ pc' = "again" /\ waited' = waited /\ last' = last /\ pc # "wait"
        /\ list' = Inserted(list, "tcp", Interval["tcp"])
        /\ patience' = [patience EXCEPT !["tcp"] = 0]
        /\ quiet' = quiet \cup {"tcp"}
    BY <1>3 DEF Register, Timeout
  <2>2. /\ "tcp" \in Handler \ Handlers(list) /\ quiet \in SUBSET Handlers(list)
        /\ Timers(list) /\ patience \in [Handler -> Nat]
    BY <1>3 DEF TInv, Types, Lists, Flag, Handler
  <2>3. OnTime(list, patience, quiet, 0)
    BY <2>1 DEF TInv, Punctual, Late
  <2>4. /\ Timers(list') /\ Handlers(list') = Handlers(list) \cup {"tcp"}
        /\ patience' \in [Handler -> Nat] /\ quiet' \subseteq Handlers(list')
        /\ OnTime(list', patience', quiet', 0)
    BY <2>1, <2>2, <2>3, TimeoutKeeps
  <2>5. Types'
    BY <1>1, <2>1, <2>4 DEF TInv, Types
  <2>6. Lists'
    BY <2>4 DEF TInv, Lists
  <2>7. Flag'
    BY <2>1, <2>4 DEF Flag
  <2>8. Punctual'
    BY <2>1, <2>4 DEF Punctual, Late
  <2> QED BY <2>5, <2>6, <2>7, <2>8 DEF TInv
<1> QED BY <1>2, <1>3

LEMMA ExpireKeeps == TInv /\ Expire => TInv'
<1> SUFFICES ASSUME TInv, Expire PROVE TInv'
  OBVIOUS
<1> DEFINE h == Head(list).h
           s == Tail(list)
           q == quiet \ {h}
<1>1. /\ Timers(list) /\ Handlers(list) # {} /\ patience \in [Handler -> Nat]
      /\ waited \in Nat /\ quiet \subseteq Handlers(list)
      /\ OnTime(list, patience, quiet, Late)
      /\ {"ip_reass", "arp"} \subseteq Handlers(list)
  BY DEF TInv, Types, Lists, Punctual
<1>2. Late = Head(list).t
  BY <1>1 DEF Expire, Late
<1>3. /\ Timers(s) /\ Handlers(s) = Handlers(list) \ {h} /\ h \in Handlers(list)
  BY <1>1, TailTimers
<1>4. h \in Handler \ Handlers(s)
  BY <1>1, <1>3, HandlersAreKnown
<1>5. q \in SUBSET Handlers(s)
  BY <1>1, <1>3
<1>6. OnTime(s, patience, q, 0)
  BY <1>1, <1>2, TailOnTime
<1> HIDE DEF h, s
<1>7. /\ Timers(Inserted(s, h, Interval[h]))
      /\ Handlers(Inserted(s, h, Interval[h])) = Handlers(list)
      /\ [patience EXCEPT ![h] = 0] \in [Handler -> Nat]
      /\ q \cup {h} \subseteq Handlers(list)
      /\ OnTime(Inserted(s, h, Interval[h]), [patience EXCEPT ![h] = 0], q \cup {h}, 0)
  <2>1. Handlers(Inserted(s, h, Interval[h])) = Handlers(s) \cup {h}
    BY <1>1, <1>3, <1>4, <1>5, <1>6, TimeoutKeeps
  <2>2. Handlers(s) \cup {h} = Handlers(list)
    BY <1>3
  <2> HIDE DEF q
  <2> QED BY <1>1, <1>3, <1>4, <1>5, <1>6, <2>1, <2>2, TimeoutKeeps
<1>8. quiet \cup {h} = q \cup {h}
  OBVIOUS
<1> HIDE DEF q
<1>9. pc' = "again" /\ waited' = waited /\ last' = h /\ h \in Handler /\ Late' = 0
  BY <1>4 DEF Expire, Late, h
\* A timer that goes on.
<1>10. ASSUME Timeout(s, h), active' = active, pcbs' \in 0..MaxPcbs, pcbs' > 0 => active
       PROVE  TInv'
  <2>1. /\ list' = Inserted(s, h, Interval[h])
        /\ patience' = [patience EXCEPT ![h] = 0]
        /\ quiet' = q \cup {h}
    BY <1>8, <1>10 DEF Timeout
  <2>2. Types'
    BY <1>1, <1>7, <1>9, <1>10, <2>1 DEF Types
  <2>3. Lists'
    BY <1>1, <1>7, <2>1 DEF Lists
  <2>4. Flag'
    <3>1. Handlers(list') = Handlers(list)
      BY <1>7, <2>1
    <3> QED BY <1>10, <3>1 DEF TInv, Flag
  <2>5. Punctual'
    BY <1>7, <1>9, <2>1 DEF Punctual
  <2> QED BY <2>2, <2>3, <2>4, <2>5 DEF TInv
<1>11. ASSUME h # "tcp" PROVE TInv'
  <2>1. Timeout(s, h) /\ active' = active /\ pcbs' = pcbs
    BY <1>11 DEF Expire, h, s
  <2>2. pcbs' \in 0..MaxPcbs /\ (pcbs' > 0 => active)
    BY <2>1 DEF TInv, Types, Flag
  <2> QED BY <1>10, <2>1, <2>2
<1>12. ASSUME h = "tcp" PROVE TInv'
  <2>1. PICK n \in 0..pcbs : TcpipTcpTimer(n)
    BY <1>12 DEF Expire, h
  <2>2. pcbs' = n /\ n \in Nat /\ n \in 0..MaxPcbs
    BY <2>1, TcpipTimersAssumption DEF TcpipTcpTimer, TInv, Types
  <2>3. active
    BY <1>3, <1>12 DEF TInv, Flag
  <2>4. ASSUME n > 0 PROVE TInv'
    <3>1. Timeout(s, h) /\ active' = active
      BY <1>12, <2>1, <2>4 DEF TcpipTcpTimer, s
    <3> QED BY <1>10, <2>2, <2>3, <3>1
  <2>5. ASSUME ~(n > 0) PROVE TInv'
    <3>1. /\ active' = FALSE /\ list' = s /\ quiet' = q /\ patience' = patience
      BY <1>12, <2>1, <2>5 DEF TcpipTcpTimer, s, q
    <3>2. Types'
      BY <1>1, <1>9, <2>2, <3>1 DEF Types
    <3>3. Lists'
      BY <1>1, <1>3, <1>5, <1>12, <3>1 DEF Lists
    <3>4. "tcp" \notin Handlers(list') /\ ~(pcbs' > 0)
      BY <1>3, <1>12, <2>2, <2>5, <3>1
    <3>5. Flag'
      BY <3>1, <3>4 DEF Flag
    <3>6. Punctual'
      BY <1>6, <1>9, <3>1 DEF Punctual
    <3> QED BY <3>2, <3>3, <3>5, <3>6 DEF TInv
  <2> QED BY <2>4, <2>5
<1> QED BY <1>11, <1>12

LEMMA StepKeeps == TInv /\ [Next]_vars => TInv'
<1>1. TInv /\ UNCHANGED vars => TInv'
  BY DEF vars, TInv, Types, Lists, Flag, Punctual, Late
<1> QED BY <1>1, FetchKeeps, TickKeeps, MessageKeeps, ExpireKeeps, RegisterKeeps,
           UnregisterKeeps, HandledKeeps DEF Next, Thread

LEMMA InvariantHolds == Spec => []TInv
  BY StartsSound, StepKeeps, PTL DEF Spec

\* tcp_timer_needed and tcpip_tcp_timer keep one TCP timer while there are
\* connections and none without, and tcpip_tcp_timer_active says which.
THEOREM OneTcpTimer == Spec => []TcpTimerRuns
<1>1. TInv => TcpTimerRuns
  BY DEF TInv, Lists, Flag, TcpTimerRuns, Timers, Handlers, Pending
<1> QED BY <1>1, InvariantHolds, PTL

\* sys_timeouts_mbox_fetch never runs a timer later than sys_timeout was told,
\* for every interval and however messages cut the times in the list, and one
\* that saw no message runs to the tick.
THEOREM NoTimerIsLate == Spec => []NeverLate
<1>1. TInv => NeverLate
  <2> SUFFICES ASSUME TInv PROVE NeverLate
    OBVIOUS
  <2>1. /\ Timers(list) /\ Handlers(list) # {} /\ patience \in [Handler -> Nat]
        /\ waited \in Nat /\ quiet \subseteq Handlers(list) /\ Late \in Nat
        /\ OnTime(list, patience, quiet, Late)
    BY DEF TInv, Types, Lists, Punctual, Late
  <2>2. Handlers(list) \subseteq Handler /\ Pending = Handlers(list)
    BY <2>1, HandlersAreKnown DEF Pending, Handlers
  <2>3. TypeOK
    BY <2>1, <2>2 DEF TInv, Types, Lists, Flag, Timers, Timer, TypeOK
  <2>4. Late <= Head(list).t /\ Head(list).t \in Nat
    BY <2>1, DueFirst DEF TInv, Punctual, Late
  <2>5. ASSUME NEW h \in Handlers(list) PROVE patience[h] <= Interval[h]
    <3> DEFINE pp == patience[h]
               ii == Interval[h]
               dd == DueIn(list, h)
               tt == Head(list).t
    <3>1. pp + dd <= ii + Late
      BY <2>1 DEF OnTime
    <3>2. dd \in Nat /\ dd >= tt /\ pp \in Nat /\ ii \in Nat
      BY <2>1, <2>2, DueOf, DueFirst, TcpipTimersAssumption
    <3>3. tt \in Nat /\ Late <= tt
      BY <2>4
    <3> HIDE DEF pp, ii, dd, tt
    <3>4. pp <= ii
      BY <2>1, <3>1, <3>2, <3>3
    <3> QED BY <3>4 DEF pp, ii
  <2>6. ASSUME NEW h \in quiet, pc = "wait", Head(list).h = h, waited = Head(list).t
        PROVE  patience[h] = Interval[h]
    <3>1. Late = Head(list).t /\ DueIn(list, h) = Head(list).t
      BY <2>1, <2>6, DueFirst DEF Late
    <3>2. patience[h] + DueIn(list, h) = Interval[h] + Late
      BY <2>1 DEF OnTime
    <3>3. patience[h] \in Nat /\ Interval[h] \in Nat
      BY <2>1, <2>2, TcpipTimersAssumption
    <3> QED BY <2>4, <3>1, <3>2, <3>3
  <2> QED BY <2>2, <2>3, <2>5, <2>6 DEF NeverLate
<1> QED BY <1>1, InvariantHolds, PTL

-----------------------------------------------------------------------------
(* The alarm clock                                                         *)

LeftOf(s) == [h \in Handlers(s) |-> DueIn(s, h)]

\* Left, of any list.
LeftIn(s) ==
    LET sum[i \in 0..Len(s)] == IF i = 0 THEN 0 ELSE sum[i - 1] + s[i].t
    IN [h \in {s[i].h : i \in DOMAIN s} |-> sum[CHOOSE i \in DOMAIN s : s[i].h = h]]

LEMMA LeftIs == ASSUME NEW s, Timers(s) PROVE LeftIn(s) = LeftOf(s)
<1> DEFINE sum == CHOOSE sum : sum = [i \in 0..Len(s) |->
                      IF i = 0 THEN 0 ELSE sum[i - 1] + s[i].t]
<1>1. sum = TimeTo(s)
  BY DEF TimeTo, Sums
<1>2. LeftIn(s) = [h \in Handlers(s) |-> sum[CHOOSE i \in DOMAIN s : s[i].h = h]]
  BY DEF LeftIn, Handlers
<1> HIDE DEF sum
<1>3. DOMAIN s = 1..Len(s)
  BY TimerSeq DEF Timers
<1>4. ASSUME NEW h \in Handlers(s)
      PROVE  TimeTo(s)[CHOOSE i \in DOMAIN s : s[i].h = h] = DueIn(s, h)
  <2> DEFINE k == CHOOSE i \in DOMAIN s : s[i].h = h
  <2>1. k \in DOMAIN s /\ s[k].h = h
    BY DEF Handlers
  <2> HIDE DEF k
  <2>2. DueAfter(s, h, TimeTo(s)[k])
    BY <1>3, <2>1 DEF DueAfter
  <2>3. TimeTo(s)[k] = DueIn(s, h)
    BY <2>2, DueOf
  <2> QED BY <2>3 DEF k
<1> QED BY <1>1, <1>2, <1>4 DEF LeftOf

LEMMA LeftNow ==
    TInv /\ TInv' => Left = LeftOf(list) /\ Left' = LeftOf(list')
<1>1. Left = LeftIn(list) /\ Left' = LeftIn(list')
  BY DEF Left, LeftIn, Pending
<1>2. ASSUME TInv, TInv' PROVE Timers(list) /\ Timers(list')
  BY <1>2 DEF TInv, Lists
<1> QED BY <1>1, <1>2, LeftIs

\* The alarms set at the start have their whole intervals left.
LEMMA AlarmsStart == Init => A!Init
<1> SUFFICES ASSUME Init PROVE A!Init
  OBVIOUS
<1>1. TInv
  BY StartsSound
<1>2. Left = LeftOf(list)
  <2>1. Left = LeftIn(list) /\ Timers(list)
    BY <1>1 DEF Left, LeftIn, Pending, TInv, Lists
  <2> QED BY <2>1, LeftIs
<1>3. Handlers(list) = {"ip_reass", "arp"} /\ quiet = Handlers(list)
  <2>1. "tcp" \notin Handlers(list)
    BY <1>1 DEF TInv, Flag, Init
  <2>2. Handlers(list) \subseteq Handler
    BY <1>1, HandlersAreKnown DEF TInv, Lists
  <2> QED BY <1>1, <2>1, <2>2 DEF TInv, Lists, Init, Handler
<1>4. ASSUME NEW h \in Handlers(list) PROVE DueIn(list, h) = Interval[h]
  <2>1. h \in Handler
    BY <1>3 DEF Handler
  <2>2. patience[h] = 0 /\ Late = 0
    BY <2>1 DEF Init, Late
  <2>3. patience[h] + DueIn(list, h) = Interval[h] + Late
    BY <1>1, <1>3 DEF TInv, Punctual, OnTime
  <2>4. DueIn(list, h) \in Nat /\ Interval[h] \in Nat
    BY <1>1, <2>1, DueOf, TcpipTimersAssumption DEF TInv, Lists
  <2> QED BY <2>2, <2>3, <2>4
<1>5. LeftOf(list) = [h \in Handlers(list) |-> Interval[h]]
  BY <1>4 DEF LeftOf
<1>6. Handlers(list) \in SUBSET Handler
  BY <1>3 DEF Handler
<1> HIDE DEF Left
<1> QED BY <1>2, <1>5, <1>6 DEF A!Init

LEMMA MessagePasses ==
    ASSUME TInv, TInv', Message
    PROVE  A!Next
<1> DEFINE t == Head(list).t
           e == Elapsed(waited)
           x == IF e < t THEN t - e ELSE 0
           d == t - x
<1>1. Timers(list) /\ Handlers(list) # {} /\ waited \in Nat
  BY DEF TInv, Lists, Types
<1>2. t \in Nat
  BY <1>1, TailTimers
<1>3. e \in Nat
  BY <1>1, TcpipTimersAssumption DEF Elapsed
<1>4. list' = [list EXCEPT ![1].t = x]
  BY DEF Message
<1> HIDE DEF t, e
<1>5. x \in Nat /\ x <= t
  BY <1>2, <1>3
<1> HIDE DEF x
<1>6. Handlers(list') = Handlers(list)
  BY <1>1, <1>4, <1>5, CutTimers DEF t
<1>7. \A h \in Handlers(list) : /\ DueIn(list, h) \in Nat /\ DueIn(list, h) >= t
                                /\ DueIn(list', h) = DueIn(list, h) - d
  BY <1>1, <1>4, <1>5, DueCut DEF t
<1>8. d \in Nat /\ d <= t
  BY <1>2, <1>5
<1> HIDE DEF d, Left
<1>9. Left = LeftOf(list) /\ Left' = LeftOf(list')
  BY LeftNow
<1>10. A!Pending = Handlers(list) /\ \A a \in Handlers(list) : Left[a] = DueIn(list, a)
  BY <1>9 DEF A!Pending, LeftOf
<1>11. Left' = [a \in A!Pending |-> Left[a] - d]
  BY <1>6, <1>7, <1>9, <1>10 DEF LeftOf
<1>12. ASSUME NEW a \in A!Pending PROVE d <= Left[a] /\ d \in 0..Left[a]
  <2>1. DueIn(list, a) \in Nat /\ DueIn(list, a) >= t /\ Left[a] = DueIn(list, a)
    BY <1>7, <1>10
  <2> QED BY <1>2, <1>8, <2>1
<1>13. PICK a \in A!Pending : TRUE
  BY <1>1, <1>10
<1>14. A!Pass(d)
  BY <1>11, <1>12 DEF A!Pass
<1> QED BY <1>12, <1>13, <1>14 DEF A!Next

LEMMA RegisterSets ==
    ASSUME TInv, TInv', Register
    PROVE  A!Next \/ UNCHANGED Left
<1>1. ASSUME active PROVE UNCHANGED Left
  <2>1. list' = list
    BY <1>1 DEF Register
  <2>2. Left = LeftOf(list) /\ Left' = LeftOf(list')
    BY LeftNow
  <2> HIDE DEF Left
  <2> QED BY <2>1, <2>2
<1>2. ASSUME ~active PROVE A!Next
  <2>1. list' = Inserted(list, "tcp", Interval["tcp"])
    BY <1>2 DEF Register, Timeout
  <2>2. "tcp" \in Handler \ Handlers(list) /\ Interval["tcp"] \in Nat /\ Timers(list)
    BY <1>2, TcpipTimersAssumption DEF TInv, Lists, Flag, Handler
  <2>3. /\ Handlers(list') = Handlers(list) \cup {"tcp"}
        /\ DueIn(list', "tcp") = Interval["tcp"]
        /\ \A g \in Handlers(list) : DueIn(list', g) = DueIn(list, g)
    BY <2>1, <2>2, InsertedTimers, DueInserted
  <2> HIDE DEF Left
  <2>4. Left = LeftOf(list) /\ Left' = LeftOf(list')
    BY LeftNow
  <2>5. A!Pending = Handlers(list) /\ \A a \in Handlers(list) : Left[a] = DueIn(list, a)
    BY <2>4 DEF A!Pending, LeftOf
  <2>6. Left' = [b \in A!Pending \cup {"tcp"} |->
                    IF b = "tcp" THEN Interval["tcp"] ELSE Left[b]]
    BY <2>2, <2>3, <2>4, <2>5 DEF LeftOf
  <2>7. A!Set("tcp")
    BY <2>2, <2>5, <2>6 DEF A!Set
  <2> QED BY <2>2, <2>7 DEF A!Next
<1> QED BY <1>1, <1>2

LEMMA ExpireRings ==
    ASSUME TInv, TInv', Expire
    PROVE  A!Next
<1> DEFINE h == Head(list).h
           s == Tail(list)
<1>1. Timers(list) /\ Handlers(list) # {}
  BY DEF TInv, Lists
<1>2. /\ Timers(s) /\ Handlers(s) = Handlers(list) \ {h} /\ h \in Handlers(list)
  BY <1>1, TailTimers
<1>3. h \in Handler \ Handlers(s) /\ Interval[h] \in Nat
  BY <1>1, <1>2, HandlersAreKnown, TcpipTimersAssumption
<1>4. /\ DueIn(list, h) = Head(list).t
      /\ \A b \in Handlers(list) : DueIn(list, h) <= DueIn(list, b)
  <2>1. DueIn(list, h) = Head(list).t /\ Head(list).t \in Nat
        /\ \A b \in Handlers(list) : DueIn(list, b) >= Head(list).t
    BY <1>1, DueFirst
  <2>2. \A b \in Handlers(list) : DueIn(list, b) \in Nat
    BY <1>1, DueOf
  <2> HIDE DEF h
  <2> QED BY <2>1, <2>2
<1>5. \A b \in Handlers(s) : DueIn(s, b) = DueIn(list, b) - DueIn(list, h)
  BY <1>1, <1>4, DueTail
<1> HIDE DEF h, s, Left
<1>6. Left = LeftOf(list) /\ Left' = LeftOf(list')
  BY LeftNow
<1>7. A!Pending = Handlers(list) /\ \A a \in Handlers(list) : Left[a] = DueIn(list, a)
  BY <1>6 DEF A!Pending, LeftOf
<1>8. h \in A!Pending /\ \A b \in A!Pending : Left[h] <= Left[b]
  BY <1>2, <1>4, <1>7
<1>9. ASSUME list' = Inserted(s, h, Interval[h]) PROVE A!Next
  <2>1. /\ Handlers(list') = Handlers(list)
        /\ DueIn(list', h) = Interval[h]
        /\ \A b \in Handlers(s) : DueIn(list', b) = DueIn(s, b)
    <3>1. Handlers(list') = Handlers(s) \cup {h}
      BY <1>2, <1>3, <1>9, InsertedTimers
    <3> QED BY <1>2, <1>3, <1>9, <3>1, DueInserted
  <2>2. Left' = [b \in A!Pending |-> IF b = h THEN Interval[h] ELSE Left[b] - Left[h]]
    BY <1>2, <1>5, <1>6, <1>7, <2>1 DEF LeftOf
  <2>3. A!Ring(h, TRUE)
    BY <1>8, <2>2 DEF A!Ring
  <2> QED BY <1>3, <2>3 DEF A!Next
<1>10. ASSUME list' = s PROVE A!Next
  <2>1. Left' = [b \in A!Pending \ {h} |-> IF b = h THEN Interval[h] ELSE Left[b] - Left[h]]
    BY <1>2, <1>5, <1>6, <1>7, <1>10 DEF LeftOf
  <2>2. A!Ring(h, FALSE)
    BY <1>8, <2>1 DEF A!Ring
  <2> QED BY <1>3, <2>2 DEF A!Next
<1>11. list' = s \/ list' = Inserted(s, h, Interval[h])
  BY DEF Expire, TcpipTcpTimer, Timeout, h, s
<1> QED BY <1>9, <1>10, <1>11

\* The list of differences of timers.c implements an alarm clock: setting a
\* timer moves no other, a message ages all of them alike and not past the
\* first, and the first is the one that runs.
THEOREM TimersAreAnAlarmClock == Spec => ImplementsAlarmClock
<1>1. ASSUME TInv, TInv', [Next]_vars PROVE [A!Next]_Left
  <2>1. ASSUME list' = list PROVE UNCHANGED Left
    <3>1. Left = LeftOf(list) /\ Left' = LeftOf(list')
      BY <1>1, LeftNow
    <3> HIDE DEF Left
    <3> QED BY <2>1, <3>1
  <2>2. \/ list' = list \/ Message \/ Register \/ Expire
    BY <1>1 DEF Next, Thread, Fetch, Tick, Unregister, Handled, vars
  <2> HIDE DEF Left
  <2> QED BY <1>1, <2>1, <2>2, MessagePasses, RegisterSets, ExpireRings
<1>2. TInv /\ TInv' /\ [Next]_vars => [A!Next]_Left
  BY <1>1
<1> QED BY <1>2, InvariantHolds, AlarmsStart, PTL DEF Spec, ImplementsAlarmClock, A!Spec

=============================================================================
