--------------------------- MODULE NetconnProofs ----------------------------
(***************************************************************************)
(* Theorems about Netconn, for every number of netconns, events and        *)
(* buffers.  The invariant describes the states in which no mailbox of     *)
(* another netconn has been used (Sane).                                   *)
(***************************************************************************)
EXTENDS Netconn, FiniteSetTheorems, SequenceTheorems, TLAPS

\* s is a list of the elements of T, each of them once.
ListOf(s, T) == s \in Seq(T) /\ ToSet(s) = T /\ IsInjective(s)

\* The free lists.
Lists ==
    /\ ListOf(evFree, {e \in Event : kind[e] = "unused"})
    /\ ListOf(blocks, {c \in Conn : use[c] = "free"})

\* A netconn that is not free has a semaphore of its own, and so has every
\* semaphore a netconn.
Sems ==
    /\ \A c \in Conn : use[c] # "free" => sem[c] \in Event /\ kind[sem[c]] = "sem"
    /\ \A c, d \in Conn : use[c] # "free" /\ use[d] # "free" /\ sem[c] = sem[d] => c = d
    /\ \A e \in Event : kind[e] = "sem" => \E c \in Conn : use[c] # "free" /\ sem[c] = e

\* A live netconn works with recvmbox, a mailbox of its own: the listener's
\* acceptmbox was made from the same event.
Boxes ==
    /\ \A c \in Conn : Live(c) => recvmbox[c] \in Event /\ kind[recvmbox[c]] = "queue"
    /\ \A c, d \in Conn : Live(c) /\ Live(d) /\ recvmbox[c] = recvmbox[d] => c = d
    /\ \A c \in Conn : use[c] = "listen" => acceptmbox[c] = recvmbox[c]

\* A mailbox without a live netconn is full, so that it never tests valid again.
Leaks ==
    \A e \in Event : kind[e] = "queue" /\ Len(queue[e]) < QSize
                       => \E c \in Conn : Live(c) /\ recvmbox[c] = e

Slot == 1..QSize
\* Message i of event e is m.
At(m, e, i) == i <= Len(queue[e]) /\ queue[e][i] = m

\* Only mailboxes hold messages; those of a listener are netconns, those of any
\* other netconn are not; a socket that is not yet used has none.
Messages ==
    /\ \A e \in Event : kind[e] # "queue" => queue[e] = <<>>
    /\ \A c, d \in Conn : \A i \in Slot :
         Live(c) /\ At(d, recvmbox[c], i) => use[c] = "listen"
    /\ \A c \in Conn : \A i \in Slot : \A m \in {Data, Eof} :
         use[c] = "listen" => ~At(m, recvmbox[c], i)
    /\ \A c \in Conn : use[c] = "none" => queue[recvmbox[c]] = <<>>

\* The application refers to netconns that are in use, and to all it deletes.
Known ==
    /\ \A c \in app : use[c] # "free"
    /\ \A c \in Conn : use[c] \in {"closing", "deleted"} => c \in app

\* PendingOnce, message by message.
Pending ==
    /\ \A c \in Conn : \A e, f \in Event : \A i, j \in Slot :
         At(c, e, i) /\ At(c, f, j) => e = f /\ i = j
    /\ \A c \in Conn : \A e \in Event : \A i \in Slot :
         At(c, e, i) => c \notin app /\ Live(c)
    /\ \A c \in Conn : Live(c) /\ c \notin app =>
         \E e \in Event : \E i \in Slot : At(c, e, i)

Sound == Lists /\ Sems /\ Boxes /\ Leaks /\ Messages /\ Known /\ Pending

IInv == TypeOK /\ (Sane => Sound)

\* Without closed listeners, only a listener has an acceptmbox.
NoStaleBox == \A c \in Conn : acceptmbox[c] # NoEvent => use[c] = "listen"

-----------------------------------------------------------------------------
(* Lists                                                                   *)

\* An element that is not in a list is put in front of it.
LEMMA PushList ==
    ASSUME NEW T, NEW s, ListOf(s, T), NEW x, x \notin T
    PROVE  ListOf(<<x>> \o s, T \cup {x})
<1> DEFINE n == <<x>> \o s
           U == T \cup {x}
<1>1. s \in Seq(U) /\ Len(s) \in Nat /\ DOMAIN s = 1..Len(s)
  BY SeqMonotonic, LenProperties DEF ListOf
<1>2. <<x>> \in Seq(U) /\ Len(<<x>>) = 1
  OBVIOUS
<1>3. n \in Seq(U) /\ Len(n) = Len(s) + 1
  BY <1>1, <1>2, ConcatProperties
<1>4. n[1] = x /\ \A i \in 2..(Len(s) + 1) : n[i] = s[i - 1]
  BY <1>1, <1>2
<1>5. DOMAIN n = 1..(Len(s) + 1)
  BY <1>3
<1> HIDE DEF n, U
<1>6. \A i \in DOMAIN s : s[i] \in T
  BY DEF ListOf, ToSet
<1>7. \A t \in T : \E i \in 1..Len(s) : s[i] = t
  BY <1>1 DEF ListOf, ToSet
<1>8. ToSet(n) = U
  <2>1. \A i \in DOMAIN n : n[i] \in U
    BY <1>1, <1>4, <1>5, <1>6 DEF U
  <2>2. \A u \in U : \E i \in DOMAIN n : n[i] = u
    <3> SUFFICES ASSUME NEW u \in U PROVE \E i \in DOMAIN n : n[i] = u
      OBVIOUS
    <3>1. ASSUME u \in T PROVE \E i \in DOMAIN n : n[i] = u
      <4>1. PICK i \in 1..Len(s) : s[i] = u
        BY <1>7, <3>1
      <4>2. i + 1 \in 2..(Len(s) + 1) /\ n[i + 1] = u /\ i + 1 \in DOMAIN n
        BY <1>1, <1>4, <1>5, <4>1
      <4> QED BY <4>2
    <3>2. 1 \in DOMAIN n
      BY <1>1, <1>5
    <3> QED BY <1>4, <3>1, <3>2 DEF U
  <2> QED BY <2>1, <2>2 DEF ToSet
<1>9. IsInjective(n)
  <2>1. \A a, b \in 1..Len(s) : s[a] = s[b] => a = b
    BY <1>1 DEF ListOf, IsInjective
  <2> SUFFICES ASSUME NEW a \in 1..(Len(s) + 1), NEW b \in 1..(Len(s) + 1), n[a] = n[b]
               PROVE  a = b
    BY <1>5 DEF IsInjective
  <2>2. ASSUME a # 1, b # 1 PROVE a = b
    <3>1. a - 1 \in 1..Len(s) /\ b - 1 \in 1..Len(s)
      BY <1>1, <2>2
    <3>2. s[a - 1] = s[b - 1]
      BY <1>1, <1>4, <2>2
    <3> QED BY <2>1, <3>1, <3>2
  <2>3. \A i \in 1..(Len(s) + 1) : i # 1 => n[i] # x
    BY <1>1, <1>4, <1>6
  <2> QED BY <1>4, <2>2, <2>3
<1> QED BY <1>3, <1>8, <1>9 DEF ListOf, n, U

\* The first element of a list is taken off.
LEMMA PopList ==
    ASSUME NEW T, NEW s, ListOf(s, T), s # <<>>
    PROVE  Head(s) \in T /\ Head(s) = s[1] /\ ListOf(Tail(s), T \ {Head(s)})
<1> DEFINE n == Tail(s)
           U == T \ {Head(s)}
<1>1. s \in Seq(T) /\ Len(s) \in Nat \ {0} /\ DOMAIN s = 1..Len(s)
  BY EmptySeq, LenProperties DEF ListOf
<1>2. n \in Seq(T) /\ Len(n) = Len(s) - 1 /\ Head(s) = s[1]
      /\ \A i \in 1..(Len(s) - 1) : n[i] = s[i + 1]
  BY <1>1
<1>3. DOMAIN n = 1..(Len(s) - 1)
  BY <1>2
<1> HIDE DEF n
<1>4. \A i \in 1..Len(s) : s[i] \in T
  BY <1>1
<1>5. \A t \in T : \E i \in 1..Len(s) : s[i] = t
  BY <1>1 DEF ListOf, ToSet
<1>6. \A a, b \in 1..Len(s) : s[a] = s[b] => a = b
  BY <1>1 DEF ListOf, IsInjective
<1>7. \A i \in 1..(Len(s) - 1) : n[i] \in U
  BY <1>1, <1>2, <1>4, <1>6
<1>8. ToSet(n) = U
  <2>1. \A u \in U : \E i \in DOMAIN n : n[i] = u
    <3> SUFFICES ASSUME NEW u \in U PROVE \E i \in DOMAIN n : n[i] = u
      OBVIOUS
    <3>1. PICK i \in 1..Len(s) : s[i] = u
      BY <1>5
    <3>2. i # 1
      BY <1>2, <3>1
    <3>3. i - 1 \in 1..(Len(s) - 1) /\ n[i - 1] = u
      BY <1>1, <1>2, <3>1, <3>2
    <3> QED BY <1>3, <3>3
  <2> HIDE DEF U
  <2> QED BY <1>3, <1>7, <2>1 DEF ToSet
<1>9. IsInjective(n)
  <2> SUFFICES ASSUME NEW a \in 1..(Len(s) - 1), NEW b \in 1..(Len(s) - 1), n[a] = n[b]
               PROVE  a = b
    BY <1>3 DEF IsInjective
  <2>1. s[a + 1] = s[b + 1] /\ a + 1 \in 1..Len(s) /\ b + 1 \in 1..Len(s)
    BY <1>1, <1>2
  <2> QED BY <1>6, <2>1
<1>10. n \in Seq(U)
  <2>1. \A i \in 1..Len(n) : n[i] \in U
    BY <1>2, <1>7
  <2> HIDE DEF U
  <2> QED BY <1>2, <2>1, ElementOfSeq, IsASeq, LenProperties
<1>11. s[1] \in T
  BY <1>1, <1>4
<1> QED BY <1>2, <1>8, <1>9, <1>10, <1>11 DEF ListOf, n

\* A list of a subset is a sequence over the set.
LEMMA ListInSeq ==
    ASSUME NEW T, NEW S, T \subseteq S, NEW s, ListOf(s, T)
    PROVE  s \in Seq(S)
BY SeqMonotonic DEF ListOf

\* A pair in front of a list is its two elements in front of it.
LEMMA PairFront ==
    ASSUME NEW T, NEW a \in Seq(T), NEW b \in Seq(T), NEW d \in Seq(T), NEW r \in Seq(T),
           Len(a) = 1, Len(b) = 1, Len(d) = 2, d[1] = a[1], d[2] = b[1]
    PROVE  d \o r = a \o (b \o r)
<1>1. a \o b \in Seq(T) /\ Len(a \o b) = 2
  <2>1. a \o b \in Seq(T) /\ Len(a \o b) = Len(a) + Len(b)
    BY ConcatProperties
  <2>2. Len(a \o b) = 1 + 1
    BY <2>1
  <2> QED BY <2>1, <2>2
<1>2. (a \o b)[1] = a[1] /\ (a \o b)[2] = b[1]
  BY ConcatProperties
<1>3. a \o b = d
  <2>1. \A i \in 1..Len(d) : (a \o b)[i] = d[i]
    BY <1>1, <1>2
  <2> QED BY <1>1, <2>1, SeqEqual
<1>4. (a \o b) \o r = a \o (b \o r)
  BY ConcatAssociative, SMTT(30)
<1> QED BY <1>3, <1>4

\* Two elements are taken off a list and put back the other way round.
LEMMA SwapList ==
    ASSUME NEW T, NEW s, ListOf(s, T), Len(s) >= 2
    PROVE  /\ s[1] \in T /\ s[2] \in T /\ s[1] # s[2]
           /\ ListOf(Tail(Tail(s)), (T \ {s[1]}) \ {s[2]})
           /\ ListOf(<<s[2], s[1]>> \o Tail(Tail(s)), T)
<1>1. s \in Seq(T) /\ Len(s) \in Nat /\ s # <<>>
  BY LenProperties DEF ListOf
<1>2. s[1] \in T /\ s[1] = Head(s) /\ ListOf(Tail(s), T \ {s[1]})
  BY <1>1, PopList
<1>3. Tail(s) # <<>> /\ Tail(s)[1] = s[2]
  <2>1. Len(Tail(s)) = Len(s) - 1 /\ \A i \in 1..Len(s) - 1 : Tail(s)[i] = s[i + 1]
    BY <1>1
  <2>2. Len(Tail(s)) # 0 /\ 1 \in 1..Len(s) - 1 /\ 1 + 1 = 2
    BY <1>1, <2>1
  <2>3. Tail(s)[1] = s[2]
    BY <2>1, <2>2
  <2>4. Len(<<>>) = 0
    OBVIOUS
  <2> QED BY <2>2, <2>3, <2>4
<1>4. /\ s[2] \in T \ {s[1]}
      /\ ListOf(Tail(Tail(s)), (T \ {s[1]}) \ {s[2]})
  BY <1>2, <1>3, PopList
<1> DEFINE r == Tail(Tail(s))
<1>5. ListOf(<<s[1]>> \o r, ((T \ {s[1]}) \ {s[2]}) \cup {s[1]})
  BY <1>4, PushList
<1>6. ((T \ {s[1]}) \ {s[2]}) \cup {s[1]} = T \ {s[2]}
  BY <1>2, <1>4
<1>7. ListOf(<<s[2]>> \o (<<s[1]>> \o r), (T \ {s[2]}) \cup {s[2]})
  BY <1>5, <1>6, PushList
<1>8. (T \ {s[2]}) \cup {s[2]} = T
  BY <1>4
<1>9. <<s[2]>> \o (<<s[1]>> \o r) = <<s[2], s[1]>> \o r
  <2>1. r \in Seq(T)
    BY <1>1, <1>3
  <2> HIDE DEF r
  <2>2. \A x, y \in T : <<x>> \o (<<y>> \o r) = <<x, y>> \o r
    <3> SUFFICES ASSUME NEW x \in T, NEW y \in T
                 PROVE  <<x>> \o (<<y>> \o r) = <<x, y>> \o r
      OBVIOUS
    <3>1. /\ <<x>> \in Seq(T) /\ <<y>> \in Seq(T) /\ <<x, y>> \in Seq(T)
          /\ Len(<<x>>) = 1 /\ Len(<<y>>) = 1 /\ Len(<<x, y>>) = 2
          /\ <<x, y>>[1] = <<x>>[1] /\ <<x, y>>[2] = <<y>>[1]
      OBVIOUS
    <3> QED BY <2>1, <3>1, PairFront, ZenonT(30)
  <2> QED BY <1>2, <1>4, <2>2
<1> QED BY <1>2, <1>4, <1>7, <1>8, <1>9

-----------------------------------------------------------------------------
(* One lemma per operation                                                 *)

\* The part of TypeOK without the messages.
HandlesTyped ==
    /\ evFree \in Seq(Event) /\ blocks \in Seq(Conn)
    /\ kind \in [Event -> {"unused", "sem", "queue"}]
    /\ use \in [Conn -> {"free", "none", "listen", "open", "half", "reset",
                         "closing", "deleted"}]
    /\ sem \in [Conn -> Handle]
    /\ recvmbox \in [Conn -> Handle] /\ acceptmbox \in [Conn -> Handle]

\* What netconn_alloc takes, and what it leaves of the free lists, the
\* semaphores and the mailboxes.
LEMMA Allocated ==
    ASSUME TypeOK, Sound, NEW c \in Conn, CanAlloc, Alloc(c),
           NEW u \in {"none", "open"}, use' = [use EXCEPT ![c] = u]
    PROVE  /\ evFree[1] \in Event /\ evFree[2] \in Event /\ evFree[1] # evFree[2]
           /\ kind[evFree[1]] = "unused" /\ kind[evFree[2]] = "unused"
           /\ use[c] = "free"
           /\ Lists' /\ Sems' /\ Boxes'
           /\ HandlesTyped'
<1> DEFINE s == evFree[1]
           r == evFree[2]
           Unused == {e \in Event : kind[e] = "unused"}
           Idle == {d \in Conn : use[d] = "free"}
<1>1. /\ s \in Unused /\ r \in Unused /\ s # r
      /\ ListOf(Tail(Tail(evFree)), (Unused \ {s}) \ {r})
  BY SwapList DEF Sound, Lists, CanAlloc
<1>2. c \in Idle /\ ListOf(Tail(blocks), Idle \ {c})
  BY PopList DEF Sound, Lists, CanAlloc, Alloc
<1>3. /\ kind' = [kind EXCEPT ![s] = "sem", ![r] = "queue"]
      /\ evFree' = Tail(Tail(evFree)) /\ blocks' = Tail(blocks)
      /\ sem' = [sem EXCEPT ![c] = s] /\ recvmbox' = [recvmbox EXCEPT ![c] = r]
      /\ acceptmbox' = acceptmbox
  BY DEF Alloc
<1>4. /\ s \in Event /\ r \in Event
      /\ kind[s] = "unused" /\ kind[r] = "unused" /\ use[c] = "free"
  BY <1>1, <1>2
<1>5. Lists'
  <2>1. {e \in Event : kind'[e] = "unused"} = (Unused \ {s}) \ {r}
    BY <1>1, <1>3 DEF TypeOK
  <2>2. {d \in Conn : use'[d] = "free"} = Idle \ {c}
    BY DEF TypeOK
  <2> QED BY <1>1, <1>2, <1>3, <2>1, <2>2 DEF Lists
<1>8. HandlesTyped'
  <2>1. evFree' \in Seq(Event) /\ blocks' \in Seq(Conn)
    BY <1>1, <1>2, <1>3, ListInSeq
  <2> QED BY <1>1, <1>3, <2>1 DEF HandlesTyped, TypeOK, Handle
<1> HIDE DEF s, r, Unused, Idle
<1>6. Sems'
  BY <1>1, <1>3, <1>4 DEF Sems, Sound, TypeOK
<1>7. Boxes'
  BY <1>1, <1>3, <1>4 DEF Boxes, Live, Sound, TypeOK
<1> QED BY <1>1, <1>4, <1>5, <1>6, <1>7, <1>8 DEF s, r

\* Nothing is waiting in what netconn_alloc takes.
LEMMA SocketSound ==
    ASSUME TypeOK, Sound, NEW c \in Conn, Socket(c)
    PROVE  TypeOK' /\ Sound'
<1>1. /\ Sane /\ CanAlloc /\ Alloc(c)
      /\ use' = [use EXCEPT ![c] = "none"] /\ app' = app \cup {c}
      /\ queue' = queue /\ corrupt' = corrupt
  BY DEF Socket
<1> DEFINE s == evFree[1]
           r == evFree[2]
<1>2. /\ s \in Event /\ r \in Event /\ s # r
      /\ kind[s] = "unused" /\ kind[r] = "unused" /\ use[c] = "free"
      /\ Lists' /\ Sems' /\ Boxes' /\ HandlesTyped'
  BY <1>1, Allocated
<1>3. /\ kind' = [kind EXCEPT ![s] = "sem", ![r] = "queue"]
      /\ recvmbox' = [recvmbox EXCEPT ![c] = r]
  BY <1>1 DEF Alloc
<1> HIDE DEF s, r
<1>4. TypeOK'
  BY <1>1, <1>2 DEF TypeOK, HandlesTyped
<1>5. queue[s] = <<>> /\ queue[r] = <<>>
  BY <1>2 DEF Sound, Messages
<1>6. Leaks'
  BY <1>1, <1>2, <1>3 DEF Leaks, Live, Sound, TypeOK
<1>7. Messages'
  <2>1. \A e \in Event : kind'[e] # "queue" => queue'[e] = <<>>
    BY <1>1, <1>2, <1>3, <1>5 DEF Sound, Messages, TypeOK
  <2>2. \A i \in Slot, m \in Message : ~At(m, r, i)
    BY <1>5 DEF At, Slot
  <2>3. \A b \in Conn : b # c => use'[b] = use[b] /\ recvmbox'[b] = recvmbox[b]
    BY <1>1, <1>3 DEF TypeOK
  <2>4. use'[c] = "none" /\ recvmbox'[c] = r
    BY <1>1, <1>3 DEF TypeOK
  <2>5. \A e \in Event, i \in Slot, m \in Message : At(m, e, i)' <=> At(m, e, i)
    BY <1>1 DEF At
  <2> QED BY <1>1, <1>2, <1>5, <2>1, <2>2, <2>3, <2>4, <2>5
          DEF Sound, Messages, Live, Message, Boxes, At
<1>8. Known'
  BY <1>1 DEF Known, Sound, TypeOK
<1>9. Pending'
  BY <1>1, <1>2 DEF Pending, Sound, TypeOK, Live, At
<1> QED BY <1>2, <1>4, <1>6, <1>7, <1>8, <1>9 DEF Sound

\* A socket without a PCB turns two events of the free list round.
LEMMA SocketRefusedSound ==
    ASSUME TypeOK, Sound, NEW c \in Conn, SocketRefused(c)
    PROVE  TypeOK' /\ Sound'
<1>1. /\ Len(evFree) >= 2
      /\ evFree' = <<evFree[2], evFree[1]>> \o Tail(Tail(evFree))
      /\ UNCHANGED <<kind, queue, blocks, use, handles, app, corrupt>>
  BY DEF SocketRefused, CanAlloc
<1>2. ListOf(evFree', {e \in Event : kind[e] = "unused"})
  BY <1>1, SwapList DEF Sound, Lists
<1>3. evFree' \in Seq(Event)
  BY <1>2, ListInSeq
<1>4. TypeOK'
  BY <1>1, <1>3 DEF TypeOK, handles
<1>5. Lists'
  BY <1>1, <1>2 DEF Sound, Lists
<1>6. Sems' /\ Boxes' /\ Leaks' /\ Messages' /\ Known' /\ Pending'
  BY <1>1 DEF Sound, Sems, Boxes, Leaks, Messages, Known, Pending, At, Live, handles
<1> QED BY <1>4, <1>5, <1>6 DEF Sound

\* A connected socket starts with an empty mailbox.
LEMMA ConnectSound ==
    ASSUME TypeOK, Sound, NEW c \in Conn, Connect(c)
    PROVE  TypeOK' /\ Sound'
<1>1. /\ c \in app /\ use[c] = "none" /\ use' = [use EXCEPT ![c] = "open"]
      /\ UNCHANGED <<evFree, kind, queue, blocks, sem, recvmbox, acceptmbox, app, corrupt>>
  BY DEF Connect, events, handles
<1>2. TypeOK'
  BY <1>1 DEF TypeOK
<1>3. \A d \in Conn : /\ Live(d)' <=> Live(d)
                      /\ use'[d] = "free" <=> use[d] = "free"
                      /\ use'[d] = "listen" <=> use[d] = "listen"
                      /\ use'[d] \in {"closing", "deleted"} <=> use[d] \in {"closing", "deleted"}
                      /\ use'[d] = "none" => use[d] = "none"
  BY <1>1 DEF TypeOK, Live
<1>4. Lists'
  BY <1>1, <1>3 DEF Sound, Lists
<1>5. Sems' /\ Boxes' /\ Leaks' /\ Known'
  BY <1>1, <1>3 DEF Sound, Sems, Boxes, Leaks, Known, TypeOK
<1>6. \A d \in Conn, e \in Event, i \in Slot : At(d, e, i)' <=> At(d, e, i)
  BY <1>1 DEF At
<1>7. Messages'
  BY <1>1, <1>3 DEF Sound, Messages, At
<1>8. Pending'
  BY <1>1, <1>3, <1>6 DEF Sound, Pending
<1> QED BY <1>2, <1>4, <1>5, <1>7, <1>8 DEF Sound

\* The listener's acceptmbox is made from the event of its recvmbox, which has
\* never held a message.
LEMMA ListenSound ==
    ASSUME TypeOK, Sound, NEW c \in Conn, Listen(c)
    PROVE  TypeOK' /\ (Sane' => Sound')
<1> DEFINE r == recvmbox[c]
           a == acceptmbox[c]
<1>1. /\ c \in app /\ use[c] = "none" /\ use' = [use EXCEPT ![c] = "listen"]
      /\ UNCHANGED <<queue, blocks, sem, recvmbox, app>>
  BY DEF Listen
<1>2. r \in Event /\ queue[r] = <<>>
  BY <1>1 DEF Sound, Boxes, Live, Messages
<1>3. ASSUME a # r /\ Valid(a)
      PROVE  TypeOK' /\ ~Sane'
  <2>1. /\ evFree' = <<r>> \o evFree /\ kind' = [kind EXCEPT ![r] = "unused"]
        /\ corrupt' = "yes" /\ acceptmbox' = acceptmbox
    BY <1>3 DEF Listen
  <2>2. <<r>> \in Seq(Event) /\ evFree \in Seq(Event)
    BY <1>2 DEF TypeOK
  <2>3. evFree' \in Seq(Event)
    BY <2>1, <2>2, ConcatProperties
  <2> QED BY <1>1, <2>1, <2>3 DEF TypeOK, Sane
<1>4. ASSUME ~(a # r /\ Valid(a))
      PROVE  TypeOK' /\ Sound'
  <2>1. /\ acceptmbox' = [acceptmbox EXCEPT ![c] = r]
        /\ UNCHANGED <<evFree, kind, corrupt>>
    BY <1>4 DEF Listen
  <2>2. TypeOK'
    BY <1>1, <1>2, <2>1 DEF TypeOK, Handle
  <2>3. \A d \in Conn : /\ Live(d)' <=> Live(d)
                        /\ use'[d] = "free" <=> use[d] = "free"
                        /\ use'[d] = "listen" <=> use[d] = "listen" \/ d = c
                        /\ use'[d] \in {"closing", "deleted"} <=> use[d] \in {"closing", "deleted"}
                        /\ use'[d] = "none" => use[d] = "none"
    BY <1>1 DEF TypeOK, Live
  <2>4. Lists'
    BY <1>1, <2>1, <2>3 DEF Sound, Lists
  <2>5. Sems' /\ Leaks' /\ Known'
    BY <1>1, <2>1, <2>3 DEF Sound, Sems, Leaks, Known, TypeOK
  <2>6. Boxes'
    BY <1>1, <2>1, <2>3 DEF Sound, Boxes, TypeOK
  <2>7. \A m \in Message, e \in Event, i \in Slot : At(m, e, i)' <=> At(m, e, i)
    BY <1>1 DEF At
  <2>8. \A m \in Message, i \in Slot : ~At(m, r, i)
    BY <1>2 DEF At, Slot
  <2>9. Messages'
    BY <1>1, <2>1, <2>3, <2>8 DEF Sound, Messages, At, Message
  <2>10. Pending'
    BY <1>1, <2>3, <2>7 DEF Sound, Pending, Message
  <2> QED BY <2>2, <2>4, <2>5, <2>6, <2>9, <2>10 DEF Sound
<1> QED BY <1>3, <1>4

\* The first message of mailbox a is taken out.
LEMMA Taken ==
    ASSUME TypeOK, NEW a \in Event, queue[a] # <<>>,
           queue' = [queue EXCEPT ![a] = Tail(@)]
    PROVE  /\ queue' \in [Event -> Seq(Message)]
           /\ \A e \in Event : Len(queue'[e]) <= QSize
           /\ \A e \in Event : e # a => queue'[e] = queue[e]
           /\ Head(queue[a]) \in Message /\ 1 \in Slot /\ At(Head(queue[a]), a, 1)
           /\ \A m \in Message, i \in Slot :
                At(m, a, i)' => i + 1 \in Slot /\ At(m, a, i + 1)
           /\ \A m \in Message, i \in Slot :
                At(m, a, i) /\ i # 1 => i - 1 \in Slot /\ At(m, a, i - 1)'
           /\ \A m \in Message, e \in Event, i \in Slot :
                e # a => (At(m, e, i)' <=> At(m, e, i))
<1> DEFINE s == queue[a]
           n == Tail(s)
<1>1. s \in Seq(Message) /\ Len(s) <= QSize /\ Len(s) \in Nat \ {0} /\ QSize \in Nat
  BY EmptySeq, LenProperties, NetconnAssumption DEF TypeOK
<1>2. /\ n \in Seq(Message) /\ Len(n) = Len(s) - 1
      /\ \A i \in 1..(Len(s) - 1) : n[i] = s[i + 1]
      /\ Head(s) = s[1] /\ s[1] \in Message
  BY <1>1
<1>3. /\ queue'[a] = n /\ queue' \in [Event -> Seq(Message)]
      /\ \A e \in Event : e # a => queue'[e] = queue[e]
  BY <1>2 DEF TypeOK
<1> HIDE DEF n
<1>4. \A e \in Event : Len(queue'[e]) <= QSize
  BY <1>1, <1>2, <1>3 DEF TypeOK
<1>5. 1 \in Slot /\ At(Head(s), a, 1)
  BY <1>1, <1>2 DEF Slot, At
<1>6. \A m \in Message, i \in Slot : At(m, a, i)' => i + 1 \in Slot /\ At(m, a, i + 1)
  BY <1>1, <1>2, <1>3 DEF Slot, At
<1>7. \A m \in Message, i \in Slot :
        At(m, a, i) /\ i # 1 => i - 1 \in Slot /\ At(m, a, i - 1)'
  <2> SUFFICES ASSUME NEW m \in Message, NEW i \in Slot, At(m, a, i), i # 1
               PROVE  i - 1 \in Slot /\ At(m, a, i - 1)'
    OBVIOUS
  <2>1. i - 1 \in 1..(Len(s) - 1) /\ i - 1 \in Slot
    BY <1>1 DEF Slot, At
  <2>2. n[i - 1] = s[(i - 1) + 1] /\ (i - 1) + 1 = i
    BY <1>2, <2>1 DEF Slot
  <2> QED BY <1>1, <1>2, <1>3, <2>1, <2>2 DEF At
<1>8. \A m \in Message, e \in Event, i \in Slot :
        e # a => (At(m, e, i)' <=> At(m, e, i))
  BY <1>3 DEF At
<1> QED BY <1>2, <1>3, <1>4, <1>5, <1>6, <1>7, <1>8

\* What accept takes out of the acceptmbox is a netconn, and from then on the
\* application's.
LEMMA AcceptSound ==
    ASSUME TypeOK, Sound, NEW c \in Conn, Accept(c)
    PROVE  TypeOK' /\ Sound'
<1>a. PICK a \in Event : a = acceptmbox[c]
  BY DEF Accept, Sound, Boxes, Live
<1>h. PICK h : h = Head(queue[a])
  OBVIOUS
<1>1. /\ use[c] = "listen" /\ queue[a] # <<>>
      /\ app' = app \cup {h} /\ queue' = [queue EXCEPT ![a] = Tail(@)]
      /\ UNCHANGED <<evFree, kind, blocks, use, sem, recvmbox, acceptmbox, corrupt>>
  BY <1>a, <1>h DEF Accept, handles
<1>2. a \in Event /\ a = recvmbox[c] /\ kind[a] = "queue" /\ Live(c)
  BY <1>1, <1>a DEF Sound, Boxes, Live
<1>3. /\ queue' \in [Event -> Seq(Message)]
      /\ \A e \in Event : Len(queue'[e]) <= QSize
      /\ \A e \in Event : e # a => queue'[e] = queue[e]
      /\ h \in Message /\ 1 \in Slot /\ At(h, a, 1)
      /\ \A m \in Message, i \in Slot : At(m, a, i)' => i + 1 \in Slot /\ At(m, a, i + 1)
      /\ \A m \in Message, i \in Slot :
           At(m, a, i) /\ i # 1 => i - 1 \in Slot /\ At(m, a, i - 1)'
      /\ \A m \in Message, e \in Event, i \in Slot : e # a => (At(m, e, i)' <=> At(m, e, i))
  BY <1>1, <1>2, <1>h, Taken
<1>4. h \in Conn
  BY <1>1, <1>2, <1>3 DEF Sound, Messages, Message
<1>5. TypeOK'
  BY <1>1, <1>3, <1>4 DEF TypeOK
<1>6. Lists' /\ Sems' /\ Boxes'
  BY <1>1 DEF Sound, Lists, Sems, Boxes, Live
<1>7. Leaks'
  BY <1>1, <1>2, <1>3 DEF Sound, Leaks, Live
<1>8. Messages'
  <2>1. \A e \in Event : kind'[e] # "queue" => queue'[e] = <<>>
    BY <1>1, <1>2, <1>3 DEF Sound, Messages
  <2>2. \A b, d \in Conn : \A i \in Slot :
          Live(b)' /\ At(d, recvmbox[b], i)' => use'[b] = "listen"
    BY <1>1, <1>2, <1>3 DEF Sound, Messages, Message, Live, Boxes
  <2>3. \A b \in Conn : \A i \in Slot : \A m \in {Data, Eof} :
          use'[b] = "listen" => ~At(m, recvmbox[b], i)'
    <3> SUFFICES ASSUME NEW b \in Conn, NEW i \in Slot, NEW m \in {Data, Eof},
                        use'[b] = "listen", At(m, recvmbox[b], i)'
                 PROVE  FALSE
      OBVIOUS
    <3>1. PICK e \in Event : e = recvmbox[b]
      BY <1>1 DEF Sound, Boxes, Live
    <3>2. m \in Message /\ At(m, e, i)'
      BY <1>1, <3>1 DEF At, Message
    <3>3. PICK x \in Slot : At(m, e, x)
      BY <1>3, <3>2
    <3> QED BY <1>1, <3>1, <3>3 DEF Sound, Messages
  <2>4. \A b \in Conn : use'[b] = "none" => queue'[recvmbox[b]] = <<>>
    BY <1>1, <1>2, <1>3 DEF Sound, Messages, Live, Boxes
  <2> QED BY <1>1, <2>1, <2>2, <2>3, <2>4 DEF Messages, Live, At
<1>9. \A d \in Conn : d \in Message
  BY DEF Message
<1>10. Known'
  BY <1>1, <1>2, <1>3, <1>4 DEF Sound, Known, Pending, Live
<1>11. Pending'
  <2>1. \A d \in Conn : \A e, f \in Event : \A i, j \in Slot :
          At(d, e, i)' /\ At(d, f, j)' => e = f /\ i = j
    <3> SUFFICES ASSUME NEW d \in Conn, NEW e \in Event, NEW f \in Event,
                        NEW i \in Slot, NEW j \in Slot, At(d, e, i)', At(d, f, j)'
                 PROVE  e = f /\ i = j
      OBVIOUS
    <3>1. PICK x \in Slot : At(d, e, x) /\ (e = a => x = i + 1) /\ (e # a => x = i)
      BY <1>3, <1>9
    <3>2. PICK y \in Slot : At(d, f, y) /\ (f = a => y = j + 1) /\ (f # a => y = j)
      BY <1>3, <1>9
    <3>3. e = f /\ x = y
      BY <3>1, <3>2 DEF Sound, Pending
    <3> QED BY <3>1, <3>2, <3>3 DEF Slot
  <2>2. \A d \in Conn : \A e \in Event : \A i \in Slot : ~At(h, e, i)'
    <3> SUFFICES ASSUME NEW e \in Event, NEW i \in Slot, At(h, e, i)'
                 PROVE  FALSE
      OBVIOUS
    <3>1. PICK x \in Slot : At(h, e, x) /\ (e = a => x = i + 1)
      BY <1>3, <1>4, <1>9
    <3>2. e = a /\ x = 1
      BY <1>2, <1>3, <1>4, <3>1 DEF Sound, Pending
    <3> QED BY <3>1, <3>2 DEF Slot
  <2>3. \A d \in Conn : \A e \in Event : \A i \in Slot :
          At(d, e, i)' => d \notin app' /\ Live(d)'
    <3> SUFFICES ASSUME NEW d \in Conn, NEW e \in Event, NEW i \in Slot, At(d, e, i)'
                 PROVE  d \notin app' /\ Live(d)'
      OBVIOUS
    <3>1. PICK x \in Slot : At(d, e, x)
      BY <1>3, <1>9
    <3>2. d # h
      BY <2>2
    <3> QED BY <1>1, <3>1, <3>2 DEF Sound, Pending, Live
  <2>4. \A d \in Conn : Live(d)' /\ d \notin app' =>
          \E e \in Event : \E i \in Slot : At(d, e, i)'
    <3> SUFFICES ASSUME NEW d \in Conn, Live(d)', d \notin app'
                 PROVE  \E e \in Event : \E i \in Slot : At(d, e, i)'
      OBVIOUS
    <3>1. PICK e \in Event, i \in Slot : At(d, e, i)
      BY <1>1 DEF Sound, Pending, Live
    <3>2. e = a => i # 1
      BY <1>1, <1>3, <3>1 DEF At
    <3> QED BY <1>3, <1>9, <3>1, <3>2
  <2> QED BY <2>1, <2>3, <2>4 DEF Pending
<1> QED BY <1>5, <1>6, <1>7, <1>8, <1>10, <1>11 DEF Sound

\* What recv takes out of a recvmbox is not a netconn.
LEMMA RecvSound ==
    ASSUME TypeOK, Sound, NEW c \in Conn, Recv(c)
    PROVE  TypeOK' /\ Sound'
<1>1. PICK r \in Event : r = recvmbox[c]
  BY DEF Recv, Sound, Boxes, Live
<1>2. /\ use[c] \in {"open", "half", "reset"} /\ queue[r] # <<>>
      /\ queue' = [queue EXCEPT ![r] = Tail(@)]
      /\ UNCHANGED <<evFree, kind, blocks, use, sem, recvmbox, acceptmbox, app, corrupt>>
  BY <1>1 DEF Recv, handles
<1>3. kind[r] = "queue" /\ Live(c)
  BY <1>1, <1>2 DEF Sound, Boxes, Live
<1>4. PICK h : h = Head(queue[r])
  OBVIOUS
<1>5. /\ queue' \in [Event -> Seq(Message)]
      /\ \A e \in Event : Len(queue'[e]) <= QSize
      /\ \A e \in Event : e # r => queue'[e] = queue[e]
      /\ h \in Message /\ 1 \in Slot /\ At(h, r, 1)
      /\ \A m \in Message, i \in Slot : At(m, r, i)' => i + 1 \in Slot /\ At(m, r, i + 1)
      /\ \A m \in Message, i \in Slot :
           At(m, r, i) /\ i # 1 => i - 1 \in Slot /\ At(m, r, i - 1)'
      /\ \A m \in Message, e \in Event, i \in Slot : e # r => (At(m, e, i)' <=> At(m, e, i))
  BY <1>2, <1>4, Taken
<1>6. \A d \in Conn : d \in Message
  BY DEF Message
<1>7. \A d \in Conn, i \in Slot : ~At(d, r, i)
  BY <1>1, <1>2, <1>3 DEF Sound, Messages
<1>8. TypeOK'
  BY <1>2, <1>5 DEF TypeOK
<1>9. Lists' /\ Sems' /\ Boxes' /\ Known'
  BY <1>2 DEF Sound, Lists, Sems, Boxes, Known, Live
<1>10. Leaks'
  BY <1>1, <1>2, <1>3, <1>5 DEF Sound, Leaks, Live
<1>11. \A d \in Conn, e \in Event, i \in Slot : At(d, e, i)' <=> At(d, e, i)
  BY <1>5, <1>6, <1>7
<1>12. Messages'
  <2>1. \A e \in Event : kind'[e] # "queue" => queue'[e] = <<>>
    BY <1>2, <1>3, <1>5 DEF Sound, Messages
  <2>2. \A b, d \in Conn : \A i \in Slot :
          Live(b)' /\ At(d, recvmbox[b], i)' => use'[b] = "listen"
    <3> SUFFICES ASSUME NEW b \in Conn, NEW d \in Conn, NEW i \in Slot,
                        Live(b)', At(d, recvmbox[b], i)'
                 PROVE  use'[b] = "listen"
      OBVIOUS
    <3>1. PICK e \in Event : e = recvmbox[b]
      BY <1>2 DEF Sound, Boxes, Live
    <3>2. At(d, e, i)'
      BY <1>2, <3>1 DEF At
    <3>3. At(d, e, i)
      BY <1>11, <3>2
    <3> QED BY <1>2, <3>1, <3>3 DEF Sound, Messages, Live
  <2>3. \A b \in Conn : \A i \in Slot : \A m \in {Data, Eof} :
          use'[b] = "listen" => ~At(m, recvmbox[b], i)'
    <3> SUFFICES ASSUME NEW b \in Conn, NEW i \in Slot, NEW m \in {Data, Eof},
                        use'[b] = "listen", At(m, recvmbox[b], i)'
                 PROVE  FALSE
      OBVIOUS
    <3>1. PICK e \in Event : e = recvmbox[b]
      BY <1>2 DEF Sound, Boxes, Live
    <3>2. m \in Message /\ At(m, e, i)'
      BY <1>2, <3>1 DEF At, Message
    <3>3. PICK x \in Slot : At(m, e, x)
      BY <1>5, <3>2
    <3> QED BY <1>2, <3>1, <3>3 DEF Sound, Messages
  <2>4. \A b \in Conn : use'[b] = "none" => queue'[recvmbox[b]] = <<>>
    BY <1>1, <1>2, <1>3, <1>5 DEF Sound, Messages, Live, Boxes
  <2> QED BY <1>2, <2>1, <2>2, <2>3, <2>4 DEF Messages, Live, At
<1>13. Pending'
  BY <1>2, <1>11 DEF Sound, Pending, Live
<1> QED BY <1>8, <1>9, <1>10, <1>12, <1>13 DEF Sound

\* A mailbox that is drained and deleted holds no netconn; one that tests
\* invalid is full, and is lost.
LEMMA DelConnSound ==
    ASSUME TypeOK, Sound, NEW c \in Conn, DelConn(c)
    PROVE  TypeOK' /\ (Sane' => Sound')
<1>1. PICK r \in Event : r = recvmbox[c]
  BY DEF DelConn, Sound, Boxes
<1>0. PICK u \in {"closing", "deleted"} : use' = [use EXCEPT ![c] = u]
  BY DEF DelConn
<1>2. /\ c \in app /\ Live(c) /\ use' = [use EXCEPT ![c] = u]
      /\ UNCHANGED <<blocks, sem, recvmbox, acceptmbox, app>>
      /\ kind[r] = "queue"
  BY <1>0, <1>1 DEF DelConn, handles, Sound, Boxes
<1>3. /\ use'[c] \in {"closing", "deleted"} /\ ~Live(c)'
      /\ \A d \in Conn : d # c => use'[d] = use[d]
      /\ \A d \in Conn : d # c => (Live(d)' <=> Live(d))
  BY <1>2 DEF TypeOK, Live
<1>4. /\ corrupt' \in {"no", "stray", "yes"}
      /\ Sane' => ~DrainMisuses(c)
  BY DEF DelConn, Sane
<1>5. ASSUME Valid(r)
      PROVE  TypeOK' /\ (Sane' => Sound')
  <2>1. /\ evFree' = <<r>> \o evFree /\ kind' = [kind EXCEPT ![r] = "unused"]
        /\ queue' = [queue EXCEPT ![r] = <<>>]
    BY <1>1, <1>5 DEF DelConn, Drain
  <2>2. r \notin {e \in Event : kind[e] = "unused"}
    BY <1>2
  <2>3. ListOf(evFree', {e \in Event : kind[e] = "unused"} \cup {r})
    BY <2>1, <2>2, PushList DEF Sound, Lists
  <2>4. {e \in Event : kind'[e] = "unused"} = {e \in Event : kind[e] = "unused"} \cup {r}
    BY <2>1 DEF TypeOK
  <2>5. evFree' \in Seq(Event)
    BY <2>3, ListInSeq
  <2>6. queue' \in [Event -> Seq(Message)] /\ \A e \in Event : Len(queue'[e]) <= QSize
    BY <2>1, NetconnAssumption DEF TypeOK
  <2>7. TypeOK'
    BY <1>2, <1>4, <2>1, <2>5, <2>6 DEF TypeOK
  <2>8. SUFFICES ASSUME Sane' PROVE Sound'
    BY <2>7
  <2>9. \A i \in 1..Len(queue[r]) : queue[r][i] \notin Conn
    BY <1>1, <1>4, <1>5, <2>8 DEF DrainMisuses
  <2>10. \A d \in Conn, i \in Slot : ~At(d, r, i)
    <3>1. Len(queue[r]) \in Nat
      BY LenProperties DEF TypeOK
    <3> QED BY <2>9, <3>1 DEF At, Slot
  <2>11. \A m, i : i \in Slot => ~At(m, r, i)'
    BY <2>1 DEF At, Slot, TypeOK
  <2>12. \A e \in Event : e # r => queue'[e] = queue[e] /\ kind'[e] = kind[e]
    BY <2>1 DEF TypeOK
  <2>13. kind'[r] = "unused" /\ queue'[r] = <<>>
    BY <2>1 DEF TypeOK
  <2>14. \A d \in Conn, e \in Event, i \in Slot : At(d, e, i)' <=> At(d, e, i)
    BY <2>10, <2>11, <2>12 DEF At
  <2>15. {d \in Conn : use'[d] = "free"} = {d \in Conn : use[d] = "free"}
    BY <1>2, <1>3 DEF Live
  <2>16. Lists'
    BY <1>2, <2>3, <2>4, <2>15 DEF Sound, Lists
  <2>17. Sems'
    <3>1. \A e \in Event : kind'[e] = "sem" <=> kind[e] = "sem"
      BY <1>2, <2>12, <2>13
    <3>2. \A d \in Conn : use'[d] = "free" <=> use[d] = "free"
      BY <2>15
    <3> QED BY <1>2, <3>1, <3>2 DEF Sound, Sems
  <2>18. \A d \in Conn : Live(d)' => d # c /\ recvmbox[d] # r /\ recvmbox[d] \in Event
    BY <1>1, <1>2, <1>3 DEF Sound, Boxes
  <2>19. Boxes'
    BY <1>2, <1>3, <2>12, <2>18 DEF Sound, Boxes, Live
  <2>20. Leaks'
    BY <1>1, <1>2, <1>3, <2>12, <2>13 DEF Sound, Leaks
  <2>21. Messages'
    BY <1>2, <1>3, <2>12, <2>13, <2>18 DEF Sound, Messages, At, Live
  <2>22. Known'
    BY <1>2, <1>3 DEF Sound, Known, TypeOK
  <2>23. Pending'
    BY <1>2, <1>3, <2>14 DEF Sound, Pending
  <2> QED BY <2>16, <2>17, <2>19, <2>20, <2>21, <2>22, <2>23 DEF Sound
<1>6. ASSUME ~Valid(r)
      PROVE  TypeOK' /\ Sound'
  <2>1. evFree' = evFree /\ kind' = kind /\ queue' = queue
    BY <1>1, <1>6 DEF DelConn, Drain, events
  <2>2. ~(Len(queue[r]) < QSize)
    BY <1>2, <1>6, NetconnAssumption DEF Valid, Event, NoEvent
  <2>3. TypeOK'
    BY <1>2, <1>4, <2>1 DEF TypeOK
  <2>4. {d \in Conn : use'[d] = "free"} = {d \in Conn : use[d] = "free"}
    BY <1>2, <1>3 DEF Live
  <2>5. Lists'
    BY <1>2, <2>1, <2>4 DEF Sound, Lists
  <2>6. Sems' /\ Known'
    BY <1>2, <1>3, <2>1 DEF Sound, Sems, Known, TypeOK, Live
  <2>7. Boxes'
    BY <1>2, <1>3, <2>1 DEF Sound, Boxes, Live
  <2>8. Leaks'
    BY <1>1, <1>2, <1>3, <2>1, <2>2 DEF Sound, Leaks
  <2>9. Messages'
    BY <1>2, <1>3, <2>1 DEF Sound, Messages, At, Live
  <2>10. Pending'
    <3>1. \A d \in Conn, e \in Event, i \in Slot : At(d, e, i)' <=> At(d, e, i)
      BY <2>1 DEF At
    <3> QED BY <1>2, <1>3, <3>1 DEF Sound, Pending
  <2> QED BY <2>3, <2>5, <2>6, <2>7, <2>8, <2>9, <2>10 DEF Sound
<1> QED BY <1>5, <1>6

\* The end of a close that had to wait.
LEMMA ClosedSound ==
    ASSUME TypeOK, Sound, NEW c \in Conn, use[c] = "closing",
           use' = [use EXCEPT ![c] = "deleted"], corrupt' \in {"no", "stray", "yes"},
           UNCHANGED <<evFree, kind, queue, blocks, sem, recvmbox, acceptmbox, app>>
    PROVE  TypeOK' /\ Sound'
<1>1. TypeOK'
  BY DEF TypeOK
<1>2. \A d \in Conn : /\ Live(d)' <=> Live(d)
                      /\ use'[d] = "free" <=> use[d] = "free"
                      /\ use'[d] = "listen" <=> use[d] = "listen"
                      /\ use'[d] = "none" <=> use[d] = "none"
                      /\ use'[d] \in {"closing", "deleted"} <=> use[d] \in {"closing", "deleted"}
  BY DEF TypeOK, Live
<1>3. Lists'
  BY <1>2 DEF Sound, Lists
<1>4. Sems' /\ Boxes' /\ Leaks' /\ Known'
  BY <1>2 DEF Sound, Sems, Boxes, Leaks, Known, TypeOK
<1>5. \A d \in Conn, e \in Event, i \in Slot : At(d, e, i)' <=> At(d, e, i)
  BY DEF At
<1>6. Messages'
  BY <1>2 DEF Sound, Messages, At
<1>7. Pending'
  BY <1>2, <1>5 DEF Sound, Pending
<1> QED BY <1>1, <1>3, <1>4, <1>6, <1>7 DEF Sound

\* It succeeds when it is tried again.
LEMMA CloseRetrySound ==
    ASSUME TypeOK, Sound, NEW c \in Conn, CloseRetry(c)
    PROVE  TypeOK' /\ Sound'
<1>1. /\ use[c] = "closing" /\ use' = [use EXCEPT ![c] = "deleted"]
      /\ UNCHANGED <<evFree, kind, queue, blocks, sem, recvmbox, acceptmbox, app>>
      /\ corrupt' \in {"no", "stray", "yes"}
  BY DEF CloseRetry, events, handles, TypeOK
<1> QED BY <1>1, ClosedSound

\* netconn_free gives back a semaphore nobody else has and a structure that is
\* not pending anywhere.
LEMMA FreeSound ==
    ASSUME TypeOK, Sound, NEW c \in Conn, Free(c)
    PROVE  TypeOK' /\ Sound'
<1>1. PICK s \in Event : s = sem[c]
  BY DEF Free, Sound, Sems
<1>2. /\ use[c] = "deleted" /\ evFree' = <<s>> \o evFree
      /\ kind' = [kind EXCEPT ![s] = "unused"]
      /\ sem' = [sem EXCEPT ![c] = NoEvent] /\ recvmbox' = [recvmbox EXCEPT ![c] = NoEvent]
      /\ blocks' = <<c>> \o blocks /\ use' = [use EXCEPT ![c] = "free"]
      /\ app' = app \ {c} /\ queue' = queue /\ acceptmbox' = acceptmbox
      /\ corrupt' = corrupt /\ kind[s] = "sem"
  BY <1>1 DEF Free, Sound, Sems
<1>3. ListOf(evFree', {e \in Event : kind[e] = "unused"} \cup {s})
  BY <1>2, PushList DEF Sound, Lists
<1>4. ListOf(blocks', {d \in Conn : use[d] = "free"} \cup {c})
  BY <1>2, PushList DEF Sound, Lists
<1>5. /\ {e \in Event : kind'[e] = "unused"} = {e \in Event : kind[e] = "unused"} \cup {s}
      /\ {d \in Conn : use'[d] = "free"} = {d \in Conn : use[d] = "free"} \cup {c}
  BY <1>2 DEF TypeOK
<1>6. evFree' \in Seq(Event) /\ blocks' \in Seq(Conn)
  BY <1>3, <1>4, ListInSeq
<1>7. TypeOK'
  BY <1>2, <1>6 DEF TypeOK, Handle
<1>8. Lists'
  BY <1>3, <1>4, <1>5 DEF Lists
<1>9. /\ \A d \in Conn : d # c => /\ use'[d] = use[d] /\ sem'[d] = sem[d]
                                /\ recvmbox'[d] = recvmbox[d]
      /\ use'[c] = "free" /\ ~Live(c) /\ ~Live(c)'
      /\ \A d \in Conn : d # c => (Live(d)' <=> Live(d))
  BY <1>2 DEF TypeOK, Live
<1>10. Sems'
  BY <1>1, <1>2, <1>9 DEF Sound, Sems, TypeOK
<1>11. \A e \in Event : kind'[e] = "queue" <=> kind[e] = "queue"
  BY <1>2 DEF TypeOK
<1>12. Boxes'
  BY <1>2, <1>9, <1>11 DEF Sound, Boxes, Live
<1>13. Leaks'
  BY <1>2, <1>9, <1>11 DEF Sound, Leaks
<1>14. Messages'
  <2>1. \A e \in Event : kind'[e] # "queue" => queue'[e] = <<>>
    BY <1>2, <1>11 DEF Sound, Messages
  <2>2. \A b, d \in Conn : \A i \in Slot :
          Live(b)' /\ At(d, recvmbox[b], i)' => use'[b] = "listen"
    BY <1>2, <1>9 DEF Sound, Messages, At
  <2>3. \A b \in Conn : \A i \in Slot : \A m \in {Data, Eof} :
          use'[b] = "listen" => ~At(m, recvmbox[b], i)'
    BY <1>2, <1>9 DEF Sound, Messages, At
  <2>4. \A b \in Conn : use'[b] = "none" => queue'[recvmbox'[b]] = <<>>
    BY <1>2, <1>9 DEF Sound, Messages
  <2> QED BY <2>1, <2>2, <2>3, <2>4 DEF Messages
<1>15. Known'
  BY <1>2, <1>9 DEF Sound, Known, TypeOK
<1>16. \A d \in Conn, e \in Event, i \in Slot : At(d, e, i)' <=> At(d, e, i)
  BY <1>2 DEF At
<1>17. Pending'
  BY <1>2, <1>9, <1>16 DEF Sound, Pending
<1> QED BY <1>7, <1>8, <1>10, <1>12, <1>13, <1>14, <1>15, <1>17 DEF Sound

-----------------------------------------------------------------------------
(* What the TCP machine posts                                              *)

\* Mailbox r has got more messages from q to p, none of them a netconn.
More(q, p, r) ==
    /\ p \in [Event -> Seq(Message)]
    /\ \A e \in Event : Len(p[e]) <= QSize
    /\ \A e \in Event : e # r => p[e] = q[e]
    /\ Len(q[r]) <= Len(p[r])
    /\ \A i \in 1..Len(p[r]) :
         IF i <= Len(q[r]) THEN p[r][i] = q[r][i] ELSE p[r][i] \notin Conn

\* A guarded post adds its message at the end, or nothing.
LEMMA PostMore ==
    ASSUME NEW q \in [Event -> Seq(Message)], \A e \in Event : Len(q[e]) <= QSize,
           NEW r \in Event, NEW m \in {Data, Eof}
    PROVE  More(q, PostIfValid(r, m, q), r)
<1>1. /\ m \in Message /\ m \notin Conn /\ QSize \in Nat
      /\ q[r] \in Seq(Message) /\ Len(q[r]) \in Nat
  BY LenProperties, NetconnAssumption DEF Message, Data, Eof, Conn
<1>2. ASSUME PostIfValid(r, m, q) = q
      PROVE  More(q, PostIfValid(r, m, q), r)
  BY <1>1, <1>2 DEF More
<1>3. ASSUME Len(q[r]) < QSize, PostIfValid(r, m, q) = [q EXCEPT ![r] = Append(@, m)]
      PROVE  More(q, PostIfValid(r, m, q), r)
  <2> DEFINE p == PostIfValid(r, m, q)
             n == Append(q[r], m)
  <2>1. /\ n \in Seq(Message) /\ Len(n) = Len(q[r]) + 1
        /\ \A i \in 1..Len(q[r]) : n[i] = q[r][i]
        /\ n[Len(q[r]) + 1] = m
    BY <1>1, AppendProperties
  <2>2. p[r] = n /\ p \in [Event -> Seq(Message)] /\ \A e \in Event : e # r => p[e] = q[e]
    BY <1>3, <2>1
  <2> HIDE DEF p, n
  <2>3. \A e \in Event : Len(p[e]) <= QSize
    <3>1. Len(p[r]) <= QSize
      BY <1>1, <1>3, <2>1, <2>2
    <3> QED BY <2>2, <3>1
  <2>4. \A i \in 1..Len(n) : i <= Len(q[r]) \/ i = Len(q[r]) + 1
    BY <1>1, <2>1
  <2>5. \A i \in 1..Len(p[r]) :
          IF i <= Len(q[r]) THEN p[r][i] = q[r][i] ELSE p[r][i] \notin Conn
    BY <1>1, <2>1, <2>2, <2>4
  <2>6. More(q, p, r)
    BY <1>1, <2>1, <2>2, <2>3, <2>5 DEF More
  <2> QED BY <2>6 DEF p
<1> QED BY <1>2, <1>3 DEF PostIfValid

\* Two posts to a mailbox.
LEMMA MoreTwice ==
    ASSUME NEW q \in [Event -> Seq(Message)], NEW p, NEW o, NEW r \in Event,
           More(q, p, r), More(p, o, r)
    PROVE  More(q, o, r)
<1>1. /\ Len(q[r]) \in Nat /\ Len(p[r]) \in Nat /\ Len(o[r]) \in Nat
  BY LenProperties DEF More
<1>2. \A i \in 1..Len(o[r]) :
        IF i <= Len(q[r]) THEN o[r][i] = q[r][i] ELSE o[r][i] \notin Conn
  <2> SUFFICES ASSUME NEW i \in 1..Len(o[r])
               PROVE  IF i <= Len(q[r]) THEN o[r][i] = q[r][i] ELSE o[r][i] \notin Conn
    OBVIOUS
  <2>1. IF i <= Len(p[r]) THEN o[r][i] = p[r][i] ELSE o[r][i] \notin Conn
    BY DEF More
  <2>2. i <= Len(p[r]) => IF i <= Len(q[r]) THEN p[r][i] = q[r][i] ELSE p[r][i] \notin Conn
    BY <1>1 DEF More
  <2>3. Len(q[r]) <= Len(p[r])
    BY DEF More
  <2> QED BY <1>1, <2>1, <2>2, <2>3
<1>3. Len(q[r]) <= Len(o[r])
  BY <1>1 DEF More
<1> QED BY <1>2, <1>3 DEF More

\* Messages for the reader of a connected netconn disturb nobody.
LEMMA PostedSound ==
    ASSUME TypeOK, Sound, NEW c \in Conn, use[c] \in {"open", "half"},
           More(queue, queue', recvmbox[c]),
           NEW u \in {"open", "half", "reset"}, use' = [use EXCEPT ![c] = u],
           UNCHANGED <<evFree, kind, blocks, sem, recvmbox, acceptmbox, app>>,
           corrupt' \in {"no", "stray", "yes"}
    PROVE  TypeOK' /\ Sound'
<1>1. PICK r \in Event : r = recvmbox[c]
  BY DEF Sound, Boxes, Live
<1>2. kind[r] = "queue" /\ Live(c) /\ use[c] # "listen"
  BY <1>1 DEF Sound, Boxes, Live
<1>3. /\ queue' \in [Event -> Seq(Message)]
      /\ \A e \in Event : Len(queue'[e]) <= QSize
      /\ \A e \in Event : e # r => queue'[e] = queue[e]
      /\ Len(queue[r]) <= Len(queue'[r])
      /\ \A i \in 1..Len(queue'[r]) :
           IF i <= Len(queue[r]) THEN queue'[r][i] = queue[r][i]
           ELSE queue'[r][i] \notin Conn
  BY <1>1 DEF More
<1>4. \A d \in Conn : /\ Live(d)' <=> Live(d)
                      /\ use'[d] = "free" <=> use[d] = "free"
                      /\ use'[d] = "listen" <=> use[d] = "listen"
                      /\ use'[d] \in {"closing", "deleted"} <=> use[d] \in {"closing", "deleted"}
                      /\ use'[d] = "none" <=> use[d] = "none"
  BY DEF TypeOK, Live
<1>5. TypeOK'
  BY <1>3 DEF TypeOK
<1>6. Len(queue[r]) \in Nat /\ Len(queue'[r]) \in Nat
  BY <1>3, LenProperties DEF TypeOK
<1>7. \A d \in Conn, e \in Event, i \in Slot : At(d, e, i)' <=> At(d, e, i)
  <2>1. \A d \in Conn, i \in Slot : At(d, r, i)' <=> At(d, r, i)
    BY <1>3, <1>6 DEF At, Slot
  <2>2. \A d \in Conn, e \in Event, i \in Slot : e # r => (At(d, e, i)' <=> At(d, e, i))
    BY <1>3 DEF At
  <2> QED BY <2>1, <2>2
<1>8. Lists'
  BY <1>4 DEF Sound, Lists
<1>9. Sems' /\ Boxes' /\ Known'
  BY <1>4 DEF Sound, Sems, Boxes, Known, TypeOK
<1>10. Leaks'
  BY <1>1, <1>2, <1>3, <1>4 DEF Sound, Leaks
<1>11. \A d \in Conn : Live(d) /\ d # c => recvmbox[d] \in Event /\ recvmbox[d] # r
  BY <1>1, <1>2 DEF Sound, Boxes
<1>12. Messages'
  <2>1. \A e \in Event : kind'[e] # "queue" => queue'[e] = <<>>
    BY <1>2, <1>3 DEF Sound, Messages
  <2>2. \A b, d \in Conn : \A i \in Slot :
          Live(b)' /\ At(d, recvmbox[b], i)' => use'[b] = "listen"
    <3> SUFFICES ASSUME NEW b \in Conn, NEW d \in Conn, NEW i \in Slot,
                        Live(b)', At(d, recvmbox[b], i)'
                 PROVE  use'[b] = "listen"
      OBVIOUS
    <3>1. PICK e \in Event : e = recvmbox[b]
      BY <1>4 DEF Sound, Boxes
    <3>2. At(d, e, i)'
      BY <3>1 DEF At
    <3>3. At(d, e, i)
      BY <1>7, <3>2
    <3> QED BY <1>4, <3>1, <3>3 DEF Sound, Messages
  <2>3. \A b \in Conn : \A i \in Slot : \A m \in {Data, Eof} :
          use'[b] = "listen" => ~At(m, recvmbox[b], i)'
    BY <1>2, <1>3, <1>4, <1>11 DEF Sound, Messages, At, Live
  <2>4. \A b \in Conn : use'[b] = "none" => queue'[recvmbox[b]] = <<>>
    BY <1>2, <1>3, <1>4, <1>11 DEF Sound, Messages, Live
  <2> QED BY <2>1, <2>2, <2>3, <2>4 DEF Messages, At
<1>13. Pending'
  BY <1>4, <1>7 DEF Sound, Pending
<1> QED BY <1>5, <1>8, <1>9, <1>10, <1>12, <1>13 DEF Sound

\* Data for a reader.
LEMMA RecvTcpSound ==
    ASSUME TypeOK, Sound, NEW c \in Conn, RecvTcp(c)
    PROVE  TypeOK' /\ Sound'
<1>1. PICK r \in Event : r = recvmbox[c]
  BY DEF RecvTcp, Sound, Boxes, Live
<1>2. /\ use[c] = "open" /\ queue' = PostIfValid(r, Data, queue) /\ corrupt' \in {"no", "stray", "yes"}
      /\ UNCHANGED <<evFree, kind, blocks, sem, recvmbox, acceptmbox, app, use>>
  BY <1>1 DEF RecvTcp, handles, TypeOK
<1>3. More(queue, queue', recvmbox[c])
  BY <1>1, <1>2, PostMore DEF TypeOK
<1>4. use' = [use EXCEPT ![c] = "open"]
  BY <1>2 DEF TypeOK
<1> QED BY <1>2, <1>3, <1>4, PostedSound

\* The peer's FIN, alone or after data.
LEMMA RecvFinSound ==
    ASSUME TypeOK, Sound, NEW c \in Conn, NEW last \in BOOLEAN, RecvFin(c, last)
    PROVE  TypeOK' /\ Sound'
<1>1. PICK r \in Event : r = recvmbox[c]
  BY DEF RecvFin, Sound, Boxes, Live
<1>2. PICK q : q = IF last THEN PostIfValid(r, Data, queue) ELSE queue
  OBVIOUS
<1>3. /\ use[c] = "open" /\ queue' = PostIfValid(r, Eof, q) /\ corrupt' \in {"no", "stray", "yes"}
      /\ use' = [use EXCEPT ![c] = "half"]
      /\ UNCHANGED <<evFree, kind, blocks, sem, recvmbox, acceptmbox, app>>
  BY <1>1, <1>2 DEF RecvFin, handles, TypeOK
<1>4. More(queue, q, r)
  <2>1. More(queue, PostIfValid(r, Data, queue), r)
    BY PostMore DEF TypeOK
  <2>2. Len(queue[r]) \in Nat
    BY LenProperties DEF TypeOK
  <2>3. More(queue, queue, r)
    BY <2>2 DEF More, TypeOK
  <2> QED BY <1>2, <2>1, <2>3
<1>5. More(q, queue', r)
  <2>1. q \in [Event -> Seq(Message)] /\ \A e \in Event : Len(q[e]) <= QSize
    BY <1>4 DEF More
  <2> QED BY <1>3, <2>1, PostMore
<1>6. More(queue, queue', recvmbox[c])
  BY <1>1, <1>4, <1>5, MoreTwice DEF TypeOK
<1> QED BY <1>3, <1>6, PostedSound

\* A message for a handle that does not test valid goes nowhere.
LEMMA NotPosted ==
    ASSUME NEW e, NEW m, ~Valid(e)
    PROVE  PostIfValid(e, m, queue) = queue
BY DEF PostIfValid, Valid

\* A reset: the stale acceptmbox, when it does not test valid or is recvmbox
\* again, changes nothing for anybody else; neither does the recvmbox of a close
\* that waits, when it does not test valid.
LEMMA ErrTcpSound ==
    ASSUME TypeOK, Sound, NEW c \in Conn, ErrTcp(c)
    PROVE  TypeOK' /\ (Sane' => Sound')
<1>1. PICK r \in Handle, a \in Handle : r = recvmbox[c] /\ a = acceptmbox[c]
  BY DEF TypeOK
<1>2. PICK q : q = PostIfValid(r, Eof, queue)
  OBVIOUS
<1>3. /\ use[c] \in {"open", "half", "closing"} /\ queue' = PostIfValid(a, Eof, q)
      /\ use' = [use EXCEPT ![c] = IF use[c] = "closing" THEN "deleted" ELSE "reset"]
      /\ UNCHANGED <<evFree, kind, blocks, sem, recvmbox, acceptmbox, app>>
  BY <1>1, <1>2 DEF ErrTcp, handles
<1>4. /\ corrupt' \in {"no", "stray", "yes"}
      /\ Sane' => ~(a # r /\ Valid(a)) /\ ~(use[c] = "closing" /\ Valid(r))
  BY <1>1 DEF ErrTcp, Sane
<1>5. \A p \in [Event -> Seq(Message)], e \in Handle :
        (\A f \in Event : Len(p[f]) <= QSize)
          => \/ PostIfValid(e, Eof, p) = p
             \/ e \in Event /\ More(p, PostIfValid(e, Eof, p), e)
  <2> SUFFICES ASSUME NEW p \in [Event -> Seq(Message)], NEW e \in Handle,
                      \A f \in Event : Len(p[f]) <= QSize
               PROVE  \/ PostIfValid(e, Eof, p) = p
                      \/ e \in Event /\ More(p, PostIfValid(e, Eof, p), e)
    OBVIOUS
  <2>1. ASSUME e = NoEvent PROVE PostIfValid(e, Eof, p) = p
    BY <2>1 DEF PostIfValid
  <2>2. ASSUME e \in Event PROVE More(p, PostIfValid(e, Eof, p), e)
    BY <2>2, PostMore
  <2> QED BY <2>1, <2>2 DEF Handle
<1>6. q \in [Event -> Seq(Message)] /\ \A e \in Event : Len(q[e]) <= QSize
  BY <1>2, <1>5 DEF More, TypeOK
<1>7. queue' \in [Event -> Seq(Message)] /\ \A e \in Event : Len(queue'[e]) <= QSize
  BY <1>3, <1>5, <1>6 DEF More
<1>8. TypeOK'
  BY <1>3, <1>4, <1>7 DEF TypeOK
<1>9. ASSUME Sane', use[c] # "closing"
      PROVE  Sound'
  <2>1. r \in Event /\ use[c] \in {"open", "half"} /\ use' = [use EXCEPT ![c] = "reset"]
    BY <1>1, <1>3, <1>9 DEF Sound, Boxes, Live
  <2>2. More(queue, q, r)
    BY <1>2, <2>1, PostMore DEF TypeOK
  <2>3. ASSUME a = r
        PROVE  More(queue, queue', r)
    <3>1. More(q, queue', r)
      BY <1>3, <1>6, <2>1, <2>3, PostMore
    <3> QED BY <2>1, <2>2, <3>1, MoreTwice DEF TypeOK
  <2>4. ASSUME a # r
        PROVE  queue' = q
    <3>1. ~Valid(a)
      BY <1>4, <1>9, <2>4
    <3>2. a # NoEvent => q[a] = queue[a]
      BY <2>2, <2>4 DEF More, Handle
    <3> QED BY <1>3, <3>1, <3>2 DEF PostIfValid, Valid
  <2>5. More(queue, queue', recvmbox[c])
    BY <1>1, <2>2, <2>3, <2>4
  <2> QED BY <1>3, <1>4, <2>1, <2>5, PostedSound
<1>10. ASSUME Sane', use[c] = "closing"
       PROVE  Sound'
  <2>1. ~Valid(r) /\ ~Valid(a)
    BY <1>4, <1>10
  <2>2. queue' = queue
    BY <1>2, <1>3, <2>1, NotPosted
  <2>3. use' = [use EXCEPT ![c] = "deleted"]
    BY <1>3, <1>10
  <2> QED BY <1>3, <1>4, <1>10, <2>2, <2>3, ClosedSound
<1> QED BY <1>8, <1>9, <1>10

\* A new connection is put behind the others in the listener's acceptmbox.
LEMMA AcceptFunctionSound ==
    ASSUME TypeOK, Sound, NEW l \in Conn, NEW c \in Conn, AcceptFunction(l, c)
    PROVE  TypeOK' /\ Sound'
<1>1. PICK a \in Event : a = acceptmbox[l]
  BY DEF AcceptFunction, Sound, Boxes, Live
<1>2. /\ CanAlloc /\ Alloc(c) /\ use[l] = "listen" /\ Valid(a)
      /\ use' = [use EXCEPT ![c] = "open"] /\ app' = app /\ corrupt' = corrupt
      /\ queue' = PostIfValid(a, c, queue)
  BY <1>1 DEF AcceptFunction
<1>3. PICK s \in Event, r \in Event : s = evFree[1] /\ r = evFree[2]
  BY <1>2, Allocated
<1>4. /\ s # r /\ kind[s] = "unused" /\ kind[r] = "unused" /\ use[c] = "free"
      /\ Lists' /\ Sems' /\ Boxes' /\ HandlesTyped'
  BY <1>2, <1>3, Allocated
<1>5. /\ kind' = [kind EXCEPT ![s] = "sem", ![r] = "queue"]
      /\ recvmbox' = [recvmbox EXCEPT ![c] = r] /\ acceptmbox' = acceptmbox
  BY <1>2, <1>3 DEF Alloc
<1>6. kind[a] = "queue" /\ a = recvmbox[l] /\ Live(l) /\ a # s /\ a # r /\ l # c
  BY <1>1, <1>2, <1>4 DEF Sound, Boxes, Live
<1>7. /\ queue[a] \in Seq(Message) /\ Len(queue[a]) \in Nat /\ Len(queue[a]) < QSize
      /\ queue' = [queue EXCEPT ![a] = Append(@, c)] /\ QSize \in Nat /\ c \in Message
  BY <1>2, LenProperties, NetconnAssumption DEF Valid, PostIfValid, TypeOK, Message
<1> DEFINE n == Append(queue[a], c)
<1>k. PICK k : k = Len(queue[a]) + 1
  OBVIOUS
<1>8. /\ n \in Seq(Message) /\ Len(n) = k
      /\ \A i \in 1..Len(queue[a]) : n[i] = queue[a][i]
      /\ n[k] = c /\ k \in Slot
  BY <1>7, <1>k, AppendProperties DEF Slot
<1>9. /\ queue'[a] = n /\ queue' \in [Event -> Seq(Message)]
      /\ \A e \in Event : e # a => queue'[e] = queue[e]
  BY <1>7, <1>8 DEF TypeOK
<1> HIDE DEF n
<1>10. \A e \in Event : Len(queue'[e]) <= QSize
  <2>1. Len(queue'[a]) <= QSize
    BY <1>7, <1>8, <1>9
  <2> QED BY <1>9, <2>1 DEF TypeOK
<1>11. TypeOK'
  BY <1>2, <1>4, <1>9, <1>10 DEF TypeOK, HandlesTyped
<1>12. queue[s] = <<>> /\ queue[r] = <<>>
  BY <1>4 DEF Sound, Messages
<1>13. /\ use'[c] = "open" /\ Live(c)' /\ ~Live(c) /\ recvmbox'[c] = r
       /\ \A d \in Conn : d # c => /\ use'[d] = use[d] /\ recvmbox'[d] = recvmbox[d]
                                   /\ (Live(d)' <=> Live(d))
  BY <1>2, <1>4, <1>5 DEF TypeOK, Live
<1>14. \A m \in Message, e \in Event, i \in Slot :
         At(m, e, i)' <=> At(m, e, i) \/ (e = a /\ i = k /\ m = c)
  <2>1. \A m \in Message, i \in Slot : At(m, a, i)' <=> At(m, a, i) \/ (i = k /\ m = c)
    BY <1>7, <1>8, <1>9, <1>k DEF At, Slot
  <2>2. \A m \in Message, e \in Event, i \in Slot :
          e # a => (At(m, e, i)' <=> At(m, e, i))
    BY <1>9 DEF At
  <2> QED BY <2>1, <2>2
<1>15. /\ \A d \in Conn : d \in Message /\ d # Data /\ d # Eof
       /\ Data \in Message /\ Eof \in Message
  BY NetconnAssumption DEF Message, Conn, Data, Eof
<1>16. \A m, i : i \in Slot => ~At(m, r, i)
  BY <1>12 DEF At, Slot
<1>17. Leaks'
  <2> SUFFICES ASSUME NEW e \in Event, kind'[e] = "queue", Len(queue'[e]) < QSize
               PROVE  \E d \in Conn : Live(d)' /\ recvmbox'[d] = e
    BY DEF Leaks, Live
  <2>1. ASSUME e # r, e # a PROVE \E d \in Conn : Live(d)' /\ recvmbox'[d] = e
    <3>1. kind[e] = "queue" /\ Len(queue[e]) < QSize
      BY <1>4, <1>5, <1>9, <2>1 DEF TypeOK
    <3>2. PICK d \in Conn : Live(d) /\ recvmbox[d] = e
      BY <3>1 DEF Sound, Leaks
    <3> QED BY <1>13, <3>2
  <2>2. ASSUME e = r PROVE \E d \in Conn : Live(d)' /\ recvmbox'[d] = e
    BY <1>13, <2>2
  <2>3. ASSUME e = a PROVE \E d \in Conn : Live(d)' /\ recvmbox'[d] = e
    BY <1>6, <1>13, <2>3
  <2> QED BY <2>1, <2>2, <2>3
<1>18. Messages'
  <2>1. \A e \in Event : kind'[e] # "queue" => queue'[e] = <<>>
    BY <1>5, <1>6, <1>9, <1>12 DEF Sound, Messages, TypeOK
  <2>2. \A b, d \in Conn : \A i \in Slot :
          Live(b)' /\ At(d, recvmbox[b], i)' => use'[b] = "listen"
    <3> SUFFICES ASSUME NEW b \in Conn, NEW d \in Conn, NEW i \in Slot,
                        Live(b)', At(d, recvmbox[b], i)'
                 PROVE  use'[b] = "listen"
      OBVIOUS
    <3>1. PICK e \in Event : e = recvmbox'[b]
      BY <1>13 DEF Sound, Boxes
    <3>2. At(d, e, i)'
      BY <3>1 DEF At
    <3>3. At(d, e, i) \/ (e = a /\ d = c)
      BY <1>14, <1>15, <3>2
    <3>4. b # c
      BY <1>6, <1>13, <1>16, <3>1, <3>3
    <3>5. e = a => b = l
      BY <1>6, <1>13, <3>1, <3>4 DEF Sound, Boxes
    <3> QED BY <1>2, <1>13, <3>1, <3>3, <3>4, <3>5 DEF Sound, Messages
  <2>3. \A b \in Conn : \A i \in Slot : \A m \in {Data, Eof} :
          use'[b] = "listen" => ~At(m, recvmbox[b], i)'
    <3> SUFFICES ASSUME NEW b \in Conn, NEW i \in Slot, NEW m \in {Data, Eof},
                        use'[b] = "listen", At(m, recvmbox[b], i)'
                 PROVE  FALSE
      OBVIOUS
    <3>1. b # c /\ use[b] = "listen" /\ recvmbox'[b] = recvmbox[b]
      BY <1>13
    <3>2. PICK e \in Event : e = recvmbox[b]
      BY <3>1 DEF Sound, Boxes, Live
    <3>3. At(m, e, i)'
      BY <3>1, <3>2 DEF At
    <3>4. At(m, e, i)
      BY <1>14, <1>15, <3>3
    <3> QED BY <3>1, <3>2, <3>4 DEF Sound, Messages
  <2>4. \A b \in Conn : use'[b] = "none" => queue'[recvmbox'[b]] = <<>>
    <3> SUFFICES ASSUME NEW b \in Conn, use'[b] = "none"
                 PROVE  queue'[recvmbox'[b]] = <<>>
      OBVIOUS
    <3>1. b # c /\ use[b] = "none" /\ recvmbox'[b] = recvmbox[b]
      BY <1>13
    <3>2. recvmbox[b] \in Event /\ recvmbox[b] # a /\ queue[recvmbox[b]] = <<>>
      BY <1>2, <1>6, <3>1 DEF Sound, Boxes, Messages, Live
    <3> QED BY <1>9, <3>1, <3>2
  <2> QED BY <2>1, <2>2, <2>3, <2>4 DEF Messages
<1>19. Known'
  BY <1>2, <1>4, <1>13 DEF Sound, Known, TypeOK
<1>20. \A e \in Event, i \in Slot : ~At(c, e, i)
  BY <1>13 DEF Sound, Pending
<1>21. c \notin app
  BY <1>4 DEF Sound, Known
<1>22. Pending'
  <2>1. \A d \in Conn : \A e, f \in Event : \A i, j \in Slot :
          At(d, e, i)' /\ At(d, f, j)' => e = f /\ i = j
    BY <1>14, <1>15, <1>20 DEF Sound, Pending
  <2>2. \A d \in Conn : \A e \in Event : \A i \in Slot :
          At(d, e, i)' => d \notin app' /\ Live(d)'
    BY <1>2, <1>13, <1>14, <1>15, <1>21 DEF Sound, Pending
  <2>3. \A d \in Conn : Live(d)' /\ d \notin app' =>
          \E e \in Event : \E i \in Slot : At(d, e, i)'
    <3> SUFFICES ASSUME NEW d \in Conn, Live(d)', d \notin app'
                 PROVE  \E e \in Event : \E i \in Slot : At(d, e, i)'
      OBVIOUS
    <3>1. ASSUME d = c PROVE At(d, a, k)'
      BY <1>8, <1>14, <1>15, <3>1
    <3>2. ASSUME d # c PROVE \E e \in Event : \E i \in Slot : At(d, e, i)'
      <4>1. PICK e \in Event, i \in Slot : At(d, e, i)
        BY <1>2, <1>13, <3>2 DEF Sound, Pending
      <4> QED BY <1>14, <1>15, <4>1
    <3> QED BY <1>8, <3>1, <3>2
  <2> QED BY <2>1, <2>2, <2>3 DEF Pending
<1> QED BY <1>4, <1>11, <1>17, <1>18, <1>19, <1>22 DEF Sound

-----------------------------------------------------------------------------
(* The invariant                                                           *)

\* Init gives one list of all events and one of all netconns.
LEMMA CountedList == ASSUME NEW n \in Nat PROVE ListOf([i \in 1..n |-> i], 1..n)
<1> DEFINE s == [i \in 1..n |-> i]
<1>1. s \in Seq(1..n) /\ DOMAIN s = 1..n /\ \A i \in 1..n : s[i] = i
  OBVIOUS
<1> HIDE DEF s
<1> QED BY <1>1 DEF ListOf, ToSet, IsInjective, s

\* What the init functions of lwIP and uC/OS-II leave.
LEMMA InitSound == Init => IInv
<1> SUFFICES ASSUME Init PROVE TypeOK /\ Sound
  BY DEF IInv
<1>1. ListOf(evFree, Event) /\ ListOf(blocks, Conn)
  BY CountedList, NetconnAssumption DEF Init, Event, Conn
<1>2. evFree \in Seq(Event) /\ blocks \in Seq(Conn)
  BY <1>1, ListInSeq
<1>3. TypeOK
  <2>1. queue \in [Event -> Seq(Message)] /\ \A e \in Event : Len(queue[e]) <= QSize
    BY NetconnAssumption DEF Init
  <2>2. recvmbox \in [Conn -> Handle] /\ acceptmbox \in [Conn -> Handle]
        /\ sem \in [Conn -> Handle]
    BY DEF Init, Handle
  <2> QED BY <1>2, <2>1, <2>2 DEF Init, TypeOK
<1>4. {e \in Event : kind[e] = "unused"} = Event /\ {c \in Conn : use[c] = "free"} = Conn
  BY DEF Init
<1>5. Lists
  BY <1>1, <1>4 DEF Lists
<1>6. \A c \in Conn : use[c] = "free" /\ ~Live(c)
  BY DEF Init, Live
<1>7. \A e \in Event : kind[e] = "unused" /\ queue[e] = <<>>
  BY DEF Init
<1>8. Sems /\ Boxes /\ Leaks
  BY <1>6, <1>7 DEF Sems, Boxes, Leaks
<1>9. \A m, e, i : e \in Event /\ i \in Slot => ~At(m, e, i)
  BY <1>7 DEF At, Slot
<1>10. Messages
  BY <1>6, <1>7 DEF Messages
<1>11. Known /\ Pending
  BY <1>6, <1>9 DEF Known, Pending, Init
<1> QED BY <1>3, <1>5, <1>8, <1>10, <1>11 DEF Sound

\* Every operation, callback and handler of a TCP netconn keeps the invariant.
LEMMA NextSound == IInv /\ [Next]_vars => IInv'
<1> SUFFICES ASSUME IInv, [Next]_vars PROVE IInv'
  OBVIOUS
<1>1. ASSUME UNCHANGED vars PROVE IInv'
  BY <1>1 DEF IInv, TypeOK, Sound, Lists, Sems, Boxes, Leaks, Messages, Known, Pending,
              At, Live, Sane, vars, events, handles
<1>2. ASSUME Next PROVE Sane /\ TypeOK /\ Sound
  BY <1>2 DEF Next, IInv, Socket, SocketRefused, Connect, Listen, Accept, Recv, DelConn,
              CloseRetry, Free, RecvTcp, RecvFin, ErrTcp, AcceptFunction
<1>3. ASSUME NEW c \in Conn, TypeOK, Sound, Socket(c) PROVE IInv'
  BY <1>3, SocketSound DEF IInv
<1>4. ASSUME NEW c \in Conn, TypeOK, Sound, SocketRefused(c) PROVE IInv'
  BY <1>4, SocketRefusedSound DEF IInv
<1>5. ASSUME NEW c \in Conn, TypeOK, Sound, Connect(c) PROVE IInv'
  BY <1>5, ConnectSound DEF IInv
<1>6. ASSUME NEW c \in Conn, TypeOK, Sound, Listen(c) PROVE IInv'
  BY <1>6, ListenSound DEF IInv
<1>7. ASSUME NEW c \in Conn, TypeOK, Sound, Accept(c) PROVE IInv'
  BY <1>7, AcceptSound DEF IInv
<1>8. ASSUME NEW c \in Conn, TypeOK, Sound, Recv(c) PROVE IInv'
  BY <1>8, RecvSound DEF IInv
<1>9. ASSUME NEW c \in Conn, TypeOK, Sound, DelConn(c) PROVE IInv'
  BY <1>9, DelConnSound DEF IInv
<1>10. ASSUME NEW c \in Conn, TypeOK, Sound, Free(c) PROVE IInv'
  BY <1>10, FreeSound DEF IInv
<1>11. ASSUME NEW c \in Conn, TypeOK, Sound, RecvTcp(c) PROVE IInv'
  BY <1>11, RecvTcpSound DEF IInv
<1>12. ASSUME NEW c \in Conn, TypeOK, Sound, ErrTcp(c) PROVE IInv'
  BY <1>12, ErrTcpSound DEF IInv
<1>13. ASSUME NEW c \in Conn, NEW last \in BOOLEAN, TypeOK, Sound, RecvFin(c, last)
       PROVE  IInv'
  BY <1>13, RecvFinSound DEF IInv
<1>14. ASSUME NEW l \in Conn, NEW c \in Conn, TypeOK, Sound, AcceptFunction(l, c)
       PROVE  IInv'
  BY <1>14, AcceptFunctionSound DEF IInv
<1>15. ASSUME NEW c \in Conn, TypeOK, Sound, CloseRetry(c) PROVE IInv'
  BY <1>15, CloseRetrySound DEF IInv
<1> QED BY <1>1, <1>2, <1>3, <1>4, <1>5, <1>6, <1>7, <1>8, <1>9, <1>10, <1>11, <1>12,
           <1>13, <1>14, <1>15 DEF Next

\* The invariant of every behaviour.
THEOREM NetconnSound == Spec => []IInv
<1> QED BY InitSound, NextSound, PTL DEF Spec

-----------------------------------------------------------------------------
(* Results                                                                 *)

\* OSEventFreeList and the list of netconn structures hold each unused element
\* once, whatever netconn calls and TCP events came before: no event or structure
\* is freed twice or while it is in use.
THEOREM ListsAreSound == Spec => []FreeListsSound
<1>1. IInv => FreeListsSound
  BY DEF IInv, FreeListsSound, Sound, Lists, ListOf
<1> QED BY <1>1, NetconnSound, PTL

\* Two live netconns never have a semaphore or a mailbox in common, although a
\* freed mailbox keeps its pointer.
THEOREM HandlesAreExclusive == Spec => []HandlesExclusive
<1>1. IInv => HandlesExclusive
  <2> SUFFICES ASSUME IInv, Sane, NEW c \in Conn, Live(c)
               PROVE  /\ sem[c] # NoEvent /\ kind[sem[c]] = "sem"
                      /\ Mailbox(c) # NoEvent /\ kind[Mailbox(c)] = "queue"
                      /\ \A d \in Conn \ {c} : Live(d) =>
                           sem[d] # sem[c] /\ Mailbox(d) # Mailbox(c)
    BY DEF HandlesExclusive
  <2>1. Sems /\ Boxes
    BY DEF IInv, Sound
  <2>2. \A d \in Conn : Live(d) => /\ Mailbox(d) = recvmbox[d]
                                   /\ use[d] # "free"
    BY <2>1 DEF Boxes, Mailbox, Live
  <2>3. \A e \in Event : e # NoEvent
    BY NetconnAssumption DEF Event, NoEvent
  <2>4. sem[c] \in Event /\ recvmbox[c] \in Event
    BY <2>1, <2>2 DEF Sems, Boxes
  <2> QED BY <2>1, <2>2, <2>3, <2>4 DEF Sems, Boxes
<1> QED BY <1>1, NetconnSound, PTL

\* netconn_delete and netconn_free lose an event only when a mailbox is full.
THEOREM LeaksAreFull == Spec => []OnlyFullLeaks
<1>1. IInv => OnlyFullLeaks
  <2> SUFFICES ASSUME IInv, Sane, NEW e \in Event
               PROVE  /\ kind[e] = "queue" /\ Len(queue[e]) < QSize
                           => \E c \in Conn : Live(c) /\ Mailbox(c) = e
                      /\ kind[e] = "sem" => \E c \in Conn : use[c] # "free" /\ sem[c] = e
    BY DEF OnlyFullLeaks
  <2>1. Sems /\ Boxes /\ Leaks
    BY DEF IInv, Sound
  <2>2. \A d \in Conn : Live(d) => Mailbox(d) = recvmbox[d]
    BY <2>1 DEF Boxes, Mailbox
  <2> QED BY <2>1, <2>2 DEF Sems, Leaks
<1> QED BY <1>1, NetconnSound, PTL

\* A connection waits in one acceptmbox once, or is known to the application,
\* and its structure is not reused in the meantime.
THEOREM PendingIsOnce == Spec => []PendingOnce
<1>1. IInv => PendingOnce
  <2> SUFFICES ASSUME IInv, Sane, NEW c \in Conn
               PROVE  /\ Cardinality(Places(c)) <= 1
                      /\ Places(c) # {} => c \notin app /\ Live(c)
                      /\ Live(c) /\ c \notin app => Places(c) # {}
    BY DEF PendingOnce
  <2>1. TypeOK /\ Pending
    BY DEF IInv, Sound
  <2>2. \A e \in Event : /\ Len(queue[e]) \in Nat /\ Len(queue[e]) <= QSize
                         /\ DOMAIN queue[e] = 1..Len(queue[e])
    BY <2>1, LenProperties DEF TypeOK
  <2>3. \A p : p \in Places(c) <=> \E e \in Event, i \in Slot : p = <<e, i>> /\ At(c, e, i)
    <3>1. \A e \in Event :
            {j \in DOMAIN queue[e] : queue[e][j] = c} = {i \in Slot : At(c, e, i)}
      BY <2>2, NetconnAssumption DEF At, Slot
    <3>2. Places(c) = UNION {{<<e, i>> : i \in {j \in Slot : At(c, e, j)}} : e \in Event}
      BY <3>1 DEF Places
    <3> QED BY <3>2
  <2>4. \A p, q \in Places(c) : p = q
    BY <2>1, <2>3 DEF Pending
  <2>5. Cardinality(Places(c)) <= 1
    <3>1. ASSUME Places(c) = {} PROVE Cardinality(Places(c)) = 0
      BY <3>1, FS_EmptySet
    <3>2. ASSUME NEW p \in Places(c) PROVE Cardinality(Places(c)) = 1
      <4>1. Places(c) = {p}
        BY <2>4, <3>2
      <4> QED BY <4>1, FS_Singleton
    <3> QED BY <3>1, <3>2
  <2>6. Places(c) # {} => c \notin app /\ Live(c)
    BY <2>1, <2>3 DEF Pending
  <2>7. Live(c) /\ c \notin app => Places(c) # {}
    BY <2>1, <2>3 DEF Pending
  <2> QED BY <2>5, <2>6, <2>7
<1> QED BY <1>1, NetconnSound, PTL

\* As long as no listening socket is closed, only the netconn that listens has an
\* acceptmbox, and no operation takes a freed mailbox for its own but err_tcp, for
\* a close that waits.
LEMMA NoStaleStep ==
    ASSUME CloseListener = FALSE, TypeOK, Sound, NoStaleBox, Sane, Next
    PROVE  NoStaleBox' /\ corrupt' # "yes"
<1>1. ASSUME NEW c \in Conn, Alloc(c), CanAlloc, NEW u \in {"none", "open"},
             use' = [use EXCEPT ![c] = u]
      PROVE  NoStaleBox'
  <2>1. use[c] = "free"
    BY <1>1, Allocated
  <2>2. acceptmbox' = acceptmbox
    BY <1>1 DEF Alloc
  <2> QED BY <1>1, <2>1, <2>2 DEF NoStaleBox, TypeOK
<1>2. ASSUME NEW c \in Conn, use[c] # "listen"
      PROVE  acceptmbox[c] = NoEvent /\ ~Valid(acceptmbox[c])
  BY <1>2 DEF NoStaleBox, Valid
<1>3. ASSUME NEW c \in Conn, Socket(c) PROVE NoStaleBox' /\ corrupt' # "yes"
  BY <1>1, <1>3 DEF Socket, Sane
<1>4. ASSUME NEW c \in Conn, SocketRefused(c) \/ Recv(c) \/ RecvTcp(c) \/ Accept(c)
      PROVE  NoStaleBox' /\ corrupt' # "yes"
  BY <1>4 DEF SocketRefused, Recv, RecvTcp, Accept, handles, NoStaleBox, Sane
<1>5. ASSUME NEW c \in Conn, Connect(c) PROVE NoStaleBox' /\ corrupt' # "yes"
  BY <1>5 DEF Connect, handles, NoStaleBox, TypeOK, Sane
<1>6. ASSUME NEW c \in Conn, Listen(c) PROVE NoStaleBox' /\ corrupt' # "yes"
  BY <1>2, <1>6 DEF Listen, NoStaleBox, TypeOK, Sane
<1>7. ASSUME NEW c \in Conn, DelConn(c) PROVE NoStaleBox' /\ corrupt' # "yes"
  <2>1. use[c] # "listen" /\ Live(c)
    BY <1>7 DEF DelConn
  <2>2. PICK r \in Event : r = recvmbox[c]
    BY <2>1 DEF Sound, Boxes
  <2>3. ~Alien(r, c)
    BY <2>1, <2>2 DEF Alien, Sound, Boxes, Mailbox
  <2>4. ASSUME NEW i \in 1..Len(queue[r]) PROVE queue[r][i] \notin Conn
    <3>1. i \in Slot /\ i <= Len(queue[r])
      BY <2>4, LenProperties, NetconnAssumption DEF Slot, TypeOK
    <3>2. ASSUME queue[r][i] \in Conn PROVE FALSE
      <4>1. PICK d \in Conn : queue[r][i] = d
        BY <3>2
      <4>2. At(d, recvmbox[c], i)
        BY <2>2, <3>1, <4>1 DEF At
      <4> QED BY <2>1, <3>1, <4>2 DEF Sound, Messages
    <3> QED BY <3>2
  <2>5. ~DrainMisuses(c)
    BY <1>2, <2>1, <2>2, <2>3, <2>4 DEF DrainMisuses
  <2> QED BY <1>2, <1>7, <2>1, <2>5 DEF DelConn, handles, NoStaleBox, TypeOK
<1>8. ASSUME NEW c \in Conn, Free(c) PROVE NoStaleBox' /\ corrupt' # "yes"
  BY <1>2, <1>8 DEF Free, NoStaleBox, TypeOK, Sane
<1>9. ASSUME NEW c \in Conn, ErrTcp(c) PROVE NoStaleBox' /\ corrupt' # "yes"
  BY <1>2, <1>9 DEF ErrTcp, handles, NoStaleBox, TypeOK
<1>10. ASSUME NEW c \in Conn, NEW last \in BOOLEAN, RecvFin(c, last)
       PROVE  NoStaleBox' /\ corrupt' # "yes"
  BY <1>2, <1>10 DEF RecvFin, handles, NoStaleBox, TypeOK, Sane
<1>11. ASSUME NEW l \in Conn, NEW c \in Conn, AcceptFunction(l, c)
       PROVE  NoStaleBox' /\ corrupt' # "yes"
  BY <1>1, <1>11 DEF AcceptFunction, Sane
<1>12. ASSUME NEW c \in Conn, CloseRetry(c) PROVE NoStaleBox' /\ corrupt' # "yes"
  BY <1>12 DEF CloseRetry, handles, NoStaleBox, TypeOK, Sane
<1> QED BY <1>3, <1>4, <1>5, <1>6, <1>7, <1>8, <1>9, <1>10, <1>11, <1>12 DEF Next

\* As long as the application closes no listening socket, a mailbox that is
\* freed and keeps its pointer is used for somebody else's in one way only: the
\* NULL that err_tcp posts for a connection reset while its close waits for
\* memory.  No message is taken for what it is not.
THEOREM NoAlien == ASSUME CloseListener = FALSE PROVE Spec => []NoAlienUse
<1> DEFINE J == IInv /\ (Sane => NoStaleBox) /\ corrupt # "yes"
<1>1. Init => J
  <2>1. Init => NoStaleBox /\ corrupt # "yes"
    BY DEF Init, NoStaleBox
  <2> QED BY <2>1, InitSound
<1>2. J /\ [Next]_vars => J'
  <2> SUFFICES ASSUME J, [Next]_vars PROVE J'
    OBVIOUS
  <2>1. IInv'
    BY NextSound
  <2>2. ASSUME UNCHANGED vars PROVE (Sane' => NoStaleBox') /\ corrupt' # "yes"
    BY <2>2 DEF vars, events, handles, NoStaleBox, Sane
  <2>3. ASSUME Next PROVE NoStaleBox' /\ corrupt' # "yes"
    <3>1. Sane /\ TypeOK /\ Sound
      BY <2>3 DEF Next, IInv, Socket, SocketRefused, Connect, Listen, Accept, Recv,
                  DelConn, CloseRetry, Free, RecvTcp, RecvFin, ErrTcp, AcceptFunction
    <3> QED BY <2>3, <3>1, NoStaleStep
  <2> QED BY <2>1, <2>2, <2>3
<1>3. J => NoAlienUse
  BY DEF NoAlienUse
<1> QED BY <1>1, <1>2, <1>3, PTL DEF Spec

=============================================================================
