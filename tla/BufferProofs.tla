---------------------------- MODULE BufferProofs ----------------------------
(* Proofs about what is kept in memory: Deque for any limit, any growth and  *)
(* any payloads, Strings for any texts and any arrays of its element types,  *)
(* Frames for any values, any challenges and any damage within one byte.     *)
EXTENDS Parts, TLAPS, FiniteSetTheorems, FunctionTheorems, SequenceTheorems, WellFoundedInduction

-----------------------------------------------------------------------------
(* Going round an array of r slots: the slot that is j after t, and how far  *)
(* after t slot i is.                                                        *)
Wrap(x, r) == IF x < r THEN x ELSE x - r
Slot(t, r, j) == Wrap(t + j, r)
Distance(t, r, i) == IF i >= t THEN i - t ELSE i + r - t

LEMMA WrapIsMod ==
  ASSUME NEW r \in Nat \ {0}, NEW x \in 0..2 * r - 1 PROVE x % r = Wrap(x, r)
<1>1. CASE x < r
  BY <1>1 DEF Wrap
<1>2. CASE x >= r
  BY <1>2 DEF Wrap
<1> QED BY <1>1, <1>2

LEMMA Around ==
  ASSUME NEW r \in Nat \ {0}, NEW t \in 0..r - 1
  PROVE  /\ \A j \in 0..r - 1 : Slot(t, r, j) \in 0..r - 1 /\ Distance(t, r, Slot(t, r, j)) = j
         /\ \A i \in 0..r - 1 : Distance(t, r, i) \in 0..r - 1 /\ Slot(t, r, Distance(t, r, i)) = i
  BY DEF Slot, Distance, Wrap

(* The index that CBuffer_At and CBuffer_PopFront count from the head.       *)
LEMMA DownFromHead ==
  ASSUME NEW r \in Nat \ {0}, NEW t \in 0..r - 1, NEW n \in 0..r, NEW k \in 1..n
  PROVE  (Slot(t, r, n) + r - k) % r = Slot(t, r, n - k)
<1> DEFINE x == Slot(t, r, n) + r - k
<1>1. x \in 0..2 * r - 1
  BY DEF Slot, Wrap
<1>2. Wrap(x, r) = Slot(t, r, n - k)
  BY DEF Slot, Wrap
<1> HIDE DEF x
<1>3. x % r = Wrap(x, r)
  BY <1>1, WrapIsMod
<1> QED BY <1>2, <1>3 DEF x

-----------------------------------------------------------------------------
(* What a created object is like between two calls.                          *)
Shaped(d) ==
  /\ DOMAIN d = {"arr", "reserved", "size", "head", "tail", "listening"}
  /\ d.reserved \in 1..MaxSize /\ d.size \in 0..d.reserved
  /\ d.tail \in 0..d.reserved - 1
  /\ d.head = Slot(d.tail, d.reserved, d.size)
  /\ d.arr \in [0..d.reserved - 1 -> Data \cup {Ring!NULL}]

(* The slots from the tail on hold payloads, and no other does.              *)
Windowed(d) ==
  \A i \in 0..d.reserved - 1 : d.arr[i] # Ring!NULL <=> Distance(d.tail, d.reserved, i) < d.size

WellFormed(d) == Shaped(d) /\ Windowed(d)

(* The elements, the front first.                                            *)
View(d) == [k \in 1..d.size |-> d.arr[Slot(d.tail, d.reserved, d.size - k)]]

DequeInv ==
  /\ heard = cb.size /\ heap = cb.size
  /\ cb = Ring!NoDeque \/ WellFormed(cb)

LEMMA ViewAt ==
  ASSUME NEW d, NEW k \in 1..d.size
  PROVE  View(d)[k] = d.arr[Slot(d.tail, d.reserved, d.size - k)]
  BY DEF View

LEMMA ViewType ==
  ASSUME Ring!SizesFit, NEW d, WellFormed(d)
  PROVE  View(d) \in Seq(Data) /\ Len(View(d)) = d.size /\ d.size \in Nat
<1> USE DEF WellFormed, Shaped
<1>1. d.size \in Nat /\ d.reserved \in Nat \ {0} /\ d.tail \in 0..d.reserved - 1
  BY DEF Ring!SizesFit
<1>2. ASSUME NEW k \in 1..d.size PROVE d.arr[Slot(d.tail, d.reserved, d.size - k)] \in Data
  <2>1. d.size - k \in 0..d.reserved - 1 /\ d.size - k < d.size
    BY <1>1, <1>2
  <2>2. /\ Slot(d.tail, d.reserved, d.size - k) \in 0..d.reserved - 1
        /\ Distance(d.tail, d.reserved, Slot(d.tail, d.reserved, d.size - k)) = d.size - k
    BY <1>1, <2>1, Around
  <2> QED BY <2>1, <2>2 DEF Windowed
<1>3. View(d) \in [1..d.size -> Data]
  BY <1>2 DEF View
<1> QED BY <1>1, <1>3

(* The indices of CBuffer_At go from the head down, as View does.            *)
LEMMA ContentIsView ==
  ASSUME Ring!SizesFit, WellFormed(cb) PROVE Ring!Content = View(cb)
<1> DEFINE r == cb.reserved
           n == cb.size
           t == cb.tail
<1>1. r \in Nat \ {0} /\ n \in 0..r /\ t \in 0..r - 1 /\ cb.head = Slot(t, r, n)
  BY DEF Ring!SizesFit, WellFormed, Shaped
<1>2. ASSUME NEW k \in 1..n
      PROVE  Ring!At(IF k = n THEN -1 ELSE k - 1) = cb.arr[(cb.head + r - 1 - (k - 1)) % r]
  <2>1. CASE k = n
    <3>1. -1 + n = k - 1 /\ ~(k - 1 < 0) /\ ~(k - 1 >= n) /\ -1 < 0
      BY <1>1, <2>1
    <3> QED BY <2>1, <3>1 DEF Ring!At
  <2>2. CASE k # n
    <3>1. ~(k - 1 < 0) /\ ~(k - 1 >= n)
      BY <1>1, <2>2
    <3> QED BY <2>2, <3>1 DEF Ring!At
  <2> QED BY <2>1, <2>2
<1>3. ASSUME NEW k \in 1..n PROVE (cb.head + r - 1 - (k - 1)) % r = Slot(t, r, n - k)
  <2>1. Slot(t, r, n) \in Int
    BY <1>1 DEF Slot, Wrap
  <2>2. cb.head + r - 1 - (k - 1) = Slot(t, r, n) + r - k
    BY <1>1, <2>1
  <2> QED BY <1>1, <2>2, DownFromHead
<1> QED BY <1>2, <1>3 DEF Ring!Content, View

LEMMA AllocatedIsSize ==
  ASSUME Ring!SizesFit, NEW d, WellFormed(d) PROVE Ring!Allocated(d) = d.size
<1> DEFINE S == {i \in DOMAIN d.arr : d.arr[i] # Ring!NULL}
           f == [k \in 1..d.size |-> Slot(d.tail, d.reserved, k - 1)]
<1>1. /\ d.size \in Nat /\ d.reserved \in Nat \ {0} /\ d.tail \in 0..d.reserved - 1
      /\ d.size <= d.reserved
  BY DEF Ring!SizesFit, WellFormed, Shaped
<1>a. S = {i \in 0..d.reserved - 1 : Distance(d.tail, d.reserved, i) < d.size}
  BY DEF WellFormed, Shaped, Windowed
<1>2. ASSUME NEW k \in 1..d.size
      PROVE  f[k] \in S /\ Distance(d.tail, d.reserved, f[k]) = k - 1
  <2>1. k - 1 \in 0..d.reserved - 1 /\ k - 1 < d.size
    BY <1>1, <1>2
  <2>2. /\ f[k] \in 0..d.reserved - 1 /\ Distance(d.tail, d.reserved, f[k]) = k - 1
    BY <1>1, <2>1, Around
  <2> QED BY <1>a, <2>1, <2>2
<1>3. ASSUME NEW i \in S PROVE \E k \in 1..d.size : f[k] = i
  <2>1. i \in 0..d.reserved - 1 /\ Distance(d.tail, d.reserved, i) < d.size
    BY <1>a
  <2>2. /\ Distance(d.tail, d.reserved, i) \in 0..d.reserved - 1
        /\ Slot(d.tail, d.reserved, Distance(d.tail, d.reserved, i)) = i
    BY <1>1, <2>1, Around
  <2>3. /\ Distance(d.tail, d.reserved, i) + 1 \in 1..d.size
        /\ (Distance(d.tail, d.reserved, i) + 1) - 1 = Distance(d.tail, d.reserved, i)
    BY <1>1, <2>1, <2>2
  <2> QED BY <2>2, <2>3
<1>4. f \in Bijection(1..d.size, S)
  <2>1. \A a, b \in 1..d.size : f[a] = f[b] => a = b
    <3> SUFFICES ASSUME NEW a \in 1..d.size, NEW b \in 1..d.size, f[a] = f[b] PROVE a = b
      OBVIOUS
    <3>1. a - 1 = b - 1
      BY <1>2
    <3> QED BY <1>1, <3>1
  <2>2. f \in [1..d.size -> S]
    BY <1>2
  <2> QED BY <1>3, <2>1, <2>2, Fun_IsBij
<1>5. ExistsBijection(1..d.size, S)
  BY <1>4 DEF ExistsBijection
<1>6. Ring!Allocated(d) = Cardinality(S)
  BY DEF Ring!Allocated, Ring!Cardinality, Cardinality
<1> QED BY <1>1, <1>5, <1>6, FS_CountingElements

-----------------------------------------------------------------------------
(* What the operations make of the elements.  A well-formed object as plain  *)
(* numbers:                                                                  *)
LEMMA Numbers ==
  ASSUME Ring!SizesFit, NEW d, WellFormed(d)
  PROVE  /\ d.reserved \in Nat \ {0} /\ d.reserved <= MaxSize /\ MaxSize \in Nat
         /\ d.size \in 0..d.reserved /\ d.tail \in 0..d.reserved - 1
         /\ d.head = Slot(d.tail, d.reserved, d.size)
         /\ d.arr \in [0..d.reserved - 1 -> Data \cup {Ring!NULL}]
         /\ \A i \in 0..d.reserved - 1 :
              d.arr[i] # Ring!NULL <=> Distance(d.tail, d.reserved, i) < d.size
  BY DEF Ring!SizesFit, WellFormed, Shaped, Windowed

LEMMA PushedFrontView ==
  ASSUME Ring!SizesFit, NEW d, WellFormed(d), d.size < d.reserved, NEW x \in Data
  PROVE  LET e == Ring!PushedFront(d, x) IN
         /\ WellFormed(e) /\ e.size = d.size + 1 /\ e.listening = d.listening
         /\ View(e) = <<x>> \o View(d)
<1> DEFINE e == Ring!PushedFront(d, x)
           r == d.reserved
           n == d.size
           t == d.tail
<1>1. /\ e.arr = [d.arr EXCEPT ![d.head] = x] /\ e.head = (d.head + 1) % r /\ e.size = n + 1
      /\ e.tail = t /\ e.reserved = r /\ e.listening = d.listening /\ DOMAIN e = DOMAIN d
  BY DEF Ring!PushedFront, WellFormed, Shaped
<1>2. /\ r \in Nat \ {0} /\ r <= MaxSize /\ MaxSize \in Nat /\ n \in 0..r - 1 /\ t \in 0..r - 1
      /\ d.head = Slot(t, r, n) /\ d.arr \in [0..r - 1 -> Data \cup {Ring!NULL}]
      /\ \A i \in 0..r - 1 : d.arr[i] # Ring!NULL <=> Distance(t, r, i) < n
  BY Numbers
<1>3. DOMAIN d = {"arr", "reserved", "size", "head", "tail", "listening"} /\ Ring!NULL \notin Data
  BY DEF WellFormed, Shaped, Ring!SizesFit
<1>0. r = d.reserved /\ n = d.size /\ t = d.tail
  OBVIOUS
<1> HIDE DEF e, r, n, t
<1>4. (d.head + 1) % r = Slot(t, r, n + 1)
  <2>1. d.head + 1 \in 0..2 * r - 1 /\ Wrap(d.head + 1, r) = Slot(t, r, n + 1)
    BY <1>2 DEF Slot, Wrap
  <2> QED BY <1>2, <2>1, WrapIsMod
<1>a. /\ \A j \in 0..r - 1 : Slot(t, r, j) \in 0..r - 1 /\ Distance(t, r, Slot(t, r, j)) = j
      /\ \A i \in 0..r - 1 : Distance(t, r, i) \in 0..r - 1 /\ Slot(t, r, Distance(t, r, i)) = i
  BY <1>2, Around
<1>5. d.head \in 0..r - 1 /\ Distance(t, r, d.head) = n
  BY <1>2, <1>a
<1>6. Shaped(e)
  BY <1>1, <1>2, <1>3, <1>4, <1>5 DEF Shaped
<1>7. Windowed(e)
  <2>1. ASSUME NEW i \in 0..r - 1, i # d.head PROVE Distance(t, r, i) # n
    BY <1>2, <1>5, <1>a, <2>1
  <2>2. ASSUME NEW i \in 0..r - 1 PROVE e.arr[i] # Ring!NULL <=> Distance(t, r, i) < n + 1
    <3>1. Distance(t, r, i) \in Int
      <4>1. Distance(t, r, i) \in 0..r - 1
        BY <1>a
      <4> QED BY <1>2, <4>1
    <3>2. CASE i = d.head
      BY <1>1, <1>2, <1>3, <1>5, <3>2
    <3>3. CASE i # d.head
      BY <1>1, <1>2, <2>1, <3>1, <3>3
    <3> QED BY <3>2, <3>3
  <2> QED BY <1>1, <2>2 DEF Windowed
<1>8. View(e) = <<x>> \o View(d)
  <2>1. /\ View(d) \in Seq(Data) /\ Len(View(d)) = n
        /\ View(e) \in Seq(Data) /\ Len(View(e)) = n + 1
    BY <1>0, <1>1, <1>6, <1>7, ViewType DEF WellFormed
  <2>2. /\ <<x>> \in Seq(Data) /\ Len(<<x>>) = 1 /\ <<x>>[1] = x
    OBVIOUS
  <2>3. /\ <<x>> \o View(d) \in Seq(Data) /\ Len(<<x>> \o View(d)) = n + 1
        /\ \A k \in 1..n + 1 : (<<x>> \o View(d))[k] = IF k <= 1 THEN x ELSE View(d)[k - 1]
    BY <2>1, <2>2, ConcatProperties
  <2>4. ASSUME NEW k \in 1..n + 1 PROVE View(e)[k] = IF k <= 1 THEN x ELSE View(d)[k - 1]
    <3>1. View(e)[k] = e.arr[Slot(t, r, n + 1 - k)]
      <4>1. k \in 1..e.size
        BY <1>1
      <4>2. View(e)[k] = e.arr[Slot(e.tail, e.reserved, e.size - k)]
        BY <4>1, ViewAt
      <4>3. e.size = n + 1 /\ e.tail = t /\ e.reserved = r
        BY <1>1
      <4> QED BY <1>2, <4>2, <4>3
    <3>2. CASE k <= 1
      <4>1. n + 1 - k = n
        BY <1>2, <3>2
      <4> QED BY <1>1, <1>2, <1>5, <3>1, <3>2, <4>1
    <3>3. CASE ~(k <= 1)
      <4>1. k - 1 \in 1..n /\ n + 1 - k = n - (k - 1) /\ n + 1 - k \in 0..r - 1 /\ n + 1 - k # n
        BY <1>2, <3>3
      <4>2. Slot(t, r, n + 1 - k) \in 0..r - 1 /\ Slot(t, r, n + 1 - k) # d.head
        BY <1>5, <1>a, <4>1
      <4>3. View(d)[k - 1] = d.arr[Slot(t, r, n - (k - 1))]
        BY <1>0, <4>1 DEF View
      <4> QED BY <1>1, <1>2, <3>1, <3>3, <4>1, <4>2, <4>3
    <3> QED BY <3>2, <3>3
  <2> QED BY <2>1, <2>3, <2>4, SeqEqual
<1> QED BY <1>0, <1>1, <1>6, <1>7, <1>8 DEF WellFormed, e

LEMMA BackOne ==
  ASSUME NEW r \in Nat \ {0}, NEW t \in 0..r - 1
  PROVE  LET u == (t + r - 1) % r IN
         /\ u = Slot(t, r, r - 1) /\ u \in 0..r - 1 /\ Slot(u, r, 0) = u
         /\ \A j \in 0..r - 1 : Slot(u, r, j + 1) = Slot(t, r, j)
         /\ \A i \in 0..r - 1 : Distance(u, r, i) = IF i = u THEN 0 ELSE Distance(t, r, i) + 1
<1>1. (t + r - 1) % r = Wrap(t + r - 1, r)
  BY WrapIsMod
<1> QED BY <1>1 DEF Slot, Distance, Wrap

LEMMA PushedBackView ==
  ASSUME Ring!SizesFit, NEW d, WellFormed(d), d.size < d.reserved, NEW x \in Data
  PROVE  LET e == Ring!PushedBack(d, x) IN
         /\ WellFormed(e) /\ e.size = d.size + 1 /\ e.listening = d.listening
         /\ View(e) = View(d) \o <<x>>
<1> DEFINE e == Ring!PushedBack(d, x)
           r == d.reserved
           n == d.size
           t == d.tail
           u == (d.tail + d.reserved - 1) % d.reserved
<1>1. /\ e.arr = [d.arr EXCEPT ![u] = x] /\ e.head = d.head /\ e.size = n + 1
      /\ e.tail = u /\ e.reserved = r /\ e.listening = d.listening /\ DOMAIN e = DOMAIN d
  BY DEF Ring!PushedBack, WellFormed, Shaped
<1>2. /\ r \in Nat \ {0} /\ r <= MaxSize /\ MaxSize \in Nat /\ n \in 0..r - 1 /\ t \in 0..r - 1
      /\ d.head = Slot(t, r, n) /\ d.arr \in [0..r - 1 -> Data \cup {Ring!NULL}]
      /\ \A i \in 0..r - 1 : d.arr[i] # Ring!NULL <=> Distance(t, r, i) < n
  BY Numbers
<1>3. DOMAIN d = {"arr", "reserved", "size", "head", "tail", "listening"} /\ Ring!NULL \notin Data
  BY DEF WellFormed, Shaped, Ring!SizesFit
<1>4. /\ u = Slot(t, r, r - 1) /\ u \in 0..r - 1 /\ Slot(u, r, 0) = u
      /\ \A j \in 0..r - 1 : Slot(u, r, j + 1) = Slot(t, r, j)
      /\ \A i \in 0..r - 1 : Distance(u, r, i) = IF i = u THEN 0 ELSE Distance(t, r, i) + 1
  BY <1>2, BackOne
<1>0. r = d.reserved /\ n = d.size /\ t = d.tail
  OBVIOUS
<1> HIDE DEF e, r, n, t, u
<1>a. /\ \A j \in 0..r - 1 : Slot(t, r, j) \in 0..r - 1 /\ Distance(t, r, Slot(t, r, j)) = j
      /\ \A i \in 0..r - 1 : Distance(t, r, i) \in 0..r - 1 /\ Slot(t, r, Distance(t, r, i)) = i
  BY <1>2, Around
<1>6. Shaped(e)
  <2>1. e.head = Slot(u, r, n + 1)
    BY <1>1, <1>2, <1>4
  <2> QED BY <1>1, <1>2, <1>3, <1>4, <2>1 DEF Shaped
<1>7. Windowed(e)
  <2>2. ASSUME NEW i \in 0..r - 1 PROVE e.arr[i] # Ring!NULL <=> Distance(u, r, i) < n + 1
    <3>1. Distance(t, r, i) \in Int
      BY <1>2, <1>a
    <3>2. CASE i = u
      BY <1>1, <1>2, <1>3, <1>4, <3>2
    <3>3. CASE i # u
      BY <1>1, <1>2, <1>4, <3>1, <3>3
    <3> QED BY <3>2, <3>3
  <2> QED BY <1>1, <2>2 DEF Windowed
<1>8. View(e) = View(d) \o <<x>>
  <2>1. /\ View(d) \in Seq(Data) /\ Len(View(d)) = n
        /\ View(e) \in Seq(Data) /\ Len(View(e)) = n + 1
    BY <1>0, <1>1, <1>6, <1>7, ViewType DEF WellFormed
  <2>2. /\ <<x>> \in Seq(Data) /\ Len(<<x>>) = 1 /\ <<x>>[1] = x
    OBVIOUS
  <2>3. /\ View(d) \o <<x>> \in Seq(Data) /\ Len(View(d) \o <<x>>) = n + 1
        /\ \A k \in 1..n + 1 : (View(d) \o <<x>>)[k] = IF k <= n THEN View(d)[k] ELSE <<x>>[k - n]
    BY <2>1, <2>2, ConcatProperties
  <2>4. ASSUME NEW k \in 1..n + 1
        PROVE  View(e)[k] = IF k <= n THEN View(d)[k] ELSE <<x>>[k - n]
    <3>1. View(e)[k] = e.arr[Slot(u, r, n + 1 - k)]
      <4>1. k \in 1..e.size
        BY <1>1
      <4>2. View(e)[k] = e.arr[Slot(e.tail, e.reserved, e.size - k)]
        BY <4>1, ViewAt
      <4>3. e.size = n + 1 /\ e.tail = u /\ e.reserved = r
        BY <1>1
      <4> QED BY <1>2, <4>2, <4>3
    <3>2. CASE k = n + 1
      <4>1. n + 1 - k = 0 /\ k - n = 1 /\ ~(k <= n)
        BY <1>2, <3>2
      <4> QED BY <1>1, <1>2, <1>4, <2>2, <3>1, <4>1
    <3>3. CASE k # n + 1
      <4>1. k \in 1..n /\ k <= n /\ n + 1 - k = (n - k) + 1 /\ n - k \in 0..r - 1 /\ n - k # r - 1
        BY <1>2, <3>3
      <4>2. /\ Slot(u, r, n + 1 - k) = Slot(t, r, n - k)
            /\ Slot(t, r, n - k) \in 0..r - 1 /\ Slot(t, r, n - k) # u
        <5>1. Slot(u, r, (n - k) + 1) = Slot(t, r, n - k)
          BY <1>4, <4>1
        <5>2. Slot(t, r, n - k) \in 0..r - 1 /\ Distance(t, r, Slot(t, r, n - k)) = n - k
          BY <1>a, <4>1
        <5>3. r - 1 \in 0..r - 1
          BY <1>2
        <5>4. Distance(t, r, u) = r - 1
          BY <1>4, <1>a, <5>3
        <5> QED BY <4>1, <5>1, <5>2, <5>4
      <4>3. View(d)[k] = d.arr[Slot(t, r, n - k)]
        BY <1>0, <4>1, ViewAt
      <4> QED BY <1>1, <1>2, <3>1, <4>1, <4>2, <4>3
    <3> QED BY <3>2, <3>3
  <2> QED BY <2>1, <2>3, <2>4, SeqEqual
<1> QED BY <1>0, <1>1, <1>6, <1>7, <1>8 DEF WellFormed, e

LEMMA PoppedFrontView ==
  ASSUME Ring!SizesFit, NEW d, WellFormed(d), d.size # 0
  PROVE  LET e == Ring!PoppedFront(d) IN
         /\ WellFormed(e) /\ e.size = d.size - 1 /\ e.listening = d.listening
         /\ View(e) = Tail(View(d))
<1> DEFINE e == Ring!PoppedFront(d)
           r == d.reserved
           n == d.size
           t == d.tail
           u == (d.head + d.reserved - 1) % d.reserved
<1>1. /\ e.arr = [d.arr EXCEPT ![u] = Ring!NULL] /\ e.head = u /\ e.size = n - 1
      /\ e.tail = t /\ e.reserved = r /\ e.listening = d.listening /\ DOMAIN e = DOMAIN d
  BY DEF Ring!PoppedFront, WellFormed, Shaped
<1>2. /\ r \in Nat \ {0} /\ r <= MaxSize /\ MaxSize \in Nat /\ n \in 1..r /\ t \in 0..r - 1
      /\ d.head = Slot(t, r, n) /\ d.arr \in [0..r - 1 -> Data \cup {Ring!NULL}]
      /\ \A i \in 0..r - 1 : d.arr[i] # Ring!NULL <=> Distance(t, r, i) < n
  BY Numbers
<1>3. DOMAIN d = {"arr", "reserved", "size", "head", "tail", "listening"}
  BY DEF WellFormed, Shaped
<1>4. u = Slot(t, r, n - 1)
  <2>1. 1 \in 1..n
    BY <1>2
  <2> QED BY <1>2, <2>1, DownFromHead
<1>0. r = d.reserved /\ n = d.size /\ t = d.tail
  OBVIOUS
<1> HIDE DEF e, r, n, t, u
<1>a. /\ \A j \in 0..r - 1 : Slot(t, r, j) \in 0..r - 1 /\ Distance(t, r, Slot(t, r, j)) = j
      /\ \A i \in 0..r - 1 : Distance(t, r, i) \in 0..r - 1 /\ Slot(t, r, Distance(t, r, i)) = i
  BY <1>2, Around
<1>5. u \in 0..r - 1 /\ Distance(t, r, u) = n - 1
  <2>1. n - 1 \in 0..r - 1
    BY <1>2
  <2> QED BY <1>4, <1>a, <2>1
<1>6. Shaped(e)
  BY <1>1, <1>2, <1>3, <1>4, <1>5 DEF Shaped
<1>7. Windowed(e)
  <2>1. ASSUME NEW i \in 0..r - 1, i # u PROVE Distance(t, r, i) # n - 1
    BY <1>4, <1>a, <2>1
  <2>2. ASSUME NEW i \in 0..r - 1 PROVE e.arr[i] # Ring!NULL <=> Distance(t, r, i) < n - 1
    <3>1. Distance(t, r, i) \in Int
      BY <1>2, <1>a
    <3>2. CASE i = u
      BY <1>1, <1>2, <1>5, <3>2
    <3>3. CASE i # u
      BY <1>1, <1>2, <2>1, <3>1, <3>3
    <3> QED BY <3>2, <3>3
  <2> QED BY <1>1, <2>2 DEF Windowed
<1>8. View(e) = Tail(View(d))
  <2>1. /\ View(d) \in Seq(Data) /\ Len(View(d)) = n
        /\ View(e) \in Seq(Data) /\ Len(View(e)) = n - 1
    BY <1>0, <1>1, <1>6, <1>7, ViewType DEF WellFormed
  <2>2. View(d) # <<>>
    BY <1>2, <2>1
  <2>3. /\ Tail(View(d)) \in Seq(Data) /\ Len(Tail(View(d))) = n - 1
        /\ \A k \in 1..n - 1 : Tail(View(d))[k] = View(d)[k + 1]
    BY <2>1, <2>2, HeadTailProperties
  <2>4. ASSUME NEW k \in 1..n - 1 PROVE View(e)[k] = View(d)[k + 1]
    <3>1. View(e)[k] = e.arr[Slot(t, r, n - 1 - k)]
      <4>1. k \in 1..e.size
        BY <1>1
      <4>2. View(e)[k] = e.arr[Slot(e.tail, e.reserved, e.size - k)]
        BY <4>1, ViewAt
      <4>3. e.size = n - 1 /\ e.tail = t /\ e.reserved = r
        BY <1>1
      <4> QED BY <1>2, <4>2, <4>3
    <3>2. /\ k + 1 \in 1..n /\ n - 1 - k = n - (k + 1) /\ n - 1 - k \in 0..r - 1
          /\ n - 1 - k # n - 1
      BY <1>2
    <3>3. Slot(t, r, n - 1 - k) \in 0..r - 1 /\ Slot(t, r, n - 1 - k) # u
      BY <1>5, <1>a, <3>2
    <3>4. View(d)[k + 1] = d.arr[Slot(t, r, n - (k + 1))]
      BY <1>0, <3>2, ViewAt
    <3> QED BY <1>1, <1>2, <3>1, <3>2, <3>3, <3>4
  <2> QED BY <2>1, <2>3, <2>4, SeqEqual
<1> QED BY <1>0, <1>1, <1>6, <1>7, <1>8 DEF WellFormed, e

LEMMA OnOne ==
  ASSUME NEW r \in Nat \ {0}, NEW t \in 0..r - 1
  PROVE  LET u == (t + 1) % r IN
         /\ u \in 0..r - 1 /\ Distance(t, r, t) = 0 /\ Distance(u, r, t) = r - 1
         /\ \A j \in 0..r - 1 : Slot(u, r, j) = Slot(t, r, j + 1)
         /\ \A i \in 0..r - 1 : i # t => Distance(t, r, i) = Distance(u, r, i) + 1
<1>1. (t + 1) % r = Wrap(t + 1, r)
  BY WrapIsMod
<1> QED BY <1>1 DEF Slot, Distance, Wrap

LEMMA PoppedBackView ==
  ASSUME Ring!SizesFit, NEW d, WellFormed(d), d.size # 0
  PROVE  LET e == Ring!PoppedBack(d) IN
         /\ WellFormed(e) /\ e.size = d.size - 1 /\ e.listening = d.listening
         /\ e.reserved = d.reserved
         /\ View(e) = SubSeq(View(d), 1, Len(View(d)) - 1)
<1> DEFINE e == Ring!PoppedBack(d)
           r == d.reserved
           n == d.size
           t == d.tail
           u == (d.tail + 1) % d.reserved
<1>1. /\ e.arr = [d.arr EXCEPT ![t] = Ring!NULL] /\ e.head = d.head /\ e.size = n - 1
      /\ e.tail = u /\ e.reserved = r /\ e.listening = d.listening /\ DOMAIN e = DOMAIN d
  BY DEF Ring!PoppedBack, WellFormed, Shaped
<1>2. /\ r \in Nat \ {0} /\ r <= MaxSize /\ MaxSize \in Nat /\ n \in 1..r /\ t \in 0..r - 1
      /\ d.head = Slot(t, r, n) /\ d.arr \in [0..r - 1 -> Data \cup {Ring!NULL}]
      /\ \A i \in 0..r - 1 : d.arr[i] # Ring!NULL <=> Distance(t, r, i) < n
  BY Numbers
<1>3. DOMAIN d = {"arr", "reserved", "size", "head", "tail", "listening"}
  BY DEF WellFormed, Shaped
<1>4. /\ u \in 0..r - 1 /\ Distance(t, r, t) = 0 /\ Distance(u, r, t) = r - 1
      /\ \A j \in 0..r - 1 : Slot(u, r, j) = Slot(t, r, j + 1)
      /\ \A i \in 0..r - 1 : i # t => Distance(t, r, i) = Distance(u, r, i) + 1
  BY <1>2, OnOne
<1>0. r = d.reserved /\ n = d.size /\ t = d.tail
  OBVIOUS
<1> HIDE DEF e, r, n, t, u
<1>a. /\ \A j \in 0..r - 1 : Slot(t, r, j) \in 0..r - 1 /\ Distance(t, r, Slot(t, r, j)) = j
      /\ \A i \in 0..r - 1 : Distance(t, r, i) \in 0..r - 1 /\ Distance(u, r, i) \in 0..r - 1
  <2>1. r \in Nat \ {0} /\ t \in 0..r - 1 /\ u \in 0..r - 1
    BY <1>2, <1>4
  <2>2. \A i \in 0..r - 1 : Distance(u, r, i) \in 0..r - 1
    BY <2>1, Around
  <2> QED BY <2>1, <2>2, Around
<1>6. Shaped(e)
  <2>1. n - 1 \in 0..r - 1 /\ (n - 1) + 1 = n
    BY <1>2
  <2>2. e.head = Slot(u, r, n - 1)
    BY <1>1, <1>2, <1>4, <2>1
  <2> QED BY <1>1, <1>2, <1>3, <1>4, <2>1, <2>2 DEF Shaped
<1>7. Windowed(e)
  <2>2. ASSUME NEW i \in 0..r - 1 PROVE e.arr[i] # Ring!NULL <=> Distance(u, r, i) < n - 1
    <3>1. Distance(u, r, i) \in Int
      BY <1>2, <1>a
    <3>2. CASE i = t
      BY <1>1, <1>2, <1>4, <3>2
    <3>3. CASE i # t
      BY <1>1, <1>2, <1>4, <3>1, <3>3
    <3> QED BY <3>2, <3>3
  <2> QED BY <1>1, <2>2 DEF Windowed
<1>8. View(e) = SubSeq(View(d), 1, Len(View(d)) - 1)
  <2>1. /\ View(d) \in Seq(Data) /\ Len(View(d)) = n
        /\ View(e) \in Seq(Data) /\ Len(View(e)) = n - 1
    BY <1>0, <1>1, <1>6, <1>7, ViewType DEF WellFormed
  <2> DEFINE s == SubSeq(View(d), 1, Len(View(d)) - 1)
  <2>3. /\ s \in Seq(Data) /\ Len(s) = n - 1
        /\ \A k \in 1..n - 1 : s[k] = View(d)[k]
    <3>1. \A k \in 1..n - 1 : View(d)[k] \in Data
      BY <1>2, <2>1, ElementOfSeq
    <3>2. /\ SubSeq(View(d), 1, n - 1) \in Seq(Data)
          /\ Len(SubSeq(View(d), 1, n - 1)) = IF 1 <= n - 1 THEN n - 1 - 1 + 1 ELSE 0
          /\ \A k \in 1..n - 1 - 1 + 1 : SubSeq(View(d), 1, n - 1)[k] = View(d)[1 + k - 1]
      BY <1>2, <3>1, SubSeqProperties
    <3> QED BY <1>2, <2>1, <3>2
  <2> HIDE DEF s
  <2>4. ASSUME NEW k \in 1..n - 1 PROVE View(e)[k] = View(d)[k]
    <3>1. View(e)[k] = e.arr[Slot(u, r, n - 1 - k)]
      <4>1. k \in 1..e.size
        BY <1>1
      <4>2. View(e)[k] = e.arr[Slot(e.tail, e.reserved, e.size - k)]
        BY <4>1, ViewAt
      <4>3. e.size = n - 1 /\ e.tail = u /\ e.reserved = r
        BY <1>1
      <4> QED BY <1>2, <4>2, <4>3
    <3>2. /\ k \in 1..n /\ (n - 1 - k) + 1 = n - k /\ n - 1 - k \in 0..r - 1
          /\ n - k \in 0..r - 1 /\ n - k # 0
      BY <1>2
    <3>3. Slot(u, r, n - 1 - k) = Slot(t, r, n - k)
      BY <1>4, <3>2
    <3>4. Slot(t, r, n - k) \in 0..r - 1 /\ Slot(t, r, n - k) # t
      BY <1>4, <1>a, <3>2
    <3>5. View(d)[k] = d.arr[Slot(t, r, n - k)]
      BY <1>0, <3>2, ViewAt
    <3> QED BY <1>1, <1>2, <3>1, <3>3, <3>4, <3>5
  <2>5. View(e) = s
    BY <2>1, <2>3, <2>4, SeqEqual
  <2> QED BY <2>5 DEF s
<1> QED BY <1>0, <1>1, <1>6, <1>7, <1>8 DEF WellFormed, e

(* Growing moves the elements to the start of a longer array.                *)
LEMMA NewCapGrows ==
  ASSUME Ring!SizesFit, NEW n \in Nat, n < MaxSize PROVE Ring!NewCap(n) \in n + 1..MaxSize
<1>1. (n * GrowPercent) \div 100 \in Int
  BY DEF Ring!SizesFit
<1> QED BY <1>1 DEF Ring!SizesFit, Ring!NewCap, Ring!Clamp

LEMMA ReallocatedView ==
  ASSUME Ring!SizesFit, NEW d, WellFormed(d), d.reserved < MaxSize
  PROVE  LET e == Ring!Reallocated(d) IN
         /\ WellFormed(e) /\ e.size = d.size /\ e.listening = d.listening
         /\ e.size < e.reserved /\ View(e) = View(d)
<1> DEFINE e == Ring!Reallocated(d)
           r == d.reserved
           n == d.size
           t == d.tail
           m == Ring!NewCap(d.reserved)
<1>1. /\ e.arr = [i \in 0..m - 1 |-> IF i < n THEN d.arr[(t + i) % r] ELSE Ring!NULL]
      /\ e.head = n /\ e.size = n /\ e.tail = 0 /\ e.reserved = m
      /\ e.listening = d.listening /\ DOMAIN e = DOMAIN d
  BY DEF Ring!Reallocated, WellFormed, Shaped
<1>2. /\ r \in Nat \ {0} /\ MaxSize \in Nat /\ n \in 0..r /\ t \in 0..r - 1
      /\ d.arr \in [0..r - 1 -> Data \cup {Ring!NULL}]
      /\ \A i \in 0..r - 1 : d.arr[i] # Ring!NULL <=> Distance(t, r, i) < n
  BY Numbers
<1>3. DOMAIN d = {"arr", "reserved", "size", "head", "tail", "listening"}
  BY DEF WellFormed, Shaped
<1>4. m \in r + 1..MaxSize
  BY <1>2, NewCapGrows
<1>0. r = d.reserved /\ n = d.size /\ t = d.tail
  OBVIOUS
<1> HIDE DEF e, r, n, t, m
<1>a. \A j \in 0..r - 1 : Slot(t, r, j) \in 0..r - 1 /\ Distance(t, r, Slot(t, r, j)) = j
  BY <1>2, Around
<1>b. \A j \in 0..m - 1 : Slot(0, m, j) = j /\ Distance(0, m, j) = j
  BY <1>2, <1>4 DEF Slot, Distance, Wrap
<1>5. ASSUME NEW i \in 0..m - 1
      PROVE  /\ e.arr[i] = IF i < n THEN d.arr[Slot(t, r, i)] ELSE Ring!NULL
             /\ e.arr[i] \in Data \cup {Ring!NULL}
             /\ e.arr[i] # Ring!NULL <=> i < n
  <2>1. CASE i < n
    <3>1. i \in 0..r - 1 /\ t + i \in 0..2 * r - 1
      BY <1>2, <1>4, <2>1
    <3>2. (t + i) % r = Slot(t, r, i)
      BY <1>2, <3>1, WrapIsMod DEF Slot
    <3>3. Slot(t, r, i) \in 0..r - 1 /\ Distance(t, r, Slot(t, r, i)) = i
      BY <1>a, <3>1
    <3>4. e.arr[i] = d.arr[Slot(t, r, i)]
      BY <1>1, <2>1, <3>2
    <3> QED BY <1>2, <2>1, <3>3, <3>4
  <2>2. CASE ~(i < n)
    BY <1>1, <2>2
  <2> QED BY <2>1, <2>2
<1>6. Shaped(e)
  <2>1. n \in 0..m - 1 /\ m \in 1..MaxSize /\ 0 \in 0..m - 1 /\ n \in 0..m
    BY <1>2, <1>4
  <2>2. e.arr \in [0..m - 1 -> Data \cup {Ring!NULL}]
    <3>1. e.arr = [i \in 0..m - 1 |-> e.arr[i]]
      BY <1>1
    <3> QED BY <1>5, <3>1
  <2>3. e.head = Slot(0, m, n)
    BY <1>1, <1>b, <2>1
  <2> QED BY <1>1, <1>3, <2>1, <2>2, <2>3 DEF Shaped
<1>7. Windowed(e)
  BY <1>1, <1>5, <1>b DEF Windowed
<1>8. View(e) = View(d)
  <2>1. /\ View(d) \in Seq(Data) /\ Len(View(d)) = n
        /\ View(e) \in Seq(Data) /\ Len(View(e)) = n
    BY <1>0, <1>1, <1>6, <1>7, ViewType DEF WellFormed
  <2>2. ASSUME NEW k \in 1..n PROVE View(e)[k] = View(d)[k]
    <3>1. View(e)[k] = e.arr[Slot(0, m, n - k)]
      <4>1. k \in 1..e.size
        BY <1>1
      <4>2. View(e)[k] = e.arr[Slot(e.tail, e.reserved, e.size - k)]
        BY <4>1, ViewAt
      <4>3. e.size = n /\ e.tail = 0 /\ e.reserved = m
        BY <1>1
      <4> QED BY <4>2, <4>3
    <3>2. n - k \in 0..m - 1 /\ n - k < n
      BY <1>2, <1>4
    <3>3. e.arr[n - k] = d.arr[Slot(t, r, n - k)] /\ Slot(0, m, n - k) = n - k
      BY <1>5, <1>b, <3>2
    <3>4. View(d)[k] = d.arr[Slot(t, r, n - k)]
      BY <1>0, ViewAt
    <3> QED BY <3>1, <3>3, <3>4
  <2> QED BY <2>1, <2>2, SeqEqual
<1>9. e.size < e.reserved
  BY <1>1, <1>2, <1>4
<1> QED BY <1>0, <1>1, <1>6, <1>7, <1>8, <1>9 DEF WellFormed, e

LEMMA ClearedView ==
  ASSUME Ring!SizesFit, NEW d, WellFormed(d)
  PROVE  LET e == Ring!Cleared(d) IN
         /\ WellFormed(e) /\ e.size = 0 /\ e.listening = d.listening /\ View(e) = <<>>
<1> DEFINE e == Ring!Cleared(d)
           r == d.reserved
           n == d.size
           t == d.tail
           window == {(d.tail + i) % d.reserved : i \in 0..d.size - 1}
<1>1. /\ e.arr = [i \in DOMAIN d.arr |-> IF i \in window THEN Ring!NULL ELSE d.arr[i]]
      /\ e.head = 0 /\ e.size = 0 /\ e.tail = 0 /\ e.reserved = r
      /\ e.listening = d.listening /\ DOMAIN e = DOMAIN d
  BY DEF Ring!Cleared, WellFormed, Shaped
<1>2. /\ r \in Nat \ {0} /\ r <= MaxSize /\ MaxSize \in Nat /\ n \in 0..r /\ t \in 0..r - 1
      /\ d.arr \in [0..r - 1 -> Data \cup {Ring!NULL}]
      /\ \A i \in 0..r - 1 : d.arr[i] # Ring!NULL <=> Distance(t, r, i) < n
  BY Numbers
<1>3. DOMAIN d = {"arr", "reserved", "size", "head", "tail", "listening"}
  BY DEF WellFormed, Shaped
<1>4. ASSUME NEW i \in 0..r - 1 PROVE i \in window \/ d.arr[i] = Ring!NULL
  <2>1. CASE Distance(t, r, i) < n
    <3>1. Distance(t, r, i) \in 0..r - 1 /\ Slot(t, r, Distance(t, r, i)) = i
      BY <1>2, Around
    <3>2. Distance(t, r, i) \in 0..n - 1 /\ t + Distance(t, r, i) \in 0..2 * r - 1
      BY <1>2, <2>1, <3>1
    <3>3. (t + Distance(t, r, i)) % r = i
      BY <1>2, <3>1, <3>2, WrapIsMod DEF Slot
    <3> QED BY <3>2, <3>3
  <2>2. CASE ~(Distance(t, r, i) < n)
    BY <1>2, <2>2
  <2> QED BY <2>1, <2>2
<1> HIDE DEF e, window
<1>5. e.arr = [i \in 0..r - 1 |-> Ring!NULL]
  BY <1>1, <1>2, <1>4
<1>6. Shaped(e)
  <2>1. Slot(0, r, 0) = 0
    BY <1>2 DEF Slot, Wrap
  <2>2. r \in 1..MaxSize /\ 0 \in 0..r - 1 /\ 0 \in 0..r
    BY <1>2
  <2> QED BY <1>1, <1>3, <1>5, <2>1, <2>2 DEF Shaped
<1>7. Windowed(e)
  <2>1. ASSUME NEW i \in 0..r - 1 PROVE ~(Distance(0, r, i) < 0)
    BY <1>2, <2>1 DEF Distance
  <2> QED BY <1>1, <1>5, <2>1 DEF Windowed
<1>8. View(e) = <<>>
  BY <1>1, <1>6, <1>7, ViewType, EmptySeq, SeqEqual DEF WellFormed
<1> QED BY <1>1, <1>6, <1>7, <1>8 DEF WellFormed, e

(* An object just created is empty.                                          *)
LEMMA CreatedView ==
  ASSUME Ring!SizesFit, NEW n \in 1..MaxSize
  PROVE  LET e == [Ring!NoDeque EXCEPT !.arr = [i \in 0..n - 1 |-> Ring!NULL], !.reserved = n] IN
         WellFormed(e) /\ e.size = 0 /\ View(e) = <<>>
<1> DEFINE e == [Ring!NoDeque EXCEPT !.arr = [i \in 0..n - 1 |-> Ring!NULL], !.reserved = n]
<1>1. /\ e.arr = [i \in 0..n - 1 |-> Ring!NULL] /\ e.reserved = n
      /\ e.size = 0 /\ e.head = 0 /\ e.tail = 0
      /\ DOMAIN e = {"arr", "reserved", "size", "head", "tail", "listening"}
  BY DEF Ring!NoDeque
<1> HIDE DEF e
<1>2. n \in Nat \ {0}
  BY DEF Ring!SizesFit
<1>3. Shaped(e)
  <2>1. Slot(0, n, 0) = 0 /\ 0 \in 0..n - 1 /\ 0 \in 0..n
    BY <1>2 DEF Slot, Wrap
  <2> QED BY <1>1, <2>1 DEF Shaped
<1>4. Windowed(e)
  <2>1. ASSUME NEW i \in 0..n - 1 PROVE ~(Distance(0, n, i) < 0)
    BY <1>2, <2>1 DEF Distance
  <2> QED BY <1>1, <2>1 DEF Windowed
<1>5. View(e) = <<>>
  BY <1>1, <1>3, <1>4, ViewType, EmptySeq, SeqEqual DEF WellFormed
<1> QED BY <1>1, <1>3, <1>4, <1>5 DEF WellFormed, e

(* The listener changes nothing of them.                                     *)
LEMMA ListeningView ==
  ASSUME Ring!SizesFit, NEW d, WellFormed(d), NEW b
  PROVE  LET e == [d EXCEPT !.listening = b] IN
         WellFormed(e) /\ e.size = d.size /\ View(e) = View(d)
  BY DEF WellFormed, Shaped, Windowed, View

-----------------------------------------------------------------------------
(* The elements of an object, and of none.                                   *)
Elements(d) == IF d = Ring!NoDeque THEN <<>> ELSE View(d)

LEMMA Created ==
  ASSUME Ring!SizesFit, NEW d, WellFormed(d) PROVE d # Ring!NoDeque /\ Elements(d) = View(d)
  BY DEF WellFormed, Shaped, Ring!NoDeque, Ring!SizesFit, Elements

LEMMA ContentIs == Ring!SizesFit /\ DequeInv => Ring!Content = Elements(cb)
<1> SUFFICES ASSUME Ring!SizesFit, DequeInv PROVE Ring!Content = Elements(cb)
  OBVIOUS
<1>1. CASE cb = Ring!NoDeque
  <2>1. cb.size = 0
    BY <1>1 DEF Ring!NoDeque
  <2>2. Ring!Content \in Seq(Data) /\ Len(Ring!Content) = 0
    BY <2>1 DEF Ring!Content
  <2>3. Ring!Content = <<>>
    BY <2>2, EmptySeq, SeqEqual
  <2> QED BY <1>1, <2>3 DEF Elements
<1>2. CASE WellFormed(cb)
  BY <1>2, ContentIsView, Created
<1> QED BY <1>1, <1>2 DEF DequeInv

LEMMA ContentWillBe == ASSUME Ring!SizesFit PROVE DequeInv' => Ring!Content' = Elements(cb')
<1>1. DequeInv => Ring!Content = Elements(cb)
  BY ContentIs
<1>2. (DequeInv => Ring!Content = Elements(cb))'
  BY <1>1, PTL
<1> QED BY <1>2

(* A call on an object: heap and heard follow its size.                      *)
LEMMA ChangedKeeps ==
  ASSUME Ring!SizesFit, DequeInv, WellFormed(cb), NEW d, WellFormed(d), NEW events,
         heard + events = d.size, Ring!Changed(d, events)
  PROVE  /\ DequeInv' /\ Ring!Content' = View(d)
         /\ heard' = Len(View(d)) /\ heap' = Len(View(d))
<1>1. Ring!Allocated(d) = d.size /\ Ring!Allocated(cb) = cb.size
  BY AllocatedIsSize
<1>2. /\ View(d) \in Seq(Data) /\ Len(View(d)) = d.size /\ d.size \in Nat
      /\ cb.size \in Nat
  BY ViewType
<1>3. cb' = d /\ heard' = d.size /\ heap' = d.size
  BY <1>1, <1>2 DEF Ring!Changed, DequeInv
<1>4. DequeInv'
  BY <1>3 DEF DequeInv
<1>5. Ring!Content' = View(d)
  BY <1>3, <1>4, ContentWillBe, Created
<1> QED BY <1>2, <1>3, <1>4, <1>5

(* There is room after CBuffer_EnsureCapacity, if need be that of the oldest *)
(* element.                                                                  *)
LEMMA EnsuredView ==
  ASSUME Ring!SizesFit, WellFormed(cb), NEW d \in Ring!EnsuredCapacity(cb)
  PROVE  /\ WellFormed(d) /\ d.size < d.reserved /\ d.size < MaxSize /\ d.listening = cb.listening
         /\ \/ d.size = cb.size /\ View(d) = View(cb)
            \/ /\ cb.size # 0 /\ d.size = cb.size - 1
               /\ View(d) = SubSeq(View(cb), 1, Len(View(cb)) - 1)
<1>1. /\ cb.reserved \in Nat \ {0} /\ cb.reserved <= MaxSize /\ MaxSize \in Nat
      /\ cb.size \in 0..cb.reserved
  BY Numbers
<1>2. CASE d = Ring!PoppedBack(cb) /\ cb.size # 0
  BY <1>1, <1>2, PoppedBackView
<1>3. CASE d = Ring!Reallocated(cb) /\ cb.size = cb.reserved /\ cb.size < MaxSize
  <2>1. /\ WellFormed(d) /\ d.size = cb.size /\ d.listening = cb.listening
        /\ d.size < d.reserved /\ View(d) = View(cb)
    BY <1>1, <1>3, ReallocatedView
  <2> QED BY <1>3, <2>1
<1>4. CASE d = cb /\ cb.size # cb.reserved
  BY <1>1, <1>4
<1>5. MaxSize # 0
  BY DEF Ring!SizesFit
<1> QED BY <1>1, <1>2, <1>3, <1>4, <1>5 DEF Ring!EnsuredCapacity

-----------------------------------------------------------------------------
(* The steps of DequeSpec, with the elements before a step as s and after it *)
(* as z.                                                                     *)
KeptOf(s) == {k \in {s, SubSeq(s, 1, Len(s) - 1)} : Len(k) < MaxSize}
PushedOf(s) ==
  {<<x>> \o k : x \in Data, k \in KeptOf(s)} \cup {k \o <<x>> : x \in Data, k \in KeptOf(s)}
Promised(s, z) ==
  IF s = <<>> THEN z \in PushedOf(s) \cup {s}
  ELSE z \in PushedOf(s) \cup KeptOf(s) \cup {Tail(s), SubSeq(s, 1, Len(s) - 1), <<>>}

LEMMA PromisedIsNext ==
  ASSUME Promised(Ring!Content, Ring!Content'),
         heard' = Len(Ring!Content'), heap' = Len(Ring!Content')
  PROVE  Ring!Abstract!Next
<1>1. Ring!Abstract!Kept = KeptOf(Ring!Content)
  BY DEF KeptOf, Ring!Abstract!Kept, Ring!Abstract!Front
<1>2. Ring!Abstract!Pushed = PushedOf(Ring!Content)
  BY <1>1 DEF PushedOf, Ring!Abstract!Pushed
<1>3. CASE Ring!Content = <<>>
  BY <1>2, <1>3 DEF Promised, Ring!Abstract!Next
<1>4. CASE Ring!Content # <<>>
  BY <1>1, <1>2, <1>4 DEF Promised, Ring!Abstract!Next, Ring!Abstract!Push, Ring!Abstract!Pop,
     Ring!Abstract!Clear,
     Ring!Abstract!Front
<1> QED BY <1>3, <1>4

LEMMA EnsuredIsKept ==
  ASSUME Ring!SizesFit, WellFormed(cb), NEW d \in Ring!EnsuredCapacity(cb)
  PROVE  View(d) \in KeptOf(View(cb)) /\ (View(cb) = <<>> => View(d) = View(cb))
<1>1. /\ Len(View(d)) = d.size /\ Len(View(cb)) = cb.size /\ d.size < MaxSize
  BY EnsuredView, ViewType
<1>2. View(cb) = <<>> => cb.size = 0
  BY <1>1
<1> QED BY <1>1, <1>2, EnsuredView DEF KeptOf

LEMMA PushRefines ==
  ASSUME Ring!SizesFit, DequeInv, WellFormed(cb), Ring!PushFront \/ Ring!PushBack
  PROVE  DequeInv' /\ Ring!Abstract!Next
<1>1. PICK x \in Data, d \in Ring!EnsuredCapacity(cb) :
        \/ Ring!Changed(Ring!PushedFront(d, x), 1 - (cb.size - d.size))
        \/ Ring!Changed(Ring!PushedBack(d, x), 1 - (cb.size - d.size))
        \/ Ring!Changed(d, d.size - cb.size)
  BY DEF Ring!PushFront, Ring!PushBack
<1>2. WellFormed(d) /\ d.size < d.reserved
  BY EnsuredView
<1>3. d.size \in Nat /\ cb.size \in Nat /\ heard = cb.size
  BY <1>2, ViewType DEF DequeInv
<1>4. View(d) \in KeptOf(View(cb)) /\ (View(cb) = <<>> => View(d) = View(cb))
  BY EnsuredIsKept
<1>5. Ring!Content = View(cb)
  BY ContentIs, Created
<1>6. CASE Ring!Changed(Ring!PushedFront(d, x), 1 - (cb.size - d.size))
  <2> DEFINE e == Ring!PushedFront(d, x)
  <2>1. WellFormed(e) /\ e.size = d.size + 1 /\ View(e) = <<x>> \o View(d)
    BY <1>2, PushedFrontView
  <2> HIDE DEF e
  <2>2. heard + (1 - (cb.size - d.size)) = e.size
    BY <1>3, <2>1
  <2>3. /\ DequeInv' /\ Ring!Content' = View(e)
        /\ heard' = Len(View(e)) /\ heap' = Len(View(e))
    BY <1>6, <2>1, <2>2, ChangedKeeps DEF e
  <2>4. View(e) \in PushedOf(View(cb))
    BY <1>4, <2>1 DEF PushedOf
  <2>5. Promised(Ring!Content, Ring!Content')
    BY <1>5, <2>3, <2>4 DEF Promised
  <2> QED BY <2>3, <2>5, PromisedIsNext
<1>7. CASE Ring!Changed(Ring!PushedBack(d, x), 1 - (cb.size - d.size))
  <2> DEFINE e == Ring!PushedBack(d, x)
  <2>1. WellFormed(e) /\ e.size = d.size + 1 /\ View(e) = View(d) \o <<x>>
    BY <1>2, PushedBackView
  <2> HIDE DEF e
  <2>2. heard + (1 - (cb.size - d.size)) = e.size
    BY <1>3, <2>1
  <2>3. /\ DequeInv' /\ Ring!Content' = View(e)
        /\ heard' = Len(View(e)) /\ heap' = Len(View(e))
    BY <1>7, <2>1, <2>2, ChangedKeeps DEF e
  <2>4. View(e) \in PushedOf(View(cb))
    BY <1>4, <2>1 DEF PushedOf
  <2>5. Promised(Ring!Content, Ring!Content')
    BY <1>5, <2>3, <2>4 DEF Promised
  <2> QED BY <2>3, <2>5, PromisedIsNext
<1>8. CASE Ring!Changed(d, d.size - cb.size)
  <2>1. heard + (d.size - cb.size) = d.size
    BY <1>3
  <2>2. /\ DequeInv' /\ Ring!Content' = View(d)
        /\ heard' = Len(View(d)) /\ heap' = Len(View(d))
    BY <1>2, <1>8, <2>1, ChangedKeeps
  <2>3. Promised(Ring!Content, Ring!Content')
    BY <1>4, <1>5, <2>2 DEF Promised
  <2> QED BY <2>2, <2>3, PromisedIsNext
<1> QED BY <1>1, <1>6, <1>7, <1>8

(* Pops, clearing and listening: the object d that the call leaves.          *)
LEMMA CallRefines ==
  ASSUME Ring!SizesFit, DequeInv, WellFormed(cb), NEW d, NEW events, Ring!Changed(d, events),
         WellFormed(d), heard + events = d.size,
         \/ View(d) = View(cb)
         \/ View(cb) # <<>> /\ View(d) \in {Tail(View(cb)), SubSeq(View(cb), 1, Len(View(cb)) - 1)}
         \/ View(d) = <<>>
  PROVE  DequeInv' /\ [Ring!Abstract!Next]_<<Ring!Content, heard, heap>>
<1>1. /\ DequeInv' /\ Ring!Content' = View(d)
      /\ heard' = Len(View(d)) /\ heap' = Len(View(d))
  BY ChangedKeeps
<1>2. /\ Ring!Content = View(cb) /\ heard = Len(View(cb)) /\ heap = Len(View(cb))
  BY ContentIs, Created, ViewType DEF DequeInv
<1>3. CASE View(d) = View(cb)
  BY <1>1, <1>2, <1>3
<1>4. CASE View(d) # View(cb)
  <2>1. Promised(Ring!Content, Ring!Content')
    BY <1>1, <1>2, <1>4 DEF Promised
  <2> QED BY <1>1, <2>1, PromisedIsNext
<1> QED BY <1>3, <1>4

LEMMA ObjectRefines ==
  ASSUME Ring!SizesFit, DequeInv, WellFormed(cb),
         Ring!PopFront \/ Ring!PopBack \/ Ring!Clear
               \/ Ring!SetCallback \/ Ring!ClearCallback
  PROVE  DequeInv' /\ [Ring!Abstract!Next]_<<Ring!Content, heard, heap>>
<1>1. cb.size \in Nat /\ heard = cb.size /\ (cb.size # 0 => View(cb) # <<>>)
  BY ViewType DEF DequeInv
<1>2. CASE Ring!PopFront
  <2>1. CASE cb.size = 0
    <3>1. Ring!Changed(cb, 0)
      BY <1>2, <2>1 DEF Ring!PopFront, Ring!PoppedFront
    <3> QED BY <1>1, <3>1, CallRefines
  <2>2. CASE cb.size # 0
    <3>1. Ring!Changed(Ring!PoppedFront(cb), -1) /\ heard + -1 = cb.size - 1
      BY <1>1, <1>2, <2>2 DEF Ring!PopFront
    <3> QED BY <1>1, <2>2, <3>1, PoppedFrontView, CallRefines
  <2> QED BY <2>1, <2>2
<1>3. CASE Ring!PopBack
  <2>1. CASE cb.size = 0
    <3>1. Ring!Changed(cb, 0)
      BY <1>3, <2>1 DEF Ring!PopBack, Ring!PoppedBack
    <3> QED BY <1>1, <3>1, CallRefines
  <2>2. CASE cb.size # 0
    <3>1. Ring!Changed(Ring!PoppedBack(cb), -1) /\ heard + -1 = cb.size - 1
      BY <1>1, <1>3, <2>2 DEF Ring!PopBack
    <3> QED BY <1>1, <2>2, <3>1, PoppedBackView, CallRefines
  <2> QED BY <2>1, <2>2
<1>4. CASE Ring!Clear
  <2>1. Ring!Changed(Ring!Cleared(cb), 0 - cb.size) /\ heard + (0 - cb.size) = 0
    BY <1>1, <1>4 DEF Ring!Clear
  <2> QED BY <2>1, ClearedView, CallRefines
<1>5. CASE Ring!SetCallback
  <2>1. /\ Ring!Changed([cb EXCEPT !.listening = TRUE], cb.size - heard)
        /\ heard + (cb.size - heard) = cb.size
    BY <1>1, <1>5 DEF Ring!SetCallback
  <2> QED BY <2>1, ListeningView, CallRefines
<1>6. CASE Ring!ClearCallback
  <2>1. Ring!Changed([cb EXCEPT !.listening = FALSE], 0) /\ heard + 0 = cb.size
    BY <1>1, <1>6 DEF Ring!ClearCallback
  <2> QED BY <2>1, ListeningView, CallRefines
<1> QED BY <1>2, <1>3, <1>4, <1>5, <1>6

LEMMA NoElements == Ring!NoDeque.size = 0 /\ Elements(Ring!NoDeque) = <<>>
  BY DEF Ring!NoDeque, Elements

LEMMA CreateRefines ==
  ASSUME Ring!SizesFit, DequeInv, Ring!Create
  PROVE  DequeInv' /\ UNCHANGED <<Ring!Content, heard, heap>>
<1>1. cb = Ring!NoDeque /\ heard = 0 /\ heap = 0 /\ heard' = 0 /\ heap' = 0
  BY NoElements DEF Ring!Create, DequeInv
<1>2. cb' = Ring!NoDeque \/ (WellFormed(cb') /\ cb'.size = 0 /\ View(cb') = <<>>)
  <2>1. PICK request \in Requests :
          LET n == Ring!Clamp(IF request = 0 THEN 1 ELSE request, MaxSize) IN
          cb' \in {Ring!NoDeque,
                   [Ring!NoDeque EXCEPT !.arr = [i \in 0..n - 1 |-> Ring!NULL], !.reserved = n]}
    BY DEF Ring!Create
  <2> DEFINE n == Ring!Clamp(IF request = 0 THEN 1 ELSE request, MaxSize)
  <2>2. n \in 1..MaxSize
    BY DEF Ring!SizesFit, Ring!Clamp
  <2> HIDE DEF n
  <2>3. cb' \in {Ring!NoDeque,
                 [Ring!NoDeque EXCEPT !.arr = [i \in 0..n - 1 |-> Ring!NULL], !.reserved = n]}
    BY <2>1 DEF n
  <2> QED BY <2>2, <2>3, CreatedView
<1>3. DequeInv' /\ Elements(cb') = <<>>
  BY <1>1, <1>2, NoElements DEF DequeInv, Elements
<1> QED BY <1>1, <1>3, ContentIs, ContentWillBe, NoElements

LEMMA DestroyRefines ==
  ASSUME Ring!SizesFit, DequeInv, WellFormed(cb), Ring!Destroy
  PROVE  DequeInv' /\ [Ring!Abstract!Next]_<<Ring!Content, heard, heap>>
<1>1. Ring!Allocated(cb) = cb.size /\ Ring!Allocated(Ring!Cleared(cb)) = 0 /\ cb.size \in Nat
  BY AllocatedIsSize, ClearedView, ViewType
<1>2. cb' = Ring!NoDeque /\ heard' = 0 /\ heap' = 0
  BY <1>1 DEF Ring!Destroy, DequeInv
<1>3. DequeInv' /\ Ring!Content' = <<>>
  BY <1>2, NoElements, ContentWillBe DEF DequeInv
<1>4. Promised(Ring!Content, Ring!Content')
  BY <1>3 DEF Promised
<1>5. Ring!Abstract!Next
  BY <1>2, <1>3, <1>4, PromisedIsNext
<1> QED BY <1>3, <1>5

LEMMA NextRefines ==
  ASSUME Ring!SizesFit, DequeInv, [Ring!Next]_Ring!dequeVars
  PROVE  DequeInv' /\ [Ring!Abstract!Next]_<<Ring!Content, heard, heap>>
<1>1. CASE UNCHANGED Ring!dequeVars
  <2>1. DequeInv'
    BY <1>1 DEF Ring!dequeVars, DequeInv
  <2>2. Ring!Content' = Ring!Content
    BY <1>1, <2>1, ContentIs, ContentWillBe DEF Ring!dequeVars
  <2> QED BY <1>1, <2>1, <2>2 DEF Ring!dequeVars
<1>2. CASE Ring!Create
  BY <1>2, CreateRefines
<1>3. CASE cb # Ring!NoDeque /\ (Ring!PushFront \/ Ring!PushBack)
  BY <1>3, PushRefines DEF DequeInv
<1>4. CASE /\ cb # Ring!NoDeque
           /\ (Ring!PopFront \/ Ring!PopBack \/ Ring!Clear
               \/ Ring!SetCallback \/ Ring!ClearCallback)
  BY <1>4, ObjectRefines DEF DequeInv
<1>5. CASE cb # Ring!NoDeque /\ Ring!Destroy
  BY <1>5, DestroyRefines DEF DequeInv
<1> QED BY <1>1, <1>2, <1>3, <1>4, <1>5 DEF Ring!Next

-----------------------------------------------------------------------------
(* The deque is the part that moves, or stays.                               *)
LEMMA DequeSteps == ASSUME [Next]_vars PROVE [Ring!Next]_Ring!dequeVars
<1>1. dequeVars' = dequeVars <=> UNCHANGED Ring!dequeVars
  BY DEF dequeVars, Ring!dequeVars
<1> QED BY <1>1 DEF Next, vars

(* For every limit, growth and requested size, whatever allocations fail,    *)
(* the circular buffer behaves as a sequence of at most MaxSize elements     *)
(* that gives up its oldest for a new one, loses no payload and leaks none,  *)
(* and tells its listener its true size (Deque.c:10, 107).                   *)
THEOREM DequeKeepsItsPromises == Spec => DequeImplements
<1>1. Init => DequeInv
  BY DEF Init, Ring!Init, DequeInv, Ring!NoDeque
<1>2. Init => Ring!Abstract!Init
  <2> SUFFICES ASSUME Init PROVE Ring!Abstract!Init
    OBVIOUS
  <2>1. Ring!Content = <<>>
    BY <1>1, DequeSizesFit, ContentIs, NoElements DEF Init, Ring!Init
  <2> QED BY <2>1 DEF Init, Ring!Init, Ring!Abstract!Init
<1>3. DequeInv /\ [Next]_vars =>
        DequeInv' /\ [Ring!Abstract!Next]_<<Ring!Content, heard, heap>>
  BY DequeSizesFit, DequeSteps, NextRefines
<1> QED BY <1>1, <1>2, <1>3, PTL DEF Spec, DequeImplements, Ring!DequeImplements, Ring!Abstract!Spec

-----------------------------------------------------------------------------

(* Strings.  Induction is over the members of a set of numbers: a set that   *)
(* has 0, and n + 1 with n, has every number, since the order of the numbers *)
(* is well founded.                                                          *)
LEMMA Least ==
  ASSUME NEW T, T \subseteq Nat, T # {}
  PROVE  \E n \in T : \A m \in T : n <= m
<1>1. IsWellFoundedOn(OpToRel(<, Nat), Nat)
  BY NatLessThanWellFounded
<1>2. PICK n \in T : \A m \in T : ~(<<m, n>> \in OpToRel(<, Nat))
  BY <1>1, WFMin
<1>3. \A m \in T : ~(m < n)
  BY <1>2 DEF OpToRel
<1> QED BY <1>3

LEMMA Induction ==
  ASSUME NEW S, 0 \in S, \A n \in Nat : n \in S => n + 1 \in S
  PROVE  Nat \subseteq S
<1> DEFINE T == Nat \ S
<1>1. SUFFICES ASSUME T # {} PROVE FALSE
  OBVIOUS
<1>2. PICK n \in T : \A m \in T : n <= m
  BY <1>1, Least
<1>3. n - 1 \in Nat /\ n - 1 \notin T
  BY <1>2
<1> QED BY <1>2, <1>3

(* A function whose value at i is made from its value at an earlier place.   *)
Earlier(prev, n) == prev \in [1..n -> Nat] /\ \A i \in 1..n : prev[i] < i
Steps(f, n, V, a, prev, G) ==
  f \in [0..n -> V] /\ f[0] = a /\ \A i \in 1..n : f[i] = G[<<i, f[prev[i]]>>]

LEMMA Recursion ==
  ASSUME NEW n \in Nat, NEW V, NEW a \in V, NEW prev, Earlier(prev, n), NEW G \in [(1..n) \X V -> V]
  PROVE  \E f : Steps(f, n, V, a, prev, G)
<1>0. prev \in [1..n -> Nat] /\ \A i \in 1..n : prev[i] < i
  BY DEF Earlier
<1> DEFINE Good(f, k) == f[0] = a /\ \A i \in 1..k : f[i] = G[<<i, f[prev[i]]>>]
           S == {k \in Nat : k <= n => \E f \in [0..k -> V] : Good(f, k)}
<1>1. 0 \in S
  <2>1. [i \in 0..0 |-> a] \in [0..0 -> V] /\ Good([i \in 0..0 |-> a], 0)
    OBVIOUS
  <2> QED BY <2>1
<1>2. ASSUME NEW k \in Nat, k \in S PROVE k + 1 \in S
  <2>1. SUFFICES ASSUME k + 1 <= n PROVE \E f \in [0..k + 1 -> V] : Good(f, k + 1)
    OBVIOUS
  <2>2. PICK f \in [0..k -> V] : Good(f, k)
    BY <1>2, <2>1
  <2> DEFINE g == [i \in 0..k + 1 |-> IF i <= k THEN f[i] ELSE G[<<k + 1, f[prev[k + 1]]>>]]
  <2>3. k + 1 \in 1..n /\ prev[k + 1] \in 0..k
    BY <1>0, <2>1
  <2>4. G[<<k + 1, f[prev[k + 1]]>>] \in V
    BY <2>2, <2>3
  <2>5. g \in [0..k + 1 -> V]
    BY <2>2, <2>4
  <2>6. ASSUME NEW i \in 1..k + 1 PROVE g[i] = G[<<i, g[prev[i]]>>]
    <3>1. i \in 1..n /\ prev[i] \in 0..k /\ prev[i] < i
      BY <1>0, <2>1
    <3>2. g[prev[i]] = f[prev[i]]
      BY <3>1
    <3>3. CASE i <= k
      <4>1. i \in 1..k /\ g[i] = f[i]
        BY <3>1, <3>3
      <4>2. f[i] = G[<<i, f[prev[i]]>>]
        BY <2>2, <4>1
      <4> HIDE DEF g
      <4> QED BY <3>2, <4>1, <4>2
    <3>4. CASE i = k + 1
      <4>1. g[i] = G[<<k + 1, f[prev[k + 1]]>>]
        BY <3>4
      <4> HIDE DEF g
      <4> QED BY <3>2, <3>4, <4>1
    <3>5. i <= k \/ i = k + 1
      OBVIOUS
    <3> HIDE DEF g
    <3> QED BY <3>3, <3>4, <3>5
  <2>7. g[0] = a
    BY <2>2
  <2> QED BY <2>5, <2>6, <2>7
<1>3. n \in S
  <2> HIDE DEF S
  <2> QED BY <1>1, <1>2, Induction
<1>4. \E f \in [0..n -> V] : Good(f, n)
  BY <1>3
<1> QED BY <1>4 DEF Steps
-----------------------------------------------------------------------------
(* What Take keeps of a text.                                                *)
Lesser(x, y) == IF x < y THEN x ELSE y

LEMMA TakeIs ==
  ASSUME NEW s \in Seq(Int), NEW n \in Nat
  PROVE  LET front == Str!Take(s, n) IN
         /\ front \in Seq(Int) /\ Len(front) = Lesser(n, Len(s))
         /\ \A i \in 1..Lesser(n, Len(s)) : front[i] = s[i]
<1>1. PICK m \in Nat : m = Lesser(n, Len(s)) /\ m <= Len(s)
  BY LenProperties DEF Lesser
<1>2. Str!Take(s, n) = SubSeq(s, 1, m)
  BY <1>1 DEF Str!Take, Lesser
<1>3. \A i \in 1..m : s[i] \in Int /\ 1 + i - 1 = i
  BY <1>1, ElementOfSeq
<1>4. (IF 1 <= m THEN m - 1 + 1 ELSE 0) = m /\ m - 1 + 1 = m
  BY <1>1
<1>5. PICK front : front = SubSeq(s, 1, m)
  OBVIOUS
<1>6. front \in Seq(Int) /\ Len(front) = m /\ \A i \in 1..m : front[i] = s[i]
  BY <1>3, <1>4, <1>5, SubSeqProperties
<1> QED BY <1>1, <1>2, <1>5, <1>6

LEMMA TakeAll ==
  ASSUME NEW T, NEW s \in Seq(T), NEW n \in Nat, Len(s) <= n
  PROVE  Str!Take(s, n) = s
<1>1. Str!Take(s, n) = SubSeq(s, 1, Len(s))
  BY LenProperties DEF Str!Take
<1> QED BY <1>1, SubSeqFull

LEMMA TakeTwice ==
  ASSUME NEW s \in Seq(Int), NEW m \in Nat, NEW n \in Nat
  PROVE  Str!Take(Str!Take(s, m), n) = Str!Take(s, Lesser(m, n))
<1>1. PICK a \in Seq(Int) :
        a = Str!Take(s, m) /\ Len(a) = Lesser(m, Len(s)) /\ \A i \in 1..Lesser(m, Len(s)) : a[i] = s[i]
  BY TakeIs
<1>2. PICK b \in Seq(Int) :
        b = Str!Take(a, n) /\ Len(b) = Lesser(n, Len(a)) /\ \A i \in 1..Lesser(n, Len(a)) : b[i] = a[i]
  BY TakeIs
<1>3. PICK k \in Nat : k = Lesser(m, n)
  BY DEF Lesser
<1>4. PICK c \in Seq(Int) :
        c = Str!Take(s, k) /\ Len(c) = Lesser(k, Len(s)) /\ \A i \in 1..Lesser(k, Len(s)) : c[i] = s[i]
  BY TakeIs
<1>5. Len(b) = Len(c)
  BY <1>1, <1>2, <1>3, <1>4, LenProperties DEF Lesser
<1>6. \A i \in 1..Len(b) : i \in 1..Lesser(n, Len(a)) /\ i \in 1..Lesser(m, Len(s)) /\ i \in 1..Lesser(k, Len(s))
  BY <1>1, <1>2, <1>3, <1>4, LenProperties DEF Lesser
<1>7. \A i \in 1..Len(b) : b[i] = c[i]
  BY <1>1, <1>2, <1>4, <1>6
<1>8. b = c
  BY <1>5, <1>7, SeqEqual
<1> QED BY <1>1, <1>2, <1>3, <1>4, <1>8

LEMMA TakenLengths ==
  ASSUME NEW n \in Nat, NEW s \in Nat, NEW t \in Nat
  PROVE  LET a == Lesser(n, s)  k == n - a  b == Lesser(k, t) IN
         /\ k \in Nat /\ Lesser(n, s + t) = a + b
         /\ a <= s /\ b <= t /\ (a < s => b = 0)
BY DEF Lesser

LEMMA ConcatIs ==
  ASSUME NEW s \in Seq(Int), NEW t \in Seq(Int)
  PROVE  /\ s \o t \in Seq(Int) /\ Len(s \o t) = Len(s) + Len(t)
         /\ \A i \in 1..Len(s) + Len(t) : (s \o t)[i] = IF i <= Len(s) THEN s[i] ELSE t[i - Len(s)]
BY ConcatProperties

(* What is taken of a concatenation.                                         *)
LEMMA TakeConcat ==
  ASSUME NEW s \in Seq(Int), NEW t \in Seq(Int), NEW n \in Nat
  PROVE  Str!Take(s \o t, n) = Str!Take(s, n) \o Str!Take(t, n - Len(Str!Take(s, n)))
<1>1. PICK a \in Seq(Int) :
        a = Str!Take(s, n) /\ Len(a) = Lesser(n, Len(s)) /\ \A i \in 1..Lesser(n, Len(s)) : a[i] = s[i]
  BY TakeIs
<1>2. PICK k \in Nat : k = n - Len(a)
  <2>1. PICK l \in Nat : l = Len(s)
    BY LenProperties
  <2>2. n - Lesser(n, l) \in Nat
    BY DEF Lesser
  <2> QED BY <1>1, <2>1, <2>2
<1>3. PICK b \in Seq(Int) :
        b = Str!Take(t, k) /\ Len(b) = Lesser(k, Len(t)) /\ \A i \in 1..Lesser(k, Len(t)) : b[i] = t[i]
  BY TakeIs
<1>4. PICK st \in Seq(Int) :
        /\ st = s \o t /\ Len(st) = Len(s) + Len(t)
        /\ \A i \in 1..Len(s) + Len(t) : st[i] = IF i <= Len(s) THEN s[i] ELSE t[i - Len(s)]
  BY ConcatIs
<1>5. PICK left \in Seq(Int) :
        /\ left = Str!Take(st, n) /\ Len(left) = Lesser(n, Len(st))
        /\ \A i \in 1..Lesser(n, Len(st)) : left[i] = st[i]
  BY TakeIs
<1>6. PICK right \in Seq(Int) :
        /\ right = a \o b /\ Len(right) = Len(a) + Len(b)
        /\ \A i \in 1..Len(a) + Len(b) : right[i] = IF i <= Len(a) THEN a[i] ELSE b[i - Len(a)]
  BY ConcatIs
<1>l. /\ Len(a) = Lesser(n, Len(s)) /\ k = n - Len(a) /\ Len(b) = Lesser(k, Len(t))
      /\ Len(st) = Len(s) + Len(t) /\ Len(left) = Lesser(n, Len(st)) /\ Len(right) = Len(a) + Len(b)
      /\ Len(s) \in Nat /\ Len(t) \in Nat
  BY <1>1, <1>2, <1>3, <1>4, <1>5, <1>6, LenProperties
<1>7. /\ Len(left) = Len(right) /\ Len(a) <= Len(s) /\ Len(b) <= Len(t) /\ (Len(a) < Len(s) => Len(b) = 0)
      /\ Len(a) \in Nat /\ Len(b) \in Nat /\ Len(s) \in Nat /\ Len(t) \in Nat
      /\ Lesser(n, Len(st)) = Len(left) /\ Lesser(n, Len(s)) = Len(a) /\ Lesser(k, Len(t)) = Len(b)
      /\ Len(left) = Len(a) + Len(b)
  BY <1>l, TakenLengths, LenProperties
<1>8. ASSUME NEW i \in 1..Len(left) PROVE left[i] = right[i]
  <2>0. /\ left[i] = IF i <= Len(s) THEN s[i] ELSE t[i - Len(s)]
        /\ right[i] = IF i <= Len(a) THEN a[i] ELSE b[i - Len(a)]
    <3>1. i \in 1..Len(left) /\ i \in 1..Len(s) + Len(t) /\ i \in 1..Len(a) + Len(b)
      BY <1>7
    <3> QED BY <1>4, <1>5, <1>6, <1>7, <3>1
  <2>1. CASE i <= Len(a)
    <3>1. i <= Len(s) /\ i \in 1..Len(a)
      BY <2>1, <1>7
    <3>2. s[i] = a[i]
      <4>1. i \in 1..Lesser(n, Len(s))
        BY <1>7, <3>1
      <4> QED BY <1>1, <4>1
    <3>3. left[i] = s[i] /\ right[i] = a[i]
      BY <2>0, <2>1, <3>1
    <3> QED BY <3>2, <3>3
  <2>2. CASE ~(i <= Len(a))
    <3>1. Len(a) = Len(s) /\ i - Len(a) \in 1..Len(b) /\ ~(i <= Len(s))
      BY <2>2, <1>7
    <3>2. t[i - Len(a)] = b[i - Len(a)]
      <4>1. i - Len(a) \in 1..Lesser(k, Len(t))
        BY <1>7, <3>1
      <4> QED BY <1>3, <4>1
    <3>3. left[i] = t[i - Len(a)] /\ right[i] = b[i - Len(a)]
      BY <2>0, <2>2, <3>1
    <3> QED BY <3>2, <3>3
  <2> QED BY <2>1, <2>2
<1>9. left = right
  BY <1>7, <1>8, SeqEqual
<1> QED BY <1>1, <1>2, <1>3, <1>4, <1>5, <1>6, <1>9

-----------------------------------------------------------------------------
(* The extreme numbers as they are printed: digits, perhaps after a minus.   *)
Digits(x) ==
  \A k \in 1..Len(x) : x[k] \in 0..9 \/ (k = 1 /\ x[k] = Str!Minus /\ Len(x) > 1)

Fits(x, factor) == x \in Seq(Int) /\ Len(x) > 0 /\ Digits(x) /\ Len(x) + 2 <= factor

LEMMA NumbersAre ==
  ASSUME NEW kind \in DOMAIN Str!Kinds, NEW x \in Str!Kinds[kind].numbers
  PROVE  Str!Kinds[kind].factor \in Nat /\ Fits(x, Str!Kinds[kind].factor)
<1> DEFINE Row == Str!Kinds[kind]
<1>1. CASE kind \in DOMAIN Str!Unsigned
  <2>1. Row = Str!Unsigned[kind]
    BY <1>1 DEF Str!Kinds
  <2>2. kind \in {"Uint8", "Uint16", "Uint32", "Uint64"}
    BY <1>1 DEF Str!Unsigned
  <2>3. CASE kind = "Uint8"
    <3>1. Row.numbers = {<<0>>, <<2, 5, 5>>} /\ Row.factor = 6
      BY <2>1, <2>3 DEF Str!Unsigned
    <3>2. Fits(<<0>>, 6)
      BY DEF Fits, Digits, Str!Minus
    <3>3. Fits(<<2, 5, 5>>, 6)
      BY DEF Fits, Digits, Str!Minus
    <3> QED BY <3>1, <3>2, <3>3
  <2>4. CASE kind = "Uint16"
    <3>1. Row.numbers = {<<0>>, <<6, 5, 5, 3, 5>>} /\ Row.factor = 8
      BY <2>1, <2>4 DEF Str!Unsigned
    <3>2. Fits(<<0>>, 8)
      BY DEF Fits, Digits, Str!Minus
    <3>3. Fits(<<6, 5, 5, 3, 5>>, 8)
      BY DEF Fits, Digits, Str!Minus
    <3> QED BY <3>1, <3>2, <3>3
  <2>5. CASE kind = "Uint32"
    <3>1. Row.numbers = {<<0>>, <<4, 2, 9, 4, 9, 6, 7, 2, 9, 5>>} /\ Row.factor = 13
      BY <2>1, <2>5 DEF Str!Unsigned
    <3>2. Fits(<<0>>, 13)
      BY DEF Fits, Digits, Str!Minus
    <3>3. Fits(<<4, 2, 9, 4, 9, 6, 7, 2, 9, 5>>, 13)
      BY DEF Fits, Digits, Str!Minus
    <3> QED BY <3>1, <3>2, <3>3
  <2>6. CASE kind = "Uint64"
    <3>1. Row.numbers = {<<0>>, <<1, 8, 4, 4, 6, 7, 4, 4, 0, 7, 3, 7, 0, 9, 5, 5, 1, 6, 1, 5>>} /\ Row.factor = 23
      BY <2>1, <2>6 DEF Str!Unsigned
    <3>2. Fits(<<0>>, 23)
      BY DEF Fits, Digits, Str!Minus
    <3>3. Fits(<<1, 8, 4, 4, 6, 7, 4, 4, 0, 7, 3, 7, 0, 9, 5, 5, 1, 6, 1, 5>>, 23)
      BY DEF Fits, Digits, Str!Minus
    <3> QED BY <3>1, <3>2, <3>3
  <2> QED BY <2>2, <2>3, <2>4, <2>5, <2>6
<1>2. CASE kind \in DOMAIN Str!Signed
  <2>1. Row = Str!Signed[kind]
    BY <1>2 DEF Str!Kinds, Str!Unsigned, Str!Signed
  <2>2. kind \in {"SInt8", "SInt16", "SInt32", "SInt64"}
    BY <1>2 DEF Str!Signed
  <2>3. CASE kind = "SInt8"
    <3>1. Row.numbers = {<<1, 2, 7>>, <<Str!Minus, 1, 2, 8>>} /\ Row.factor = 7
      BY <2>1, <2>3 DEF Str!Signed
    <3>2. Fits(<<1, 2, 7>>, 7)
      BY DEF Fits, Digits, Str!Minus
    <3>3. Fits(<<Str!Minus, 1, 2, 8>>, 7)
      BY DEF Fits, Digits, Str!Minus
    <3> QED BY <3>1, <3>2, <3>3
  <2>4. CASE kind = "SInt16"
    <3>1. Row.numbers = {<<3, 2, 7, 6, 7>>, <<Str!Minus, 3, 2, 7, 6, 8>>} /\ Row.factor = 9
      BY <2>1, <2>4 DEF Str!Signed
    <3>2. Fits(<<3, 2, 7, 6, 7>>, 9)
      BY DEF Fits, Digits, Str!Minus
    <3>3. Fits(<<Str!Minus, 3, 2, 7, 6, 8>>, 9)
      BY DEF Fits, Digits, Str!Minus
    <3> QED BY <3>1, <3>2, <3>3
  <2>5. CASE kind = "SInt32"
    <3>1. Row.numbers = {<<0>>, <<Str!Minus, 2, 1, 4, 7, 4, 8, 3, 6, 4, 8>>} /\ Row.factor = 14
      BY <2>1, <2>5 DEF Str!Signed
    <3>2. Fits(<<0>>, 14)
      BY DEF Fits, Digits, Str!Minus
    <3>3. Fits(<<Str!Minus, 2, 1, 4, 7, 4, 8, 3, 6, 4, 8>>, 14)
      BY DEF Fits, Digits, Str!Minus
    <3> QED BY <3>1, <3>2, <3>3
  <2>6. CASE kind = "SInt64"
    <3>1. Row.numbers = {<<0>>, <<Str!Minus, 9, 2, 2, 3, 3, 7, 2, 0, 3, 6, 8, 5, 4, 7, 7, 5, 8, 0, 8>>} /\ Row.factor = 24
      BY <2>1, <2>6 DEF Str!Signed
    <3>2. Fits(<<0>>, 24)
      BY DEF Fits, Digits, Str!Minus
    <3>3. Fits(<<Str!Minus, 9, 2, 2, 3, 3, 7, 2, 0, 3, 6, 8, 5, 4, 7, 7, 5, 8, 0, 8>>, 24)
      BY DEF Fits, Digits, Str!Minus
    <3> QED BY <3>1, <3>2, <3>3
  <2> QED BY <2>2, <2>3, <2>4, <2>5, <2>6
<1> QED BY <1>1, <1>2 DEF Str!Kinds

LEMMA FunctionIsSequence ==
  ASSUME NEW n \in Nat, NEW T, NEW f \in [1..n -> T]
  PROVE  f \in Seq(T) /\ Len(f) = n
OBVIOUS

(* An array as it is printed, and how far it has been printed after i items. *)
PrintedSteps(a, n, J) ==
  /\ J[0] = <<>>
  /\ \A i \in 1..n : J[i] = J[i - 1] \o Str!Printed(a, i)

Shows(p, a, n, i) ==
  /\ Len(p) = Len(a[i]) + (IF i = n THEN 0 ELSE 2)
  /\ \A k \in 1..Len(a[i]) : p[k] = a[i][k]
  /\ i # n => p[Len(a[i]) + 1] = Str!Comma /\ p[Len(a[i]) + 2] = Str!Space

LEMMA PrintedIs ==
  ASSUME NEW n \in Nat, NEW a \in [1..n -> Seq(Int)], NEW i \in 1..n
  PROVE  Str!Printed(a, i) \in Seq(Int) /\ Shows(Str!Printed(a, i), a, n, i)
<1>1. Len(a) = n /\ a[i] \in Seq(Int)
  BY FunctionIsSequence
<1>2. PICK x \in Seq(Int) : x = a[i] /\ Len(x) \in Nat
  BY <1>1, LenProperties
<1>3. CASE i = n
  <2>1. PICK p \in Seq(Int) : p = x \o <<>> /\ p = x
    BY ConcatEmptySeq
  <2>2. Str!Printed(a, i) = p
    BY <1>1, <1>2, <1>3, <2>1 DEF Str!Printed
  <2> QED BY <1>2, <1>3, <2>1, <2>2 DEF Shows
<1>4. CASE i # n
  <2>a. PICK comma, space \in Int : comma = Str!Comma /\ space = Str!Space
    BY DEF Str!Comma, Str!Space
  <2>b. /\ <<comma, space>> \in Seq(Int) /\ Len(<<comma, space>>) = 2
        /\ <<comma, space>>[1] = comma /\ <<comma, space>>[2] = space
    OBVIOUS
  <2>1. PICK t \in Seq(Int) : t = <<Str!Comma, Str!Space>> /\ Len(t) = 2 /\ t[1] = Str!Comma /\ t[2] = Str!Space
    BY <2>a, <2>b
  <2>2. PICK p \in Seq(Int) :
          /\ p = x \o t /\ Len(p) = Len(x) + Len(t)
          /\ \A k \in 1..Len(x) + Len(t) : p[k] = IF k <= Len(x) THEN x[k] ELSE t[k - Len(x)]
    BY ConcatIs
  <2>3. Str!Printed(a, i) = p
    BY <1>1, <1>2, <1>4, <2>1, <2>2 DEF Str!Printed
  <2>4. \A k \in 1..Len(x) : p[k] = x[k]
    BY <1>2, <2>1, <2>2
  <2>5. p[Len(x) + 1] = t[1] /\ p[Len(x) + 2] = t[2]
    <3>1. /\ Len(x) + 1 \in 1..Len(x) + Len(t) /\ ~(Len(x) + 1 <= Len(x)) /\ Len(x) + 1 - Len(x) = 1
          /\ Len(x) + 2 \in 1..Len(x) + Len(t) /\ ~(Len(x) + 2 <= Len(x)) /\ Len(x) + 2 - Len(x) = 2
      BY <1>2, <2>1
    <3> QED BY <2>2, <3>1
  <2> QED BY <1>2, <1>4, <2>1, <2>2, <2>3, <2>4, <2>5 DEF Shows
<1> QED BY <1>3, <1>4

LEMMA JoinedIs ==
  ASSUME NEW n \in Nat, NEW a \in [1..n -> Seq(Int)]
  PROVE  \E J \in [0..n -> Seq(Int)] : PrintedSteps(a, n, J) /\ Str!Joined(a) = J[n]
<1> DEFINE Step(f) == [i \in 0..Len(a) |-> IF i = 0 THEN <<>> ELSE f[i - 1] \o Str!Printed(a, i)]
           result == CHOOSE f : f = Step(f)
<1>1. Len(a) = n /\ \A i \in 1..n : Str!Printed(a, i) \in Seq(Int)
  BY FunctionIsSequence, PrintedIs
<1>2. \E f : f = Step(f)
  <2> DEFINE G == [q \in (1..n) \X Seq(Int) |-> q[2] \o Str!Printed(a, q[1])]
             prev == [i \in 1..n |-> i - 1]
             V == Seq(Int)
             none == <<>>
  <2>1. G \in [(1..n) \X V -> V]
    BY <1>1, ConcatIs
  <2>2. Earlier(prev, n)
    BY DEF Earlier
  <2>3. none \in V
    OBVIOUS
  <2> HIDE DEF G, prev, V, none
  <2>a. PICK f : Steps(f, n, V, none, prev, G)
    BY <2>1, <2>2, <2>3, Recursion
  <2>4. f \in [0..n -> V] /\ f[0] = none /\ \A i \in 1..n : f[i] = G[<<i, f[prev[i]]>>]
    BY <2>a DEF Steps
  <2>5. ASSUME NEW i \in 1..n PROVE f[i] = f[i - 1] \o Str!Printed(a, i)
    <3>1. prev[i] = i - 1 /\ f[i - 1] \in Seq(Int)
      <4>1. prev[i] = i - 1
        BY DEF prev
      <4>2. i - 1 \in 0..n
        OBVIOUS
      <4> QED BY <2>4, <4>1, <4>2 DEF V
    <3>2. G[<<i, f[i - 1]>>] = f[i - 1] \o Str!Printed(a, i)
      BY <3>1 DEF G
    <3> QED BY <2>4, <3>1, <3>2
  <2>6. f = Step(f)
    <3>1. ASSUME NEW i \in 0..n PROVE f[i] = IF i = 0 THEN <<>> ELSE f[i - 1] \o Str!Printed(a, i)
      <4>1. CASE i = 0
        BY <2>4, <4>1 DEF none
      <4>2. CASE i # 0
        <5>1. i \in 1..n
          BY <4>2
        <5> QED BY <2>5, <4>2, <5>1
      <4> QED BY <4>1, <4>2
    <3>2. f = [i \in 0..n |-> IF i = 0 THEN <<>> ELSE f[i - 1] \o Str!Printed(a, i)]
      BY <2>4, <3>1
    <3> QED BY <1>1, <3>2
  <2> QED BY <2>6
<1>3. result = Step(result)
  BY <1>2
<1>4. Str!Joined(a) = result[n]
  BY <1>1 DEF Str!Joined
<1> HIDE DEF result
<1>5. result[0] = <<>> /\ \A i \in 1..n : result[i] = result[i - 1] \o Str!Printed(a, i)
  <2>1. /\ Step(result)[0] = <<>>
        /\ \A i \in 1..n : Step(result)[i] = result[i - 1] \o Str!Printed(a, i)
    BY <1>1
  <2> HIDE DEF Step
  <2> QED BY <1>3, <2>1
<1>6. \A i \in 1..n : result[i - 1] \in Seq(Int) => result[i] \in Seq(Int)
  BY <1>1, <1>5, ConcatIs
<1>7. \A i \in 0..n : result[i] \in Seq(Int)
  <2> DEFINE S == {i \in Nat : i <= n => result[i] \in Seq(Int)}
  <2>1. 0 \in S
    BY <1>5, EmptySeq
  <2>2. \A i \in Nat : i \in S => i + 1 \in S
    <3>1. \A i \in Nat : i + 1 - 1 = i
      OBVIOUS
    <3> QED BY <1>6, <3>1
  <2>3. Nat \subseteq S
    <3> HIDE DEF S
    <3> QED BY <2>1, <2>2, Induction
  <2> QED BY <2>3
<1>9. result \in [0..n -> Seq(Int)]
  <2>1. DOMAIN Step(result) = 0..n /\ Step(result) = [i \in 0..n |-> Step(result)[i]]
    BY <1>1
  <2> HIDE DEF Step
  <2>2. DOMAIN result = 0..n /\ result = [i \in 0..n |-> result[i]]
    BY <1>3, <2>1
  <2> QED BY <1>7, <2>2
<1> QED BY <1>4, <1>5, <1>9 DEF PrintedSteps

(* What has been printed stays in front of what follows.                     *)
LEMMA StepsGrow ==
  ASSUME NEW n \in Nat, NEW a \in [1..n -> Seq(Int)], NEW J \in [0..n -> Seq(Int)], PrintedSteps(a, n, J),
         NEW m \in 0..n, NEW i \in 0..m
  PROVE  Len(J[i]) <= Len(J[m]) /\ \A k \in 1..Len(J[i]) : J[m][k] = J[i][k]
<1> DEFINE Front(s, t) == Len(s) <= Len(t) /\ \A k \in 1..Len(s) : t[k] = s[k]
           S == {p \in Nat : i + p <= n => Front(J[i], J[i + p])}
<1>1. 0 \in S
  BY LenProperties
<1>2. ASSUME NEW p \in Nat, p \in S PROVE p + 1 \in S
  <2>1. SUFFICES ASSUME i + (p + 1) <= n PROVE Front(J[i], J[i + (p + 1)])
    OBVIOUS
  <2>2. PICK q \in 1..n : q = i + (p + 1) /\ q - 1 = i + p /\ q - 1 \in 0..n
    BY <2>1
  <2>3. Front(J[i], J[q - 1])
    BY <1>2, <2>1, <2>2
  <2>a. Str!Printed(a, q) \in Seq(Int)
    BY PrintedIs
  <2>b. J[i] \in Seq(Int) /\ J[q - 1] \in Seq(Int)
    BY <2>2
  <2>4. PICK s, t, u \in Seq(Int) : s = J[i] /\ t = J[q - 1] /\ u = Str!Printed(a, q)
    BY <2>a, <2>b
  <2>5. PICK v \in Seq(Int) :
          /\ v = t \o u /\ Len(v) = Len(t) + Len(u)
          /\ \A k \in 1..Len(t) + Len(u) : v[k] = IF k <= Len(t) THEN t[k] ELSE u[k - Len(t)]
    BY ConcatIs
  <2>6. J[q] = v
    BY <2>4, <2>5 DEF PrintedSteps
  <2>7. Len(s) \in Nat /\ Len(t) \in Nat /\ Len(u) \in Nat /\ Front(s, t)
    BY <2>3, <2>4, LenProperties
  <2>8. \A k \in 1..Len(s) : k \in 1..Len(t) + Len(u) /\ k <= Len(t)
    BY <2>7
  <2>9. Front(s, v)
    BY <2>5, <2>7, <2>8
  <2> QED BY <2>2, <2>4, <2>6, <2>9
<1>3. m - i \in S
  <2>1. Nat \subseteq S
    <3> HIDE DEF S
    <3> QED BY <1>1, <1>2, Induction
  <2>2. m - i \in Nat
    OBVIOUS
  <2> HIDE DEF S
  <2> QED BY <2>1, <2>2
<1>4. i + (m - i) = m /\ m <= n
  OBVIOUS
<1> QED BY <1>3, <1>4

(* Where the items are in the text.                                          *)
LEMMA Layout ==
  ASSUME NEW n \in Nat, NEW a \in [1..n -> Seq(Int)], NEW J \in [0..n -> Seq(Int)], PrintedSteps(a, n, J),
         NEW i \in 1..n
  PROVE  /\ Len(J[i]) = Len(J[i - 1]) + Len(Str!Printed(a, i)) /\ Len(J[i]) <= Len(J[n])
         /\ \A k \in 1..Len(Str!Printed(a, i)) : J[n][Len(J[i - 1]) + k] = Str!Printed(a, i)[k]
<1>p. Str!Printed(a, i) \in Seq(Int)
  BY PrintedIs
<1>0. Str!Printed(a, i) \in Seq(Int) /\ J[i - 1] \in Seq(Int) /\ J[n] \in Seq(Int)
  BY <1>p
<1>1. PICK t, u, text \in Seq(Int) : t = J[i - 1] /\ u = Str!Printed(a, i) /\ text = J[n]
  BY <1>0
<1>2. PICK v \in Seq(Int) :
        /\ v = t \o u /\ Len(v) = Len(t) + Len(u)
        /\ \A k \in 1..Len(t) + Len(u) : v[k] = IF k <= Len(t) THEN t[k] ELSE u[k - Len(t)]
  BY ConcatIs
<1>3. J[i] = v
  BY <1>1, <1>2 DEF PrintedSteps
<1>4. Len(v) <= Len(text) /\ \A k \in 1..Len(v) : text[k] = v[k]
  <2>1. n \in 0..n /\ i \in 0..n
    OBVIOUS
  <2>2. Len(J[i]) <= Len(J[n]) /\ \A k \in 1..Len(J[i]) : J[n][k] = J[i][k]
    BY <2>1, StepsGrow
  <2> QED BY <1>1, <1>3, <2>2
<1>5. ASSUME NEW k \in 1..Len(u) PROVE text[Len(t) + k] = u[k]
  <2>1. Len(t) + k \in 1..Len(v) /\ Len(t) + k \in 1..Len(t) + Len(u) /\ ~(Len(t) + k <= Len(t)) /\ Len(t) + k - Len(t) = k
    <3>1. Len(t) \in Nat /\ Len(u) \in Nat
      BY LenProperties
    <3> QED BY <1>2, <3>1
  <2>2. text[Len(t) + k] = v[Len(t) + k]
    BY <1>4, <2>1
  <2>3. v[Len(t) + k] = u[k]
    BY <1>2, <2>1
  <2> QED BY <2>2, <2>3
<1> QED BY <1>1, <1>2, <1>3, <1>4, <1>5

(* A text of n items needs no more than n times what the longest takes.      *)
LEMMA JoinedFits ==
  ASSUME NEW n \in Nat, NEW a \in [1..n -> Seq(Int)], NEW J \in [0..n -> Seq(Int)], PrintedSteps(a, n, J),
         NEW factor \in Nat, \A i \in 1..n : Len(a[i]) + 2 <= factor
  PROVE  Len(J[n]) <= n * factor
<1> DEFINE S == {i \in Nat : i <= n => Len(J[i]) <= i * factor}
<1>1. 0 \in S
  BY DEF PrintedSteps
<1>2. ASSUME NEW i \in Nat, i \in S PROVE i + 1 \in S
  <2>1. SUFFICES ASSUME i + 1 <= n PROVE Len(J[i + 1]) <= (i + 1) * factor
    OBVIOUS
  <2>2. PICK q \in 1..n : q = i + 1 /\ q - 1 = i
    BY <2>1
  <2>a. Len(J[q]) = Len(J[q - 1]) + Len(Str!Printed(a, q))
    BY Layout
  <2>b. Len(J[q - 1]) <= i * factor
    BY <1>2, <2>1, <2>2
  <2>3. Len(J[q - 1]) <= i * factor /\ Len(J[q]) = Len(J[q - 1]) + Len(Str!Printed(a, q))
    BY <2>a, <2>b
  <2>4. Len(Str!Printed(a, q)) <= factor
    <3>1. Len(Str!Printed(a, q)) = Len(a[q]) + (IF q = n THEN 0 ELSE 2)
      <4>1. Shows(Str!Printed(a, q), a, n, q)
        BY PrintedIs
      <4> QED BY <4>1 DEF Shows
    <3>2. Len(a[q]) \in Nat /\ Len(a[q]) + 2 <= factor
      BY LenProperties
    <3> QED BY <3>1, <3>2
  <2>5. (i + 1) * factor = i * factor + factor /\ i * factor \in Nat
    OBVIOUS
  <2>6. Len(J[q - 1]) \in Nat /\ Len(Str!Printed(a, q)) \in Nat
    <3>1. Str!Printed(a, q) \in Seq(Int)
      BY PrintedIs
    <3>2. J[q - 1] \in Seq(Int)
      OBVIOUS
    <3> QED BY <3>1, <3>2, LenProperties
  <2>7. PICK x, y, z \in Int : x = i * factor /\ y = Len(J[q - 1]) /\ z = Len(Str!Printed(a, q))
    BY <2>5, <2>6
  <2>8. Len(J[q]) <= x + factor
    BY <2>3, <2>4, <2>7
  <2> QED BY <2>2, <2>5, <2>7, <2>8
<1>3. n \in S
  <2> HIDE DEF S
  <2> QED BY <1>1, <1>2, Induction
<1> QED BY <1>3

(* What fits behind a text in the buffer is what the buffer would keep of    *)
(* the whole.                                                                *)
LEMMA BehindIs ==
  ASSUME NEW head \in Seq(Int), NEW w \in Seq(Int), Len(head) <= 63
  PROVE  LET room == 64 - Len(head)  new == head \o Str!Take(w, room - 1) IN
         /\ new \in Seq(Int) /\ Len(new) = IF Len(w) >= room THEN 63 ELSE Len(head) + Len(w)
         /\ room <= 1 => new = head
         /\ \A t \in Seq(Int) : head = Str!Take(t, 63) => new = Str!Take(t \o w, 63)
<1>0. Len(head) \in Nat /\ 64 - Len(head) \in Nat /\ 63 - Len(head) \in Nat
  BY LenProperties
<1>a. PICK n \in Nat : n = 63 - Len(head)
  BY <1>0
<1>b. PICK room \in Nat : room = n + 1
  OBVIOUS
<1>1. room = 64 - Len(head) /\ n = room - 1 /\ n = 63 - Len(head)
  BY <1>0, <1>a, <1>b
<1>2. PICK rest \in Seq(Int) :
        rest = Str!Take(w, n) /\ Len(rest) = Lesser(n, Len(w)) /\ \A i \in 1..Lesser(n, Len(w)) : rest[i] = w[i]
  BY TakeIs
<1>3. PICK new \in Seq(Int) : new = head \o rest /\ Len(new) = Len(head) + Len(rest)
  BY ConcatIs
<1>4. Len(new) = IF Len(w) >= room THEN 63 ELSE Len(head) + Len(w)
  <2>1. PICK h, l, r \in Nat : h = Len(head) /\ l = Len(w) /\ r = Len(rest)
    BY LenProperties
  <2>2. r = Lesser(n, l) /\ n = 63 - h /\ room = 64 - h /\ Len(new) = h + r
    BY <1>1, <1>2, <1>3, <2>1
  <2>3. Len(new) = IF l >= room THEN 63 ELSE h + l
    BY <2>2 DEF Lesser
  <2> QED BY <2>1, <2>3
<1>5. room <= 1 => new = head
  <2>1. ASSUME room <= 1 PROVE Len(rest) = 0
    BY <2>1, <1>1, <1>2, LenProperties DEF Lesser
  <2>2. ASSUME Len(rest) = 0 PROVE rest = <<>>
    BY <2>2, EmptySeq
  <2>3. head \o <<>> = head
    BY ConcatEmptySeq
  <2> QED BY <1>3, <2>1, <2>2, <2>3
<1>6. ASSUME NEW t \in Seq(Int), head = Str!Take(t, 63) PROVE new = Str!Take(t \o w, 63)
  <2>1. PICK all \in Nat : all = 63
    OBVIOUS
  <2>2. Str!Take(t \o w, all) = Str!Take(t, all) \o Str!Take(w, all - Len(Str!Take(t, all)))
    BY TakeConcat
  <2>3. Str!Take(t \o w, all) = head \o Str!Take(w, n)
    BY <1>1, <1>6, <2>1, <2>2
  <2> QED BY <1>2, <1>3, <2>1, <2>3
<1> QED BY <1>1, <1>2, <1>3, <1>4, <1>5, <1>6

(* STR64_INIT_FROM_ARR, one number on.                                       *)
Rows64 == [text : Seq(Int), Length : Nat, stopped : BOOLEAN]
Start64 == [text |-> <<>>, Length |-> 0, stopped |-> FALSE]
Next64(before, written) ==
  LET remaining == Str!Buffer - before.Length
      text == before.text \o Str!Take(written, remaining - 1)
  IN  IF before.stopped \/ remaining <= 1 THEN [before EXCEPT !.stopped = TRUE]
      ELSE IF Len(written) >= remaining
           THEN [text |-> text, Length |-> Str!Buffer - 1, stopped |-> TRUE]
           ELSE [text |-> text, Length |-> before.Length + Len(written), stopped |-> FALSE]
Kept(row, t) ==
  row.text = Str!Take(t, 63) /\ row.Length = Len(row.text) /\ (row.stopped => Len(t) >= 63)

LEMMA Next64Type ==
  ASSUME NEW row \in Rows64, NEW w \in Seq(Int)
  PROVE  Next64(row, w) \in Rows64
<1>1. CASE row.stopped \/ 64 - row.Length <= 1
  BY <1>1 DEF Next64, Rows64, Str!Buffer
<1>2. CASE ~(row.stopped \/ 64 - row.Length <= 1)
  <2>1. PICK n \in Nat : n = 64 - row.Length - 1
    BY <1>2 DEF Rows64
  <2>2. Str!Take(w, n) \in Seq(Int)
    BY TakeIs
  <2>3. PICK new \in Seq(Int) : new = row.text \o Str!Take(w, n)
    BY <2>2, ConcatIs DEF Rows64
  <2>4. row.Length + Len(w) \in Nat
    BY LenProperties DEF Rows64
  <2>5. CASE Len(w) >= 64 - row.Length
    <3>1. Next64(row, w) = [text |-> new, stopped |-> TRUE, Length |-> 63]
      BY <1>2, <2>1, <2>3, <2>5 DEF Next64, Str!Buffer
    <3> QED BY <3>1 DEF Rows64
  <2>6. CASE ~(Len(w) >= 64 - row.Length)
    <3>1. Next64(row, w) = [text |-> new, stopped |-> FALSE, Length |-> row.Length + Len(w)]
      BY <1>2, <2>1, <2>3, <2>6 DEF Next64, Str!Buffer
    <3> QED BY <2>4, <3>1 DEF Rows64
  <2> QED BY <2>5, <2>6
<1> QED BY <1>1, <1>2

LEMMA Next64Keeps ==
  ASSUME NEW row \in Rows64, NEW t \in Seq(Int), NEW w \in Seq(Int), Kept(row, t)
  PROVE  Kept(Next64(row, w), t \o w)
<1>1. PICK head \in Seq(Int) : head = row.text /\ head = Str!Take(t, 63) /\ Len(head) = row.Length
  BY DEF Rows64, Kept
<1>2. Len(head) = Lesser(63, Len(t))
  BY <1>1, TakeIs
<1>3. PICK h, lt, lw \in Nat : h = Len(head) /\ lt = Len(t) /\ lw = Len(w)
  BY LenProperties
<1>4. h <= 63 /\ (h < 63 => h = lt) /\ h = row.Length /\ (row.stopped => h = 63) /\ h <= lt
  <2>1. h = Lesser(63, lt) /\ h = row.Length
    BY <1>1, <1>2, <1>3
  <2>2. row.stopped => lt >= 63
    BY <1>3 DEF Kept
  <2> QED BY <2>1, <2>2 DEF Lesser
<1>5. PICK room \in Nat : room = 64 - h
  BY <1>4
<1>6. PICK new \in Seq(Int) : new = head \o Str!Take(w, 64 - Len(head) - 1)
  <2>1. 64 - Len(head) - 1 \in Nat
    BY <1>3, <1>4
  <2>2. Str!Take(w, 64 - Len(head) - 1) \in Seq(Int)
    BY <2>1, TakeIs
  <2> QED BY <2>2, ConcatIs
<1>7. /\ Len(new) = IF lw >= room THEN 63 ELSE h + lw
      /\ room <= 1 => new = head
      /\ new = Str!Take(t \o w, 63)
  <2>1. Len(head) <= 63
    BY <1>3, <1>4
  <2>2. LET all == 64 - Len(head)  whole == head \o Str!Take(w, all - 1) IN
        /\ whole \in Seq(Int) /\ Len(whole) = IF Len(w) >= all THEN 63 ELSE Len(head) + Len(w)
        /\ all <= 1 => whole = head
        /\ head = Str!Take(t, 63) => whole = Str!Take(t \o w, 63)
    <3>1. LET all == 64 - Len(head)  whole == head \o Str!Take(w, all - 1) IN
          /\ whole \in Seq(Int) /\ Len(whole) = IF Len(w) >= all THEN 63 ELSE Len(head) + Len(w)
          /\ all <= 1 => whole = head
          /\ \A u \in Seq(Int) : head = Str!Take(u, 63) => whole = Str!Take(u \o w, 63)
      BY <2>1, BehindIs
    <3> QED BY <3>1
  <2> QED BY <1>1, <1>3, <1>5, <1>6, <2>2
<1>8. Len(t \o w) = lt + lw
  BY <1>3, ConcatIs
<1>9. CASE row.stopped \/ room <= 1
  <2>1. Next64(row, w) = [row EXCEPT !.stopped = TRUE]
    BY <1>4, <1>5, <1>9 DEF Next64, Str!Buffer
  <2>a. Next64(row, w).text = head /\ Next64(row, w).Length = h
    BY <1>1, <1>3, <2>1 DEF Rows64
  <2>b. new = head
    BY <1>4, <1>5, <1>7, <1>9
  <2>2. Next64(row, w).text = new /\ Next64(row, w).Length = Len(new)
    BY <1>3, <2>a, <2>b
  <2>3. lt + lw >= 63
    BY <1>4, <1>5, <1>9
  <2> QED BY <1>7, <1>8, <2>2, <2>3 DEF Kept
<1>10. CASE ~(row.stopped \/ room <= 1)
  <2>1. h = row.Length /\ row.text = head /\ 64 - row.Length = room /\ 64 - Len(head) = room
    BY <1>1, <1>3, <1>4, <1>5
  <2>2. CASE lw >= room
    <3>1. Next64(row, w) = [text |-> new, stopped |-> TRUE, Length |-> 63]
      BY <1>3, <1>6, <1>10, <2>1, <2>2 DEF Next64, Str!Buffer
    <3>2. lt + lw >= 63
      BY <1>4, <1>5, <1>10, <2>2
    <3> QED BY <1>7, <1>8, <2>2, <3>1, <3>2 DEF Kept
  <2>3. CASE ~(lw >= room)
    <3>1. Next64(row, w) = [text |-> new, stopped |-> FALSE, Length |-> h + lw]
      BY <1>3, <1>6, <1>10, <2>1, <2>3 DEF Next64, Str!Buffer
    <3> QED BY <1>7, <2>3, <3>1 DEF Kept
  <2> QED BY <2>2, <2>3
<1> QED BY <1>9, <1>10

(* So CString64 is given the first 63 characters of what CString is given.   *)
LEMMA Joined64Is ==
  ASSUME NEW n \in Nat, NEW a \in [1..n -> Seq(Int)], NEW J \in [0..n -> Seq(Int)], PrintedSteps(a, n, J)
  PROVE  Str!Joined64(a) = Str!Cut64(J[n])
<1> DEFINE Step(f) == [i \in 0..Len(a) |-> IF i = 0 THEN Start64 ELSE Next64(f[i - 1], Str!Printed(a, i))]
           result == CHOOSE f : f = Step(f)
<1>1. Len(a) = n /\ \A i \in 1..n : Str!Printed(a, i) \in Seq(Int)
  BY FunctionIsSequence, PrintedIs
<1>2. \E f : f = Step(f)
  <2> DEFINE G == [q \in (1..n) \X Rows64 |-> Next64(q[2], Str!Printed(a, q[1]))]
             prev == [i \in 1..n |-> i - 1]
             V == Rows64
  <2>1. G \in [(1..n) \X V -> V]
    BY <1>1, Next64Type
  <2>2. Earlier(prev, n)
    BY DEF Earlier
  <2>3. Start64 \in V
    BY DEF Start64, Rows64
  <2> HIDE DEF G, prev, V
  <2>a. PICK f : Steps(f, n, V, Start64, prev, G)
    BY <2>1, <2>2, <2>3, Recursion
  <2>4. f \in [0..n -> V] /\ f[0] = Start64 /\ \A i \in 1..n : f[i] = G[<<i, f[prev[i]]>>]
    BY <2>a DEF Steps
  <2>5. ASSUME NEW i \in 1..n PROVE f[i] = Next64(f[i - 1], Str!Printed(a, i))
    <3>1. prev[i] = i - 1 /\ f[i - 1] \in Rows64
      <4>1. prev[i] = i - 1
        BY DEF prev
      <4>2. i - 1 \in 0..n
        OBVIOUS
      <4> QED BY <2>4, <4>1, <4>2 DEF V
    <3>2. G[<<i, f[i - 1]>>] = Next64(f[i - 1], Str!Printed(a, i))
      BY <3>1 DEF G
    <3> QED BY <2>4, <3>1, <3>2
  <2>6. f = Step(f)
    <3>1. ASSUME NEW i \in 0..n PROVE f[i] = IF i = 0 THEN Start64 ELSE Next64(f[i - 1], Str!Printed(a, i))
      <4>1. CASE i = 0
        BY <2>4, <4>1
      <4>2. CASE i # 0
        <5>1. i \in 1..n
          BY <4>2
        <5> QED BY <2>5, <4>2, <5>1
      <4> QED BY <4>1, <4>2
    <3>2. f = [i \in 0..n |-> IF i = 0 THEN Start64 ELSE Next64(f[i - 1], Str!Printed(a, i))]
      BY <2>4, <3>1
    <3> QED BY <1>1, <3>2
  <2> QED BY <2>6
<1>3. result = Step(result)
  BY <1>2
<1>4. Str!Joined64(a) = [text |-> result[Len(a)].text, Length |-> result[Len(a)].Length]
  BY DEF Str!Joined64, Start64, Next64
<1> HIDE DEF result
<1>5. result[0] = Start64 /\ \A i \in 1..n : result[i] = Next64(result[i - 1], Str!Printed(a, i))
  <2>1. /\ Step(result)[0] = Start64
        /\ \A i \in 1..n : Step(result)[i] = Next64(result[i - 1], Str!Printed(a, i))
    BY <1>1
  <2> HIDE DEF Step
  <2> QED BY <1>3, <2>1
<1> DEFINE Good(i) == result[i] \in Rows64 /\ Kept(result[i], J[i])
<1>6. ASSUME NEW i \in 1..n, Good(i - 1) PROVE Good(i)
  <2>1. PICK row, t, w : row = result[i - 1] /\ t = J[i - 1] /\ w = Str!Printed(a, i)
    OBVIOUS
  <2>2. row \in Rows64 /\ t \in Seq(Int) /\ w \in Seq(Int) /\ Kept(row, t)
    BY <1>1, <1>6, <2>1
  <2>3. Next64(row, w) \in Rows64 /\ Kept(Next64(row, w), t \o w)
    BY <2>2, Next64Type, Next64Keeps
  <2>4. result[i] = Next64(row, w) /\ J[i] = t \o w
    BY <1>5, <2>1 DEF PrintedSteps
  <2> QED BY <2>3, <2>4
<1>7. Good(0)
  <2>1. Str!Take(<<>>, 63) = <<>>
    <3>1. PICK all \in Nat, none \in Seq(Int) : all = 63 /\ none = <<>>
      BY EmptySeq
    <3>2. Len(none) <= all
      BY <3>1, EmptySeq
    <3>3. Str!Take(none, all) = none
      BY <3>2, TakeAll
    <3> QED BY <3>1, <3>3
  <2>2. <<>> \in Seq(Int) /\ Len(<<>>) = 0
    BY EmptySeq
  <2> QED BY <1>5, <2>1, <2>2 DEF PrintedSteps, Kept, Rows64, Start64
<1>8. Good(n)
  <2> DEFINE S == {i \in Nat : i <= n => Good(i)}
  <2>1. 0 \in S
    BY <1>7
  <2>2. \A i \in Nat : i \in S => i + 1 \in S
    <3> HIDE DEF Good
    <3>1. \A i \in Nat : i + 1 - 1 = i /\ (i + 1 <= n => i + 1 \in 1..n /\ i <= n)
      OBVIOUS
    <3> QED BY <1>6, <3>1
  <2>3. Nat \subseteq S
    <3> HIDE DEF S
    <3> QED BY <2>1, <2>2, Induction
  <2> QED BY <2>3
<1> QED BY <1>1, <1>4, <1>8 DEF Kept, Str!Cut64, Str!Buffer

-----------------------------------------------------------------------------
(* Reading back.                                                             *)
IsDigit(text, p) == p \in DOMAIN text /\ text[p] < 10
Starts(text, p) == IsDigit(text, p) \/ (text[p] = Str!Minus /\ IsDigit(text, p + 1))
End(text, p) == Str!Min({e \in p..Len(text) : ~IsDigit(text, e + 1)})

LEMMA EndIs ==
  ASSUME NEW text \in Seq(Int), NEW p \in 1..Len(text)
  PROVE  /\ End(text, p) \in p..Len(text) /\ ~IsDigit(text, End(text, p) + 1)
         /\ \A e \in p..Len(text) : ~IsDigit(text, e + 1) => End(text, p) <= e
<1> DEFINE Ends == {e \in p..Len(text) : ~IsDigit(text, e + 1)}
<1>1. Len(text) \in Nat /\ DOMAIN text = 1..Len(text)
  BY LenProperties
<1>2. Len(text) \in Ends
  BY <1>1 DEF IsDigit
<1>3. Ends \subseteq Nat
  BY <1>1
<1>4. End(text, p) = CHOOSE x \in Ends : \A y \in Ends : x <= y
  BY DEF End, Str!Min
<1> HIDE DEF Ends
<1>5. \E x \in Ends : \A y \in Ends : x <= y
  BY <1>2, <1>3, Least
<1>6. End(text, p) \in Ends /\ \A y \in Ends : End(text, p) <= y
  BY <1>4, <1>5
<1> QED BY <1>6 DEF Ends

(* The numbers from each place of a text on: what the converters find.       *)
Finds(text, found) ==
  /\ found[Len(text) + 1] = <<>>
  /\ \A p \in 1..Len(text) :
       found[p] = IF Starts(text, p) THEN <<SubSeq(text, p, End(text, p))>> \o found[End(text, p) + 1]
                  ELSE found[p + 1]

LEMMA ConvertedIs ==
  ASSUME NEW text \in Seq(Int), NEW max
  PROVE  \E found : Finds(text, found) /\ Str!Converted(text, max) = Str!Take(found[1], max)
<1> DEFINE Find(f) ==
             [p \in 1..Len(text) + 1 |->
                IF p > Len(text) THEN <<>>
                ELSE IF Starts(text, p) THEN <<SubSeq(text, p, End(text, p))>> \o f[End(text, p) + 1]
                ELSE f[p + 1]]
           result == CHOOSE f : f = Find(f)
<1>0. PICK n \in Nat : n = Len(text)
  BY LenProperties
<1>1. \E f : f = Find(f)
  <2> DEFINE Number(p) == SubSeq(text, p, End(text, p))
             Onward(p) == IF Starts(text, p) THEN End(text, p) + 1 ELSE p + 1
             G == [q \in (1..n) \X Seq(Seq(Int)) |->
                     IF Starts(text, n + 1 - q[1]) THEN <<Number(n + 1 - q[1])>> \o q[2] ELSE q[2]]
             prev == [i \in 1..n |-> n + 1 - Onward(n + 1 - i)]
             V == Seq(Seq(Int))
             none == <<>>
  <2>1. \A p \in 1..n : End(text, p) \in p..n
    BY <1>0, EndIs
  <2>2. ASSUME NEW p \in 1..n PROVE Number(p) \in Seq(Int)
    <3>1. PICK e \in p..n : e = End(text, p)
      BY <2>1
    <3>2. \A i \in p..e : text[i] \in Int
      BY <1>0, ElementOfSeq
    <3>3. SubSeq(text, p, e) \in Seq(Int)
      BY <3>2, SubSeqProperties
    <3> QED BY <3>1, <3>3
  <2>3. G \in [(1..n) \X V -> V]
    <3>1. ASSUME NEW i \in 1..n, NEW v \in V PROVE <<Number(n + 1 - i)>> \o v \in V
      <4>1. Number(n + 1 - i) \in Seq(Int)
        BY <2>2
      <4> HIDE DEF Number
      <4>2. <<Number(n + 1 - i)>> \in Seq(Seq(Int))
        BY <4>1
      <4> QED BY <4>2, ConcatProperties
    <3> HIDE DEF Number
    <3> QED BY <3>1
  <2>4. Earlier(prev, n)
    <3>1. ASSUME NEW i \in 1..n PROVE n + 1 - Onward(n + 1 - i) \in 0..i - 1
      <4>1. n + 1 - i \in 1..n /\ End(text, n + 1 - i) \in n + 1 - i..n
        BY <2>1
      <4> QED BY <4>1
    <3> HIDE DEF Onward
    <3> QED BY <3>1 DEF Earlier
  <2>5. none \in V
    OBVIOUS
  <2> HIDE DEF G, prev, V, none, Number, Onward
  <2>6. PICK g : Steps(g, n, V, none, prev, G)
    BY <2>3, <2>4, <2>5, Recursion
  <2>7. g \in [0..n -> V] /\ g[0] = none /\ \A i \in 1..n : g[i] = G[<<i, g[prev[i]]>>]
    BY <2>6 DEF Steps
  <2> DEFINE f == [p \in 1..n + 1 |-> g[n + 1 - p]]
  <2>8. ASSUME NEW p \in 1..n
        PROVE  f[p] = IF Starts(text, p) THEN <<Number(p)>> \o f[End(text, p) + 1] ELSE f[p + 1]
    <3>1. PICK i \in 1..n : i = n + 1 - p /\ n + 1 - i = p
      OBVIOUS
    <3>2. Onward(p) \in 1..n + 1 /\ prev[i] = n + 1 - Onward(p)
      <4>1. prev[i] = n + 1 - Onward(n + 1 - i)
        BY DEF prev
      <4>2. Onward(p) \in 1..n + 1
        BY <2>1 DEF Onward
      <4> QED BY <3>1, <4>1, <4>2
    <3>3. PICK v : v = g[prev[i]]
      OBVIOUS
    <3>4. v \in V
      BY <2>4, <2>7, <3>3 DEF Earlier
    <3>5. f[Onward(p)] = v
      BY <3>2, <3>3
    <3>6. f[p] = G[<<i, v>>]
      BY <2>7, <3>1, <3>3
    <3>7. G[<<i, v>>] = IF Starts(text, n + 1 - i) THEN <<Number(n + 1 - i)>> \o v ELSE v
      BY <3>4 DEF G, V
    <3> HIDE DEF f
    <3> QED BY <3>1, <3>5, <3>6, <3>7 DEF Onward
  <2>9. f[n + 1] = <<>>
    BY <2>7 DEF none
  <2>10. f = Find(f)
    <3>1. ASSUME NEW p \in 1..n + 1 PROVE f[p] = Find(f)[p]
      <4>1. CASE p > n
        BY <1>0, <2>9, <4>1
      <4>2. CASE p <= n
        <5>1. p \in 1..n
          BY <4>2
        <5> HIDE DEF f
        <5> QED BY <1>0, <2>8, <4>2, <5>1 DEF Number
      <4> QED BY <4>1, <4>2
    <3>2. DOMAIN f = 1..n + 1 /\ DOMAIN Find(f) = 1..n + 1
      BY <1>0
    <3>3. f = [p \in 1..n + 1 |-> f[p]] /\ Find(f) = [p \in 1..n + 1 |-> Find(f)[p]]
      BY <1>0
    <3> HIDE DEF f, Find
    <3> QED BY <3>1, <3>3
  <2> QED BY <2>10
<1>2. result = Find(result)
  BY <1>1
<1>3. Str!Converted(text, max) = Str!Take(result[1], max)
  BY DEF Str!Converted, Starts, End, IsDigit
<1> HIDE DEF result
<1>4. Finds(text, result)
  <2>1. /\ Find(result)[Len(text) + 1] = <<>>
        /\ \A p \in 1..Len(text) :
             Find(result)[p] = IF Starts(text, p) THEN <<SubSeq(text, p, End(text, p))>> \o result[End(text, p) + 1]
                               ELSE result[p + 1]
    BY <1>0
  <2> HIDE DEF Find
  <2> QED BY <1>2, <2>1 DEF Finds
<1> QED BY <1>3, <1>4

(* A number that was printed is found where it stands.                       *)
Stands(text, s, x, l) ==
  /\ l = Len(x) /\ l > 0 /\ Digits(x)
  /\ s + l <= Len(text) /\ \A k \in 1..l : text[s + k] = x[k]
  /\ ~IsDigit(text, s + l + 1)

LEMMA ItemFound ==
  ASSUME NEW text \in Seq(Int), NEW x \in Seq(Int), NEW s \in Nat, NEW l \in Nat, Stands(text, s, x, l),
         NEW found, Finds(text, found)
  PROVE  found[s + 1] = <<x>> \o found[s + l + 1]
<1>0. /\ l = Len(x) /\ l > 0 /\ Digits(x)
      /\ s + l <= Len(text) /\ \A k \in 1..l : text[s + k] = x[k]
      /\ ~IsDigit(text, s + l + 1)
  BY DEF Stands
<1>1. Len(text) \in Nat /\ DOMAIN text = 1..Len(text)
  BY LenProperties
<1>2. \A k \in 1..l : x[k] \in 0..9 \/ (k = 1 /\ x[k] = Str!Minus /\ l > 1)
  BY <1>0 DEF Digits
<1>3. \A k \in 1..l : s + k \in DOMAIN text /\ (k # 1 => IsDigit(text, s + k))
  <2>1. ASSUME NEW k \in 1..l PROVE s + k \in DOMAIN text
    BY <1>0, <1>1
  <2>2. ASSUME NEW k \in 1..l, k # 1 PROVE text[s + k] < 10
    <3>1. x[k] \in 0..9
      BY <1>2, <2>2
    <3>2. text[s + k] = x[k]
      BY <1>0
    <3>3. \A y \in 0..9 : y < 10
      OBVIOUS
    <3>4. x[k] < 10
      BY <3>1, <3>3
    <3> QED BY <3>2, <3>4
  <2> QED BY <2>1, <2>2 DEF IsDigit
<1>4. Starts(text, s + 1)
  <2>1. 1 \in 1..l /\ (l > 1 => 2 \in 1..l)
    BY <1>0
  <2>2. CASE x[1] \in 0..9
    <3>1. text[s + 1] = x[1] /\ s + 1 \in DOMAIN text
      BY <1>0, <1>3, <2>1
    <3>2. \A y \in 0..9 : y < 10
      OBVIOUS
    <3>3. x[1] < 10
      BY <2>2, <3>2
    <3>4. IsDigit(text, s + 1)
      BY <3>1, <3>3 DEF IsDigit
    <3> QED BY <3>4 DEF Starts
  <2>3. CASE x[1] = Str!Minus /\ l > 1
    <3>1. IsDigit(text, s + 2) /\ s + 1 + 1 = s + 2
      BY <1>3, <2>1, <2>3
    <3> QED BY <1>0, <2>1, <2>3, <3>1 DEF Starts
  <2> QED BY <1>2, <2>1, <2>2, <2>3
<1>5. PICK p \in 1..Len(text) : p = s + 1
  BY <1>0, <1>1
<1>6. End(text, p) = s + l
  <2>1. PICK e : e = End(text, p)
    OBVIOUS
  <2>2. e \in p..Len(text) /\ ~IsDigit(text, e + 1) /\ \A y \in p..Len(text) : ~IsDigit(text, y + 1) => e <= y
    BY <2>1, EndIs
  <2>3. e <= s + l
    <3>1. s + l \in p..Len(text)
      BY <1>0, <1>1, <1>5
    <3> QED BY <1>0, <2>2, <3>1
  <2>4. ~(e < s + l)
    <3>1. SUFFICES ASSUME e < s + l PROVE FALSE
      OBVIOUS
    <3>2. PICK k \in 1..l : k = e + 1 - s /\ k # 1 /\ s + k = e + 1
      BY <1>1, <1>5, <2>2, <3>1
    <3> QED BY <1>3, <2>2, <3>2
  <2>5. e \in Int
    BY <1>1, <2>2
  <2>6. e = s + l
    BY <2>3, <2>4, <2>5
  <2> QED BY <2>1, <2>6
<1>7. SubSeq(text, p, s + l) = x
  <2>1. PICK e \in Int : e = s + l
    OBVIOUS
  <2>2. \A i \in p..e : text[i] \in Int
    <3>1. \A i \in p..e : i \in 1..Len(text)
      BY <1>0, <1>1, <1>5, <2>1
    <3> QED BY <3>1, ElementOfSeq
  <2>a. PICK y : y = SubSeq(text, p, e)
    OBVIOUS
  <2>3. /\ y \in Seq(Int) /\ Len(y) = IF p <= e THEN e - p + 1 ELSE 0
        /\ \A i \in 1..e - p + 1 : y[i] = text[p + i - 1]
    BY <2>2, <2>a, SubSeqProperties
  <2>b. p <= e /\ e - p + 1 = l
    BY <1>0, <1>5, <2>1
  <2>4. Len(y) = Len(x) /\ e - p + 1 = l
    BY <1>0, <2>b, <2>3
  <2>5. ASSUME NEW i \in 1..l PROVE y[i] = x[i]
    <3>1. p + i - 1 = s + i
      BY <1>5
    <3> QED BY <1>0, <2>3, <2>4, <3>1
  <2>6. y = x
    BY <1>0, <2>3, <2>4, <2>5, SeqEqual
  <2> QED BY <2>1, <2>a, <2>6
<1>8. found[p] = <<SubSeq(text, p, End(text, p))>> \o found[End(text, p) + 1]
  BY <1>4, <1>5 DEF Finds
<1> QED BY <1>5, <1>6, <1>7, <1>8

(* An array that was printed is read back.                                   *)
LEMMA ReadBack ==
  ASSUME NEW n \in Nat \ {0}, NEW a \in [1..n -> Seq(Int)], NEW J \in [0..n -> Seq(Int)], PrintedSteps(a, n, J),
         \A i \in 1..n : Len(a[i]) > 0 /\ Digits(a[i]),
         NEW max \in Nat, n <= max
  PROVE  Str!Converted(J[n], max) = a
<1>1. PICK text \in Seq(Int) : text = J[n] /\ Len(text) \in Nat /\ DOMAIN text = 1..Len(text)
  <2>1. J[n] \in Seq(Int)
    OBVIOUS
  <2> QED BY <2>1, LenProperties
<1>2. PICK found : Finds(text, found) /\ Str!Converted(text, max) = Str!Take(found[1], max)
  BY ConvertedIs
<1> DEFINE Start(i) == Len(J[i - 1]) + 1
<1>3. ASSUME NEW i \in 1..n
      PROVE  found[Start(i)] = <<a[i]>> \o IF i = n THEN <<>> ELSE found[Start(i + 1)]
  <2>1. PICK s, l \in Nat : s = Len(J[i - 1]) /\ l = Len(a[i])
    <3>1. J[i - 1] \in Seq(Int) /\ a[i] \in Seq(Int)
      OBVIOUS
    <3> QED BY <3>1, LenProperties
  <2>2. PICK w \in Seq(Int) : w = Str!Printed(a, i)
    BY PrintedIs
  <2>3. /\ Len(w) = l + (IF i = n THEN 0 ELSE 2)
        /\ \A k \in 1..l : w[k] = a[i][k]
        /\ i # n => w[l + 1] = Str!Comma /\ w[l + 2] = Str!Space
    <3>1. Shows(Str!Printed(a, i), a, n, i)
      BY PrintedIs
    <3>2. Shows(w, a, n, i)
      BY <2>2, <3>1
    <3> QED BY <2>1, <3>2 DEF Shows
  <2>4. /\ Len(J[i]) = s + Len(w) /\ Len(J[i]) <= Len(text)
        /\ \A k \in 1..Len(w) : text[s + k] = w[k]
    <3>1. /\ Len(J[i]) = Len(J[i - 1]) + Len(Str!Printed(a, i)) /\ Len(J[i]) <= Len(J[n])
          /\ \A k \in 1..Len(Str!Printed(a, i)) : J[n][Len(J[i - 1]) + k] = Str!Printed(a, i)[k]
      BY Layout
    <3> QED BY <1>1, <2>1, <2>2, <3>1
  <2>5. i = n => Len(text) = s + l
    <3>1. SUFFICES ASSUME i = n PROVE Len(text) = s + l
      OBVIOUS
    <3>2. Len(w) = l + 0
      BY <2>3, <3>1
    <3>3. Len(J[i]) = s + Len(w)
      BY <2>4
    <3>4. J[i] = text
      BY <1>1, <3>1
    <3> QED BY <3>2, <3>3, <3>4
  <2>6. s + l <= Len(text) /\ \A k \in 1..l : text[s + k] = a[i][k]
    <3>1. \A k \in 1..l : k \in 1..Len(w)
      BY <2>3
    <3>2. s + l <= Len(J[i]) /\ Len(J[i]) \in Nat
      <4>1. Len(J[i]) = s + Len(w) /\ Len(w) = l + (IF i = n THEN 0 ELSE 2)
        BY <2>3, <2>4
      <4> QED BY <4>1
    <3>3. s + l <= Len(text)
      <4>1. Len(J[i]) <= Len(text)
        BY <2>4
      <4> QED BY <1>1, <3>2, <4>1
    <3> QED BY <2>3, <2>4, <3>1, <3>3
  <2>7. i # n => text[s + l + 1] = Str!Comma /\ text[s + l + 2] = Str!Space /\ s + l + 2 <= Len(text)
    <3>1. SUFFICES ASSUME i # n PROVE text[s + l + 1] = Str!Comma /\ text[s + l + 2] = Str!Space /\ s + l + 2 <= Len(text)
      OBVIOUS
    <3>2. /\ l + 1 \in 1..Len(w) /\ l + 2 \in 1..Len(w)
          /\ s + (l + 1) = s + l + 1 /\ s + (l + 2) = s + l + 2 /\ Len(w) = l + 2
      BY <2>3, <3>1
    <3>3. text[s + (l + 1)] = w[l + 1] /\ text[s + (l + 2)] = w[l + 2]
      BY <2>4, <3>2
    <3> QED BY <1>1, <2>3, <2>4, <3>1, <3>2, <3>3
  <2>8. ~IsDigit(text, s + l + 1)
    <3>1. CASE i = n
      BY <1>1, <2>5, <3>1 DEF IsDigit
    <3>2. CASE i # n
      BY <2>7, <3>2 DEF IsDigit, Str!Comma
    <3> QED BY <3>1, <3>2
  <2>9. found[s + 1] = <<a[i]>> \o found[s + l + 1]
    <3>1. PICK x \in Seq(Int) : x = a[i] /\ l = Len(x)
      BY <2>1
    <3>2. Stands(text, s, x, l)
      BY <2>1, <2>6, <2>8, <3>1 DEF Stands
    <3>3. found[s + 1] = <<x>> \o found[s + l + 1]
      BY <1>2, <3>2, ItemFound
    <3> QED BY <3>1, <3>3
  <2>10. CASE i = n
    <3>1. found[s + l + 1] = <<>>
      BY <1>2, <2>5, <2>10 DEF Finds
    <3> QED BY <2>1, <2>9, <2>10, <3>1
  <2>11. CASE i # n
    <3>1. PICK c \in 1..Len(text) : c = s + l + 1 /\ c + 1 = s + l + 2 /\ c + 1 \in 1..Len(text)
      BY <1>1, <2>7, <2>11
    <3>2. text[c] = 10 /\ text[c + 1] = 11
      BY <2>7, <2>11, <3>1 DEF Str!Comma, Str!Space
    <3>3. ~Starts(text, c) /\ ~Starts(text, c + 1)
      BY <3>2 DEF Starts, IsDigit, Str!Minus
    <3>4. found[c] = found[c + 1]
      BY <1>2, <3>1, <3>3 DEF Finds
    <3>5. found[c + 1] = found[c + 1 + 1]
      BY <1>2, <3>1, <3>3 DEF Finds
    <3>6. Start(i + 1) = c + 1 + 1
      <4>1. i + 1 - 1 = i
        OBVIOUS
      <4>2. Len(J[i]) = s + l + 2
        <5>1. Len(J[i]) = s + Len(w) /\ Len(w) = l + 2
          BY <2>3, <2>4, <2>11
        <5> QED BY <5>1
      <4>3. Len(J[i]) + 1 = c + 1 + 1
        BY <3>1, <4>2
      <4> QED BY <4>1, <4>3
    <3>7. found[s + l + 1] = found[Start(i + 1)]
      BY <3>1, <3>4, <3>5, <3>6
    <3> HIDE DEF Start
    <3>8. found[Start(i)] = <<a[i]>> \o found[Start(i + 1)]
      BY <2>1, <2>9, <3>7 DEF Start
    <3> QED BY <2>11, <3>8
  <2> QED BY <2>10, <2>11
<1>4. a \in Seq(Seq(Int)) /\ Len(a) = n
  BY FunctionIsSequence
<1> HIDE DEF Start
<1> DEFINE S == {j \in Nat : j < n => found[Start(n - j)] = SubSeq(a, n - j, n)}
<1>5. 0 \in S
  <2>1. PICK m \in 1..n : m = n
    OBVIOUS
  <2>2. SubSeq(a, m, n) = <<a[m]>> \o SubSeq(a, m + 1, n)
    BY <1>4, <2>1, SubSeqRecursiveFirst
  <2>3. SubSeq(a, m + 1, n) = <<>>
    BY <2>1, SubSeqEmpty
  <2>4. found[Start(m)] = <<a[m]>> \o <<>>
    BY <1>3, <2>1
  <2> QED BY <2>1, <2>2, <2>3, <2>4
<1>6. ASSUME NEW j \in Nat, j \in S PROVE j + 1 \in S
  <2>1. SUFFICES ASSUME j + 1 < n PROVE found[Start(n - (j + 1))] = SubSeq(a, n - (j + 1), n)
    OBVIOUS
  <2>2. PICK i \in 1..n : i = n - (j + 1) /\ i # n /\ i + 1 = n - j /\ i + 1 \in 1..n
    BY <2>1
  <2>3. found[Start(i + 1)] = SubSeq(a, i + 1, n)
    BY <1>6, <2>1, <2>2
  <2>4. SubSeq(a, i, n) = <<a[i]>> \o SubSeq(a, i + 1, n)
    <3>1. n \in i..n
      OBVIOUS
    <3> QED BY <1>4, <3>1, SubSeqRecursiveFirst
  <2>5. found[Start(i)] = <<a[i]>> \o found[Start(i + 1)]
    BY <1>3, <2>2
  <2> QED BY <2>2, <2>3, <2>4, <2>5
<1>7. found[Start(1)] = SubSeq(a, 1, n)
  <2>1. n - 1 \in S
    <3>1. n - 1 \in Nat
      OBVIOUS
    <3> HIDE DEF S
    <3> QED BY <1>5, <1>6, <3>1, Induction
  <2>2. n - (n - 1) = 1 /\ n - 1 < n
    OBVIOUS
  <2> QED BY <2>1, <2>2
<1>8. Start(1) = 1
  <2>1. 1 - 1 = 0
    OBVIOUS
  <2>2. Len(J[0]) = 0
    BY EmptySeq DEF PrintedSteps
  <2> QED BY <2>1, <2>2 DEF Start
<1>9. SubSeq(a, 1, n) = a
  BY <1>4, SubSeqFull
<1>10. Str!Take(a, max) = a
  BY <1>4, TakeAll
<1> QED BY <1>1, <1>2, <1>7, <1>8, <1>9, <1>10

-----------------------------------------------------------------------------
(* What both strings of an object are like between two calls: each in        *)
(* itself, the two beside each other, and beside the array written to them.  *)
Printable(array) ==
  \E n \in Nat \ {0} :
    n <= MaxItems /\ array \in [1..n -> Seq(Int)] /\ \A i \in 1..n : Len(array[i]) > 0 /\ Digits(array[i])

HeldWell(d) ==
  /\ d \in [null : BOOLEAN, text : Seq(Int), Length : Nat]
  /\ d.Length = Len(d.text) /\ (d.null => d.text = <<>>)
FixedWell(f) == f \in [text : Seq(Int), Length : Nat] /\ f.Length = Len(f.text) /\ f.Length <= 63
Shared(d, f) == f.text = Str!Take(d.text, 63)
Written(d, array) == Printable(array) /\ ~d.null /\ d.text = Str!Joined(array)

StringsInv ==
  /\ DOMAIN dynamic = Str!Objects /\ DOMAIN fixed = Str!Objects
  /\ DOMAIN items = Str!Objects /\ alike \in [Str!Objects -> BOOLEAN]
  /\ \A o \in Str!Objects :
       /\ HeldWell(dynamic[o]) /\ FixedWell(fixed[o])
       /\ alike[o] => Shared(dynamic[o], fixed[o])
       /\ items[o] # <<>> => alike[o] /\ Written(dynamic[o], items[o])

(* What the constructors make of a text.                                     *)
LEMMA CutIs ==
  ASSUME NEW s \in Seq(Int)
  PROVE  FixedWell(Str!Cut64(s)) /\ Str!Cut64(s).text = Str!Take(s, 63)
<1>1. PICK n \in Nat : n = 63
  OBVIOUS
<1>2. PICK front \in Seq(Int) : front = Str!Take(s, n) /\ Len(front) = Lesser(n, Len(s))
  BY TakeIs
<1>3. Len(front) \in Nat /\ Len(front) <= n
  BY <1>2, LenProperties DEF Lesser
<1>4. Str!Cut64(s) = [text |-> front, Length |-> Len(front)]
  BY <1>1, <1>2 DEF Str!Cut64, Str!Buffer
<1> QED BY <1>1, <1>2, <1>3, <1>4 DEF FixedWell

LEMMA HeldIs ==
  ASSUME NEW s \in Seq(Int)
  PROVE  HeldWell(Str!Held(s)) /\ Str!Held(s).text = s /\ ~Str!Held(s).null
<1>1. Len(s) \in Nat
  BY LenProperties
<1> QED BY <1>1 DEF HeldWell, Str!Held

LEMMA NullIs == HeldWell(Str!NullString) /\ Str!NullString.text = <<>>
<1>1. <<>> \in Seq(Int) /\ Len(<<>>) = 0
  BY EmptySeq
<1> QED BY <1>1 DEF HeldWell, Str!NullString

(* What a call leaves, when it wrote both, when it failed, and otherwise.    *)
LEMMA LeaveWhole ==
  ASSUME StringsInv, NEW o \in Str!Objects, NEW d, NEW f, NEW array,
         Str!Leave(o, d, f, TRUE, FALSE, array),
         HeldWell(d), FixedWell(f), Shared(d, f), array # <<>> => Written(d, array)
  PROVE  StringsInv'
<1>1. /\ dynamic' = [dynamic EXCEPT ![o] = d] /\ fixed' = [fixed EXCEPT ![o] = f]
      /\ alike' = [alike EXCEPT ![o] = TRUE] /\ items' = [items EXCEPT ![o] = array]
  BY DEF Str!Leave
<1> QED BY <1>1 DEF StringsInv

LEMMA LeaveFailed ==
  ASSUME StringsInv, NEW o \in Str!Objects, NEW d, NEW f, NEW array, NEW whole \in BOOLEAN,
         Str!Leave(o, d, f, whole, TRUE, array),
         HeldWell(d), FixedWell(f)
  PROVE  StringsInv'
<1>1. /\ dynamic' = [dynamic EXCEPT ![o] = d] /\ fixed' = [fixed EXCEPT ![o] = f]
      /\ alike' = [alike EXCEPT ![o] = FALSE] /\ items' = [items EXCEPT ![o] = <<>>]
  BY DEF Str!Leave
<1> QED BY <1>1 DEF StringsInv

LEMMA LeavePart ==
  ASSUME StringsInv, NEW o \in Str!Objects, NEW d, NEW f, NEW array,
         Str!Leave(o, d, f, FALSE, FALSE, array),
         HeldWell(d), FixedWell(f), alike[o] => Shared(d, f), array # <<>> => alike[o] /\ Written(d, array)
  PROVE  StringsInv'
<1>1. /\ dynamic' = [dynamic EXCEPT ![o] = d] /\ fixed' = [fixed EXCEPT ![o] = f]
      /\ items' = [items EXCEPT ![o] = array]
  BY DEF Str!Leave
<1>2. alike' = [alike EXCEPT ![o] = alike[o]]
  BY DEF Str!Leave, StringsInv
<1> QED BY <1>1, <1>2 DEF StringsInv

LEMMA AssignKeeps ==
  ASSUME StringsInv, NEW o \in Str!Objects, NEW text \in Seq(Int), Str!Assign(o, text)
  PROVE  StringsInv'
<1>1. FixedWell(Str!Cut64(text)) /\ Str!Cut64(text).text = Str!Take(text, 63)
  BY CutIs
<1>2. HeldWell(Str!Held(text)) /\ Shared(Str!Held(text), Str!Cut64(text))
  BY <1>1, HeldIs DEF Shared
<1>3. CASE Str!Leave(o, Str!Held(text), Str!Cut64(text), TRUE, FALSE, <<>>)
  BY <1>1, <1>2, <1>3, LeaveWhole
<1>4. CASE Str!Leave(o, Str!NullString, Str!Cut64(text), TRUE, TRUE, <<>>)
  BY <1>1, <1>4, NullIs, LeaveFailed
<1> QED BY <1>3, <1>4 DEF Str!Assign

LEMMA EmptyIs ==
  ASSUME NEW d, HeldWell(d), d.text = <<>>
  PROVE  FixedWell(Str!Cut64(<<>>)) /\ Shared(d, Str!Cut64(<<>>))
<1>1. PICK none \in Seq(Int) : none = <<>>
  BY EmptySeq
<1>2. FixedWell(Str!Cut64(none)) /\ Str!Cut64(none).text = Str!Take(none, 63)
  BY CutIs
<1> QED BY <1>1, <1>2 DEF Shared

LEMMA DropKeeps ==
  ASSUME StringsInv, NEW o \in Str!Objects, Str!Drop(o)
  PROVE  StringsInv'
BY NullIs, EmptyIs, LeaveWhole DEF Str!Drop

LEMMA ClearKeeps ==
  ASSUME StringsInv, NEW o \in Str!Objects, Str!Clear(o)
  PROVE  StringsInv'
<1>1. PICK d : d = (IF dynamic[o].null THEN dynamic[o] ELSE Str!Held(<<>>))
  OBVIOUS
<1>2. HeldWell(d) /\ d.text = <<>>
  <2>1. PICK none \in Seq(Int) : none = <<>>
    BY EmptySeq
  <2>2. HeldWell(Str!Held(none)) /\ Str!Held(none).text = none
    BY HeldIs
  <2>3. HeldWell(dynamic[o])
    BY DEF StringsInv
  <2>4. dynamic[o].null => dynamic[o].text = <<>>
    BY <2>3 DEF HeldWell
  <2> QED BY <1>1, <2>1, <2>2, <2>3, <2>4
<1>3. Str!Leave(o, d, Str!Cut64(<<>>), TRUE, FALSE, <<>>)
  BY <1>1 DEF Str!Clear
<1> QED BY <1>2, <1>3, EmptyIs, LeaveWhole

LEMMA CopyKeeps ==
  ASSUME StringsInv, NEW o \in Str!Objects, NEW from \in Str!Objects, Str!Copy(o, from)
  PROVE  StringsInv'
<1>1. PICK src, f : src = dynamic[from] /\ f = fixed[from]
  OBVIOUS
<1>2. HeldWell(src) /\ FixedWell(f) /\ (alike[from] => Shared(src, f))
      /\ (items[from] # <<>> => alike[from] /\ Written(src, items[from]))
  BY <1>1 DEF StringsInv
<1>3. fixed' = [fixed EXCEPT ![o] = f]
  <2>1. PICK n \in Nat : n = 63
    OBVIOUS
  <2>2. f.text \in Seq(Int) /\ Len(f.text) <= n
    BY <1>2, <2>1 DEF FixedWell
  <2>3. Str!Take(f.text, n) = f.text
    BY <2>2, TakeAll
  <2>4. [text |-> f.text, Length |-> f.Length] = f
    BY <1>2 DEF FixedWell
  <2>5. fixed' = [fixed EXCEPT ![o] = [text |-> Str!Take(fixed[from].text, 64 - 1), Length |-> fixed[from].Length]]
    BY DEF Str!Copy, Str!Buffer
  <2>6. Str!Take(f.text, 64 - 1) = f.text
    BY <2>1, <2>3
  <2> QED BY <1>1, <2>4, <2>5, <2>6
<1>4. PICK d \in {src, Str!NullString} :
        /\ dynamic' = [dynamic EXCEPT ![o] = d]
        /\ alike' = [alike EXCEPT ![o] = (alike[from] /\ d = src)]
        /\ items' = [items EXCEPT ![o] = IF d = src THEN items[from] ELSE <<>>]
  <2>1. [src EXCEPT !.text = src.text] = src
    BY <1>2 DEF HeldWell
  <2>2. PICK d \in {src, Str!NullString} : dynamic' = [dynamic EXCEPT ![o] = d]
    <3>1. src.null => [src EXCEPT !.text = <<>>] = src
      BY <1>2, <2>1 DEF HeldWell
    <3> QED BY <1>1, <3>1 DEF Str!Copy
  <2>3. dynamic'[o] = d
    BY <2>2 DEF StringsInv
  <2> QED BY <1>1, <2>2, <2>3 DEF Str!Copy
<1>5. CASE d = src
  <2>1. alike' = [alike EXCEPT ![o] = alike[from]] /\ items' = [items EXCEPT ![o] = items[from]]
    BY <1>4, <1>5 DEF StringsInv
  <2> QED BY <1>2, <1>3, <1>4, <1>5, <2>1 DEF StringsInv
<1>6. CASE d # src
  <2>1. alike' = [alike EXCEPT ![o] = FALSE] /\ items' = [items EXCEPT ![o] = <<>>] /\ HeldWell(d)
    BY <1>4, <1>6, NullIs
  <2> QED BY <1>2, <1>3, <1>4, <2>1 DEF StringsInv
<1> QED BY <1>5, <1>6

(* Str64Append: what fits behind the text.                                   *)
LEMMA Append64Is ==
  ASSUME StringsInv, NEW o \in Str!Objects, NEW text \in Seq(Int)
  PROVE  LET f == Str!Append64(o, text) IN
         FixedWell(f) /\ \A t \in Seq(Int) : fixed[o].text = Str!Take(t, 63) => f.text = Str!Take(t \o text, 63)
<1>1. PICK old : old = fixed[o] /\ FixedWell(old)
  BY DEF StringsInv
<1>2. PICK head \in Seq(Int), h \in Nat, l \in Nat :
        head = old.text /\ h = Len(head) /\ h = old.Length /\ h <= 63 /\ l = Len(text)
  BY <1>1, LenProperties DEF FixedWell
<1>3. PICK new : new = head \o Str!Take(text, 64 - Len(head) - 1)
  OBVIOUS
<1>4. /\ new \in Seq(Int) /\ Len(new) = IF l >= 64 - h THEN 63 ELSE h + l
      /\ 64 - h <= 1 => new = head
      /\ \A t \in Seq(Int) : head = Str!Take(t, 63) => new = Str!Take(t \o text, 63)
  <2>1. Len(head) <= 63
    BY <1>2
  <2>2. LET room == 64 - Len(head)  whole == head \o Str!Take(text, room - 1) IN
        /\ whole \in Seq(Int) /\ Len(whole) = IF Len(text) >= room THEN 63 ELSE Len(head) + Len(text)
        /\ room <= 1 => whole = head
        /\ \A t \in Seq(Int) : head = Str!Take(t, 63) => whole = Str!Take(t \o text, 63)
    BY <2>1, BehindIs
  <2> QED BY <1>2, <1>3, <2>2
<1>5. PICK f : f = Str!Append64(o, text)
  OBVIOUS
<1>6. CASE 64 - h <= 1
  <2>1. f = old
    BY <1>1, <1>2, <1>5, <1>6 DEF Str!Append64, Str!Buffer
  <2>2. f.text = new
    BY <1>2, <1>4, <1>6, <2>1
  <2> QED BY <1>1, <1>2, <1>4, <1>5, <2>1, <2>2
<1>7. CASE ~(64 - h <= 1)
  <2>1. f = [text |-> new, Length |-> IF l >= 64 - h THEN 63 ELSE h + l]
    <3>1. ~(64 - fixed[o].Length <= 1)
      BY <1>1, <1>2, <1>7
    <3>2. f = [text   |-> fixed[o].text \o Str!Take(text, 64 - fixed[o].Length - 1),
               Length |-> IF Len(text) >= 64 - fixed[o].Length THEN 64 - 1 ELSE fixed[o].Length + Len(text)]
      BY <1>5, <3>1 DEF Str!Append64, Str!Buffer
    <3>3. fixed[o].text \o Str!Take(text, 64 - fixed[o].Length - 1) = new
      BY <1>1, <1>2, <1>3
    <3>4. fixed[o].Length = h /\ Len(text) = l /\ 64 - 1 = 63
      BY <1>1, <1>2
    <3> QED BY <3>2, <3>3, <3>4
  <2>2. f.text = new /\ f.Length = Len(new)
    BY <1>4, <2>1
  <2>3. f.Length \in Nat /\ f.Length <= 63
    BY <1>2, <1>7, <2>1
  <2>4. FixedWell(f)
    BY <1>4, <2>1, <2>2, <2>3 DEF FixedWell
  <2> QED BY <1>1, <1>2, <1>4, <1>5, <2>2, <2>4
<1> QED BY <1>6, <1>7

LEMMA StrAppendKeeps ==
  ASSUME StringsInv, NEW o \in Str!Objects, NEW text \in Seq(Int), Str!StrAppend(o, text)
  PROVE  StringsInv'
<1>1. PICK d, f : d = dynamic[o] /\ f = Str!Append64(o, text)
  OBVIOUS
<1>2. HeldWell(d) /\ (alike[o] => Shared(d, fixed[o]))
  BY <1>1 DEF StringsInv
<1>3. FixedWell(f) /\ \A t \in Seq(Int) : fixed[o].text = Str!Take(t, 63) => f.text = Str!Take(t \o text, 63)
  BY <1>1, Append64Is
<1>4. PICK new : new = [null |-> FALSE, text |-> d.text \o text, Length |-> d.Length + Len(text)]
  OBVIOUS
<1>5. HeldWell(new) /\ (alike[o] => Shared(new, f))
  <2>1. d.text \in Seq(Int) /\ d.Length = Len(d.text)
    BY <1>2 DEF HeldWell
  <2>2. PICK whole \in Seq(Int) : whole = d.text \o text /\ Len(whole) = Len(d.text) + Len(text)
    BY <2>1, ConcatIs
  <2>3. Len(whole) \in Nat
    BY LenProperties
  <2>4. new = [null |-> FALSE, text |-> whole, Length |-> Len(whole)]
    BY <1>4, <2>1, <2>2
  <2>5. alike[o] => f.text = Str!Take(whole, 63)
    BY <1>2, <1>3, <2>1, <2>2 DEF Shared
  <2> QED BY <2>3, <2>4, <2>5 DEF HeldWell, Shared
<1>6. CASE Str!Leave(o, new, f, FALSE, FALSE, <<>>)
  BY <1>3, <1>5, <1>6, LeavePart
<1>7. CASE Str!Leave(o, d, f, FALSE, TRUE, <<>>)
  BY <1>2, <1>3, <1>7, LeaveFailed
<1> QED BY <1>1, <1>4, <1>6, <1>7 DEF Str!StrAppend

(* Cutting a string, which the parsers of either library do.                 *)
LEMMA CroppedIs ==
  ASSUME NEW s \in Seq(Int), NEW n \in Nat, NEW str, str.text = s, str.Length = Len(s),
         "text" \in DOMAIN str, "Length" \in DOMAIN str
  PROVE  /\ Str!Cropped(str, n).text = Str!Take(s, n)
         /\ Str!Cropped(str, n).Length = Len(Str!Take(s, n))
<1>1. PICK front \in Seq(Int) : front = Str!Take(s, n) /\ Len(front) = Lesser(n, Len(s))
  BY TakeIs
<1>2. PICK l \in Nat : l = Len(s)
  BY LenProperties
<1>3. CASE n < l
  <2>1. Len(front) = n
    BY <1>1, <1>2, <1>3 DEF Lesser
  <2>2. Str!Cropped(str, n) = [[str EXCEPT !.text = front] EXCEPT !.Length = n]
    BY <1>1, <1>2, <1>3 DEF Str!Cropped
  <2> QED BY <1>1, <2>1, <2>2
<1>4. CASE ~(n < l)
  <2>1. Str!Cropped(str, n) = str
    BY <1>2, <1>4 DEF Str!Cropped
  <2>2. front = s
    BY <1>1, <1>2, <1>4, TakeAll
  <2> QED BY <1>1, <2>1, <2>2
<1> QED BY <1>3, <1>4

LEMMA ResizeKeeps ==
  ASSUME StringsInv, NEW o \in Str!Objects, NEW n \in Nat, Str!Resize(o, n)
  PROVE  StringsInv'
<1>1. PICK d, f : d = dynamic[o] /\ f = fixed[o]
  OBVIOUS
<1>2. /\ HeldWell(d) /\ FixedWell(f) /\ (alike[o] => Shared(d, f))
      /\ items[o] # <<>> => alike[o] /\ Written(d, items[o])
  BY <1>1 DEF StringsInv
<1>3. PICK d1, f1 : d1 = (IF d.null THEN d ELSE Str!Cropped(d, n)) /\ f1 = Str!Cropped(f, n)
  OBVIOUS
<1>4. PICK a, b \in Seq(Int) : a = d.text /\ b = f.text /\ d.Length = Len(a) /\ f.Length = Len(b)
  BY <1>2 DEF HeldWell, FixedWell
<1>5. PICK l, m \in Nat : l = Len(a) /\ m = Len(b)
  BY LenProperties
<1>6. Str!Cropped(f, n).text = Str!Take(b, n) /\ Str!Cropped(f, n).Length = Len(Str!Take(b, n))
  BY <1>2, <1>4, CroppedIs DEF FixedWell
<1>7. Str!Cropped(d, n).text = Str!Take(a, n) /\ Str!Cropped(d, n).Length = Len(Str!Take(a, n))
  BY <1>2, <1>4, CroppedIs DEF HeldWell
<1>8. PICK a1, b1 \in Seq(Int) :
        /\ a1 = Str!Take(a, n) /\ Len(a1) = Lesser(n, Len(a))
        /\ b1 = Str!Take(b, n) /\ Len(b1) = Lesser(n, Len(b))
  BY TakeIs
<1>9. FixedWell(f1)
  <2>1. f1 \in [text : Seq(Int), Length : Nat]
    <3>1. Str!Take(b, n) \in Seq(Int)
      BY <1>8
    <3> QED BY <1>2, <1>3, <1>4, <3>1 DEF Str!Cropped, FixedWell
  <2>2. f1.text = b1 /\ f1.Length = Len(b1)
    BY <1>3, <1>6, <1>8
  <2>3. Len(b1) <= 63
    BY <1>2, <1>4, <1>5, <1>8 DEF Lesser, FixedWell
  <2> QED BY <2>1, <2>2, <2>3 DEF FixedWell
<1>10. HeldWell(d1) /\ d1.text = a1 /\ d1.null = d.null
  <2>1. CASE d.null
    <3>1. d1 = d /\ a = <<>>
      BY <1>2, <1>3, <1>4, <2>1 DEF HeldWell
    <3>2. Len(a) <= n
      BY <3>1, EmptySeq
    <3>3. a1 = a
      BY <1>8, <3>2, TakeAll
    <3> QED BY <1>2, <1>4, <3>1, <3>3
  <2>2. CASE ~d.null
    <3>1. d1 = Str!Cropped(d, n)
      BY <1>3, <2>2
    <3>2. Str!Take(a, n) \in Seq(Int)
      BY <1>8
    <3>3. d1 \in [null : BOOLEAN, text : Seq(Int), Length : Nat] /\ d1.null = d.null
      BY <1>2, <1>4, <3>1, <3>2 DEF Str!Cropped, HeldWell
    <3>4. d1.text = a1 /\ d1.Length = Len(a1)
      BY <1>7, <1>8, <3>1
    <3> QED BY <2>2, <3>3, <3>4 DEF HeldWell
  <2> QED BY <2>1, <2>2
<1>11. alike[o] => Shared(d1, f1)
  <2>1. SUFFICES ASSUME alike[o] PROVE Shared(d1, f1)
    OBVIOUS
  <2>2. PICK all, k \in Nat : all = 63 /\ k = Lesser(all, n)
    BY DEF Lesser
  <2>3. b = Str!Take(a, all)
    BY <1>2, <1>4, <2>1, <2>2 DEF Shared
  <2>4. Str!Take(Str!Take(a, all), n) = Str!Take(a, k)
    BY <2>2, TakeTwice
  <2>5. Str!Take(Str!Take(a, n), all) = Str!Take(a, k)
    <3>1. Lesser(n, all) = Lesser(all, n)
      BY DEF Lesser
    <3> QED BY <2>2, <3>1, TakeTwice
  <2>6. b1 = Str!Take(a1, all)
    BY <1>8, <2>3, <2>4, <2>5
  <2>7. f1.text = b1
    BY <1>3, <1>6, <1>8
  <2> QED BY <1>10, <2>2, <2>6, <2>7 DEF Shared
<1>12. PICK array : array = (IF n < f.Length \/ n < d.Length THEN <<>> ELSE items[o])
  OBVIOUS
<1>13. array # <<>> => alike[o] /\ Written(d1, array)
  <2>1. SUFFICES ASSUME array # <<>> PROVE alike[o] /\ Written(d1, array)
    OBVIOUS
  <2>2. array = items[o] /\ ~(n < d.Length)
    BY <1>12, <2>1
  <2>3. Len(a) <= n
    BY <1>4, <1>5, <2>2
  <2>4. a1 = a
    BY <1>8, <2>3, TakeAll
  <2> QED BY <1>2, <1>4, <1>10, <2>1, <2>2, <2>4 DEF Written
<1>14. Str!Leave(o, d1, f1, FALSE, FALSE, array)
  BY <1>1, <1>3, <1>12 DEF Str!Resize
<1> QED BY <1>9, <1>10, <1>11, <1>13, <1>14, LeavePart

(* What the string is given of the buffer that was printed to.               *)
Bounded(kind, array) ==
  LET buf_size == Len(array) * Str!Kinds[kind].factor + 1
  IN  Str!Take(Str!Joined(array), buf_size - 1)

LEMMA ArrayIs ==
  ASSUME MaxItems \in Nat, NEW kind \in DOMAIN Str!Kinds, NEW array \in Str!Arrays(kind)
  PROVE  /\ Printable(array) /\ array # <<>>
         /\ Bounded(kind, array) = Str!Joined(array)
         /\ Str!Joined(array) \in Seq(Int)
         /\ Str!Joined64(array) = Str!Cut64(Str!Joined(array))
<1>1. PICK n \in 1..MaxItems : array \in [1..n -> Str!Kinds[kind].numbers]
  BY DEF Str!Arrays
<1>2. PICK factor \in Nat : factor = Str!Kinds[kind].factor
  <2>1. array[1] \in Str!Kinds[kind].numbers
    BY <1>1
  <2> QED BY <2>1, NumbersAre
<1>3. ASSUME NEW i \in 1..n PROVE Fits(array[i], factor)
  <2>1. array[i] \in Str!Kinds[kind].numbers
    BY <1>1
  <2> QED BY <1>2, <2>1, NumbersAre
<1>4. n \in Nat \ {0} /\ n \in Nat /\ n <= MaxItems
  BY <1>1
<1>5. \A i \in 1..n : array[i] \in Seq(Int) /\ Len(array[i]) > 0 /\ Digits(array[i]) /\ Len(array[i]) + 2 <= factor
  BY <1>3 DEF Fits
<1>6. array \in [1..n -> Seq(Int)]
  BY <1>1, <1>5
<1>7. Printable(array)
  BY <1>4, <1>5, <1>6 DEF Printable
<1>8. Len(array) = n /\ array # <<>>
  <2>1. array \in Seq(Seq(Int)) /\ Len(array) = n
    BY <1>4, <1>6, FunctionIsSequence
  <2> QED BY <1>4, <2>1, EmptySeq
<1>9. PICK J \in [0..n -> Seq(Int)] : PrintedSteps(array, n, J) /\ Str!Joined(array) = J[n]
  BY <1>4, <1>6, JoinedIs
<1>10. PICK text \in Seq(Int) : text = J[n]
  <2>1. n \in 0..n
    BY <1>4
  <2> QED BY <2>1
<1>11. Len(text) <= n * factor
  BY <1>4, <1>5, <1>6, <1>9, <1>10, JoinedFits
<1>12. Str!Joined64(array) = Str!Cut64(text)
  BY <1>4, <1>6, <1>9, <1>10, Joined64Is
<1>13. PICK room \in Nat : room = n * factor
  BY <1>4
<1>14. Str!Take(text, room) = text
  BY <1>11, <1>13, TakeAll
<1>16. Bounded(kind, array) = text
  <2>1. PICK size : size = Len(array) * Str!Kinds[kind].factor + 1
    OBVIOUS
  <2>2. Bounded(kind, array) = Str!Take(Str!Joined(array), size - 1)
    BY <2>1 DEF Bounded
  <2>3. size - 1 = room
    BY <1>2, <1>8, <1>13, <2>1
  <2> QED BY <1>9, <1>10, <1>14, <2>2, <2>3
<1> QED BY <1>7, <1>8, <1>9, <1>10, <1>12, <1>16

LEMMA InitializeFromArrKeeps ==
  ASSUME MaxItems \in Nat, ArrayKinds \subseteq DOMAIN Str!Kinds,
         StringsInv, NEW o \in Str!Objects, Str!InitializeFromArr(o)
  PROVE  StringsInv'
<1>a. PICK kind \in ArrayKinds :
        \E array \in Str!Arrays(kind) :
          \/ Str!Leave(o, Str!Held(Bounded(kind, array)), Str!Joined64(array), TRUE, FALSE, array)
          \/ \E d \in {dynamic[o], Str!NullString} : Str!Leave(o, d, Str!Joined64(array), TRUE, TRUE, <<>>)
  BY DEF Str!InitializeFromArr, Bounded
<1>1. PICK array \in Str!Arrays(kind) :
        \/ Str!Leave(o, Str!Held(Bounded(kind, array)), Str!Joined64(array), TRUE, FALSE, array)
        \/ \E d \in {dynamic[o], Str!NullString} : Str!Leave(o, d, Str!Joined64(array), TRUE, TRUE, <<>>)
  BY <1>a
<1>2. PICK text \in Seq(Int) :
        /\ text = Str!Joined(array) /\ Printable(array) /\ Str!Joined64(array) = Str!Cut64(text)
        /\ Bounded(kind, array) = text
  BY ArrayIs
<1>3. PICK f : f = Str!Cut64(text)
  OBVIOUS
<1>4. FixedWell(f) /\ f.text = Str!Take(text, 63)
  BY <1>3, CutIs
<1>5. HeldWell(Str!Held(text)) /\ Shared(Str!Held(text), f) /\ Written(Str!Held(text), array)
  BY <1>2, <1>4, HeldIs DEF Shared, Written
<1>6. CASE Str!Leave(o, Str!Held(text), f, TRUE, FALSE, array)
  BY <1>4, <1>5, <1>6, LeaveWhole
<1>7. ASSUME NEW d \in {dynamic[o], Str!NullString}, Str!Leave(o, d, f, TRUE, TRUE, <<>>) PROVE StringsInv'
  <2>1. HeldWell(d)
    BY NullIs DEF StringsInv
  <2> QED BY <1>4, <1>7, <2>1, LeaveFailed
<1> QED BY <1>1, <1>2, <1>3, <1>6, <1>7

LEMMA NextStringsInv ==
  ASSUME MaxItems \in Nat, ArrayKinds \subseteq DOMAIN Str!Kinds, Pieces \subseteq Seq(Int), Lengths \subseteq Nat,
         StringsInv, [Str!Next]_(Str!stringVars)
  PROVE  StringsInv'
<1>1. CASE UNCHANGED Str!stringVars
  BY <1>1 DEF Str!stringVars, StringsInv
<1>2. ASSUME NEW o \in Str!Objects, NEW text \in Pieces, Str!Assign(o, text) \/ Str!StrAppend(o, text)
      PROVE  StringsInv'
  BY <1>2, AssignKeeps, StrAppendKeeps
<1>3. ASSUME NEW o \in Str!Objects, Str!Drop(o) \/ Str!Clear(o) \/ Str!InitializeFromArr(o) PROVE StringsInv'
  BY <1>3, DropKeeps, ClearKeeps, InitializeFromArrKeeps
<1>4. ASSUME NEW o \in Str!Objects, NEW from \in Str!Objects, Str!Copy(o, from) PROVE StringsInv'
  BY <1>4, CopyKeeps
<1>5. ASSUME NEW o \in Str!Objects, NEW n \in Lengths, Str!Resize(o, n) PROVE StringsInv'
  BY <1>5, ResizeKeeps
<1> QED BY <1>1, <1>2, <1>3, <1>4, <1>5 DEF Str!Next

LEMMA InitStringsInv == Str!Init => StringsInv
<1>1. <<>> \in Seq(Int) /\ Len(<<>>) = 0
  BY EmptySeq
<1>2. Str!Take(<<>>, 63) = <<>>
  <2>1. PICK all \in Nat, none \in Seq(Int) : all = 63 /\ none = <<>>
    BY <1>1
  <2>2. Len(none) <= all
    BY <1>1, <2>1
  <2>3. Str!Take(none, all) = none
    BY <2>2, TakeAll
  <2> QED BY <2>1, <2>3
<1> SUFFICES ASSUME Str!Init PROVE StringsInv
  OBVIOUS
<1>3. HeldWell(Str!NullString) /\ Str!NullString.text = <<>>
  BY NullIs
<1>4. FixedWell([text |-> <<>>, Length |-> 0])
  BY <1>1 DEF FixedWell
<1> QED BY <1>2, <1>3, <1>4 DEF Str!Init, StringsInv, Shared

(* What the invariant says of reading: an array that was printed is found    *)
(* again, by CString in its text, by CString64 in the same text if it fits.  *)
LEMMA StringsInvImplies ==
  ASSUME MaxItems \in Nat, StringsInv
  PROVE  StringsAgree
<1> SUFFICES ASSUME NEW o \in Str!Objects
             PROVE  LET d == dynamic[o]  f == fixed[o] IN
                    /\ d.Length = Len(d.text) /\ f.Length = Len(f.text) /\ f.Length < 64
                    /\ alike[o] => /\ f.text = Str!Take(d.text, 64 - 1)
                                   /\ Str!StrIsEmpty(d) <=> Str!Str64IsEmpty(f)
                    /\ items[o] # <<>> =>
                         /\ Str!StrConvertToArr(d) = items[o]
                         /\ Len(Str!Joined(items[o])) < 64 => Str!Str64ConvertToArr(f) = items[o]
  BY DEF StringsAgree, Str!StringsAgree, Str!Buffer
<1>1. PICK d, f : d = dynamic[o] /\ f = fixed[o]
  OBVIOUS
<1>2. /\ HeldWell(d) /\ FixedWell(f) /\ (alike[o] => Shared(d, f))
      /\ items[o] # <<>> => alike[o] /\ Written(d, items[o])
  BY <1>1 DEF StringsInv
<1>3. d.Length = Len(d.text) /\ f.Length = Len(f.text) /\ f.Length < 64
  BY <1>2 DEF HeldWell, FixedWell
<1>4. PICK a, b \in Seq(Int) : a = d.text /\ b = f.text
  BY <1>2 DEF HeldWell, FixedWell
<1>5. PICK all \in Nat : all = 63
  OBVIOUS
<1>6. ASSUME alike[o] PROVE f.text = Str!Take(d.text, 64 - 1)
  BY <1>2, <1>6 DEF Shared
<1>7. ASSUME alike[o] PROVE Str!StrIsEmpty(d) <=> Str!Str64IsEmpty(f)
  <2>1. b = Str!Take(a, all)
    BY <1>4, <1>5, <1>6, <1>7
  <2>2. Len(b) = Lesser(all, Len(a)) /\ Len(a) \in Nat
    BY <2>1, TakeIs, LenProperties
  <2>3. Len(b) = 0 <=> Len(a) = 0
    BY <1>5, <2>2 DEF Lesser
  <2>4. d.null => Len(a) = 0
    BY <1>2, <1>4, EmptySeq DEF HeldWell
  <2> QED BY <1>3, <1>4, <2>3, <2>4 DEF Str!StrIsEmpty, Str!Str64IsEmpty
<1>8. ASSUME items[o] # <<>>
      PROVE  /\ Str!StrConvertToArr(d) = items[o]
             /\ Len(Str!Joined(items[o])) < 64 => Str!Str64ConvertToArr(f) = items[o]
  <2>1. PICK array : array = items[o]
    OBVIOUS
  <2>2. alike[o] /\ Printable(array) /\ ~d.null /\ a = Str!Joined(array)
    BY <1>2, <1>4, <1>8, <2>1 DEF Written
  <2>3. PICK n \in Nat \ {0} :
          n <= MaxItems /\ array \in [1..n -> Seq(Int)] /\ \A i \in 1..n : Len(array[i]) > 0 /\ Digits(array[i])
    BY <2>2 DEF Printable
  <2>4. PICK J \in [0..n -> Seq(Int)] : PrintedSteps(array, n, J) /\ Str!Joined(array) = J[n]
    BY <2>3, JoinedIs
  <2>5. Str!Converted(J[n], MaxItems) = array
    BY <2>3, <2>4, ReadBack
  <2>6. Str!Converted(a, MaxItems) = array
    BY <2>2, <2>4, <2>5
  <2>7. Str!StrConvertToArr(d) = array
    BY <1>4, <2>2, <2>6 DEF Str!StrConvertToArr
  <2>8. ASSUME Len(a) < 64 PROVE Str!Str64ConvertToArr(f) = array
    <3>1. Len(a) <= all
      BY <1>5, <2>8, LenProperties
    <3>2. Str!Take(a, all) = a
      BY <3>1, TakeAll
    <3>3. b = a
      BY <1>4, <1>5, <1>6, <2>2, <3>2
    <3> QED BY <1>4, <2>6, <3>3 DEF Str!Str64ConvertToArr
  <2> QED BY <2>1, <2>2, <2>7, <2>8
<1> QED BY <1>1, <1>3, <1>6, <1>7, <1>8

LEMMA StringsSteps == ASSUME [Next]_vars PROVE [Str!Next]_(Str!stringVars)
BY DEF Next, vars, stringVars, Str!stringVars, spiVars, rangingVars, dequeVars, frameVars, scalingVars, addressVars

(* For any texts and lengths, arrays of any of the eight element types and   *)
(* any length, any mallocs that fail and any order of calls: the two string  *)
(* libraries count their text right, hold the same text up to 63 characters, *)
(* and read an array back as it was written (CString64.c:126, 266,           *)
(* CString.c:323).                                                           *)
THEOREM StringsAreAlike == Spec => []StringsAgree
<1>1. Init => StringsInv
  BY InitStringsInv DEF Init
<1>2. StringsInv /\ [Next]_vars => StringsInv'
  BY PiecesAreTexts, StringsSteps, NextStringsInv
<1>3. StringsInv => StringsAgree
  BY PiecesAreTexts, StringsInvImplies
<1> QED BY <1>1, <1>2, <1>3, PTL DEF Spec

-----------------------------------------------------------------------------
(* Frames.  A byte and its bits.                                             *)
LEMMA WeightsAre ==
  /\ Wire!Weight[0 + 1] = 1 /\ Wire!Weight[1 + 1] = 2 /\ Wire!Weight[2 + 1] = 4 /\ Wire!Weight[3 + 1] = 8
  /\ Wire!Weight[4 + 1] = 16 /\ Wire!Weight[5 + 1] = 32 /\ Wire!Weight[6 + 1] = 64 /\ Wire!Weight[7 + 1] = 128
BY DEF Wire!Weight

LEMMA HalvesAre ==
  ASSUME NEW n \in 0..255
  PROVE  n = (n % 2) + 2 * ((n \div 2) % 2) + 4 * ((n \div 4) % 2) + 8 * ((n \div 8) % 2)
             + 16 * ((n \div 16) % 2) + 32 * ((n \div 32) % 2) + 64 * ((n \div 64) % 2) + 128 * ((n \div 128) % 2)
OBVIOUS

Sum(a, b, c, d, e, f, g, h) == a + 2 * b + 4 * c + 8 * d + 16 * e + 32 * f + 64 * g + 128 * h

Shows8(n, a, b, c, d, e, f, g, h) ==
  /\ n % 2 = a /\ (n \div 2) % 2 = b /\ (n \div 4) % 2 = c /\ (n \div 8) % 2 = d
  /\ (n \div 16) % 2 = e /\ (n \div 32) % 2 = f /\ (n \div 64) % 2 = g /\ (n \div 128) % 2 = h

LEMMA BitsOfSum ==
  ASSUME NEW a \in 0..1, NEW b \in 0..1, NEW c \in 0..1, NEW d \in 0..1,
         NEW e \in 0..1, NEW f \in 0..1, NEW g \in 0..1, NEW h \in 0..1
  PROVE  /\ Sum(a, b, c, d, e, f, g, h) \in 0..255
         /\ Shows8(Sum(a, b, c, d, e, f, g, h), a, b, c, d, e, f, g, h)
BY DEF Sum, Shows8

BitIn(bits, b) == IF b \in bits THEN 1 ELSE 0

LEMMA ByteIsSum ==
  ASSUME NEW bits
  PROVE  Wire!ByteOf(bits) = Sum(BitIn(bits, 0), BitIn(bits, 1), BitIn(bits, 2), BitIn(bits, 3),
                                 BitIn(bits, 4), BitIn(bits, 5), BitIn(bits, 6), BitIn(bits, 7))
BY WeightsAre DEF Wire!ByteOf, Sum, BitIn

LEMMA BitsIn == ASSUME NEW n \in 0..255 PROVE Wire!Bits[n] \subseteq 0..7
BY DEF Wire!Bits

LEMMA BitsAre ==
  ASSUME NEW n \in 0..255, NEW b \in 0..7
  PROVE  BitIn(Wire!Bits[n], b) = (n \div Wire!Weight[b + 1]) % 2
<1>1. b \in Wire!Bits[n] <=> (n \div Wire!Weight[b + 1]) % 2 = 1
  BY DEF Wire!Bits
<1>2. PICK w \in Nat \ {0} : w = Wire!Weight[b + 1]
  BY WeightsAre
<1>3. (n \div w) % 2 \in {0, 1}
  OBVIOUS
<1> QED BY <1>1, <1>2, <1>3 DEF BitIn

LEMMA EightBits ==
  ASSUME NEW n \in 0..255
  PROVE  /\ BitIn(Wire!Bits[n], 0) = n % 2 /\ BitIn(Wire!Bits[n], 1) = (n \div 2) % 2
         /\ BitIn(Wire!Bits[n], 2) = (n \div 4) % 2 /\ BitIn(Wire!Bits[n], 3) = (n \div 8) % 2
         /\ BitIn(Wire!Bits[n], 4) = (n \div 16) % 2 /\ BitIn(Wire!Bits[n], 5) = (n \div 32) % 2
         /\ BitIn(Wire!Bits[n], 6) = (n \div 64) % 2 /\ BitIn(Wire!Bits[n], 7) = (n \div 128) % 2
<1>1. \A b \in 0..7 : BitIn(Wire!Bits[n], b) = (n \div Wire!Weight[b + 1]) % 2
  BY BitsAre, Zenon
<1>2. \A z \in Int : z \div 1 = z
  OBVIOUS
<1>3. n \in Int
  OBVIOUS
<1> QED BY <1>1, <1>2, <1>3, WeightsAre

(* A byte is its bits.                                                       *)
LEMMA ByteType == ASSUME NEW bits PROVE Wire!ByteOf(bits) \in 0..255
<1>1. \A b : BitIn(bits, b) \in 0..1
  BY DEF BitIn
<1> QED BY <1>1, ByteIsSum, BitsOfSum, Zenon

LEMMA BitsOfByte ==
  ASSUME NEW bits
  PROVE  Wire!Bits[Wire!ByteOf(bits)] = bits \cap 0..7
<1>1. PICK n \in 0..255 : n = Wire!ByteOf(bits)
  BY ByteType
<1>2. \A b : BitIn(bits, b) \in 0..1 /\ (BitIn(bits, b) = 1 <=> b \in bits)
  BY DEF BitIn
<1>3. /\ n % 2 = BitIn(bits, 0) /\ (n \div 2) % 2 = BitIn(bits, 1)
      /\ (n \div 4) % 2 = BitIn(bits, 2) /\ (n \div 8) % 2 = BitIn(bits, 3)
      /\ (n \div 16) % 2 = BitIn(bits, 4) /\ (n \div 32) % 2 = BitIn(bits, 5)
      /\ (n \div 64) % 2 = BitIn(bits, 6) /\ (n \div 128) % 2 = BitIn(bits, 7)
  <2>1. PICK a, b, c, d, e, f, g, h \in 0..1 :
          /\ a = BitIn(bits, 0) /\ b = BitIn(bits, 1) /\ c = BitIn(bits, 2) /\ d = BitIn(bits, 3)
          /\ e = BitIn(bits, 4) /\ f = BitIn(bits, 5) /\ g = BitIn(bits, 6) /\ h = BitIn(bits, 7)
    BY <1>2
  <2>2. n = Sum(a, b, c, d, e, f, g, h)
    BY <1>1, <2>1, ByteIsSum, Zenon
  <2>3. Shows8(n, a, b, c, d, e, f, g, h)
    BY <2>2, BitsOfSum, Zenon
  <2> QED BY <2>1, <2>3 DEF Shows8
<1>4. \A b \in {0, 1, 2, 3, 4, 5, 6, 7} : b \in Wire!Bits[n] <=> b \in bits
  <2>1. /\ BitIn(Wire!Bits[n], 0) = BitIn(bits, 0) /\ BitIn(Wire!Bits[n], 1) = BitIn(bits, 1)
        /\ BitIn(Wire!Bits[n], 2) = BitIn(bits, 2) /\ BitIn(Wire!Bits[n], 3) = BitIn(bits, 3)
        /\ BitIn(Wire!Bits[n], 4) = BitIn(bits, 4) /\ BitIn(Wire!Bits[n], 5) = BitIn(bits, 5)
        /\ BitIn(Wire!Bits[n], 6) = BitIn(bits, 6) /\ BitIn(Wire!Bits[n], 7) = BitIn(bits, 7)
    BY <1>3, EightBits, Zenon
  <2>2. \A X, b : BitIn(X, b) = 1 <=> b \in X
    BY DEF BitIn
  <2> QED BY <2>1, <2>2
<1>5. 0..7 = {0, 1, 2, 3, 4, 5, 6, 7}
  OBVIOUS
<1>6. Wire!Bits[n] \subseteq 0..7
  BY BitsIn
<1> QED BY <1>1, <1>4, <1>5, <1>6

LEMMA ByteOfBits ==
  ASSUME NEW n \in 0..255
  PROVE  Wire!ByteOf(Wire!Bits[n]) = n
<1>1. Wire!ByteOf(Wire!Bits[n]) =
        Sum(n % 2, (n \div 2) % 2, (n \div 4) % 2, (n \div 8) % 2, (n \div 16) % 2,
            (n \div 32) % 2, (n \div 64) % 2, (n \div 128) % 2)
  BY EightBits, ByteIsSum
<1> QED BY <1>1, HalvesAre DEF Sum

LEMMA SameBits ==
  ASSUME NEW m \in 0..255, NEW n \in 0..255, Wire!Bits[m] = Wire!Bits[n]
  PROVE  m = n
BY ByteOfBits

(* A byte of which some bits change is another.                              *)
LEMMA ChangedByte ==
  ASSUME NEW n \in 0..255, NEW bits \in SUBSET (0..7)
  PROVE  /\ Wire!ByteOf(Wire!Xor(Wire!Bits[n], bits)) \in 0..255
         /\ Wire!ByteOf(Wire!Xor(Wire!Bits[n], bits)) = n <=> bits = {}
<1>1. PICK m \in 0..255 : m = Wire!ByteOf(Wire!Xor(Wire!Bits[n], bits))
  BY ByteType
<1>2. Wire!Bits[n] \subseteq 0..7
  BY BitsIn
<1>3. Wire!Bits[m] = Wire!Xor(Wire!Bits[n], bits) \cap 0..7
  BY <1>1, BitsOfByte
<1>4. Wire!Bits[m] = Wire!Xor(Wire!Bits[n], bits)
  BY <1>2, <1>3 DEF Wire!Xor
<1>5. Wire!Bits[m] = Wire!Bits[n] <=> bits = {}
  BY <1>4 DEF Wire!Xor
<1> QED BY <1>1, <1>5, SameBits, Zenon

Bytes8 == [1..8 -> 0..255]

(* What is signed comes out a permutation of its bits.                       *)
Mixed(challenge) ==
  [i \in 1..8 |-> Wire!ByteOf(Wire!Xor(Wire!Bits[challenge[i]], Wire!Bits[Wire!CoreKey[((i - 1) % 4) + 1]]))]
MixedBit(challenge, n) == n % 8 \in Wire!Bits[Mixed(challenge)[n \div 8 + 1]]

LEMMA MACType == ASSUME NEW c PROVE Wire!MAC(c) \in Bytes8
BY ByteType, Zenon DEF Wire!MAC, Bytes8

LEMMA MACBits ==
  ASSUME NEW c, NEW i \in 1..8, NEW b \in 0..7
  PROVE  b \in Wire!Bits[Wire!MAC(c)[i]] <=> MixedBit(c, (8 * (i - 1) + b - 13) % 64)
<1> DEFINE On == {x \in 0..7 : (IF ((8 * (i - 1) + x - 13) % 64) % 8 \in Wire!Bits[Mixed(c)[((8 * (i - 1) + x - 13) % 64) \div 8 + 1]]
                                THEN 1 ELSE 0) = 1}
<1>1. Wire!MAC(c)[i] = Wire!ByteOf(On)
  BY Zenon DEF Wire!MAC, Mixed
<1>2. b \in On <=> MixedBit(c, (8 * (i - 1) + b - 13) % 64)
  BY DEF MixedBit
<1>3. On \subseteq 0..7
  OBVIOUS
<1> HIDE DEF On
<1>4. Wire!Bits[Wire!ByteOf(On)] = On \cap 0..7
  BY BitsOfByte
<1> QED BY <1>1, <1>2, <1>4, Zenon

LEMMA PlaceOf ==
  ASSUME NEW i \in 1..8, NEW b \in 0..7
  PROVE  \E j \in 1..8, k \in 0..7 :
           (8 * (j - 1) + k - 13) % 64 = 8 * (i - 1) + b
<1>1. PICK n \in 0..63 : n = 8 * (i - 1) + b
  OBVIOUS
<1>2. PICK m \in 0..63 : m = (n + 13) % 64
  OBVIOUS
<1>3. (m - 13) % 64 = n
  BY <1>2
<1>4. PICK j \in 1..8, k \in 0..7 : m = 8 * (j - 1) + k
  <2>a. m \div 8 \in 0..7
    OBVIOUS
  <2>b. m % 8 \in 0..7
    OBVIOUS
  <2>c. m = (m % 8) + 8 * (m \div 8)
    OBVIOUS
  <2>1. m \div 8 \in 0..7 /\ m % 8 \in 0..7 /\ m = (m % 8) + 8 * (m \div 8)
    BY <2>a, <2>b, <2>c
  <2>2. PICK q, k \in 0..7 : m = k + 8 * q
    BY <2>1
  <2>3. PICK j \in 1..8 : j = q + 1 /\ j - 1 = q
    OBVIOUS
  <2> QED BY <2>2, <2>3
<1>5. (8 * (j - 1) + k - 13) % 64 = 8 * (i - 1) + b
  BY <1>1, <1>3, <1>4
<1> QED BY <1>5

LEMMA MixedBitAt ==
  ASSUME NEW c, NEW i \in 1..8, NEW b \in 0..7
  PROVE  MixedBit(c, 8 * (i - 1) + b) <=> b \in Wire!Bits[Mixed(c)[i]]
<1>1. PICK n \in Nat : n = 8 * (i - 1) + b
  OBVIOUS
<1>2. n % 8 = b /\ n \div 8 + 1 = i
  BY <1>1
<1> QED BY <1>1, <1>2 DEF MixedBit

(* So no two challenges have the same signature.                             *)
LEMMA MACsDiffer ==
  ASSUME NEW c \in Bytes8, NEW d \in Bytes8, Wire!MAC(c) = Wire!MAC(d)
  PROVE  c = d
<1>1. ASSUME NEW i \in 1..8, NEW b \in 0..7
      PROVE  MixedBit(c, (8 * (i - 1) + b - 13) % 64) <=> MixedBit(d, (8 * (i - 1) + b - 13) % 64)
  BY MACBits
<1>2. ASSUME NEW i \in 1..8, NEW b \in 0..7
      PROVE  b \in Wire!Bits[Mixed(c)[i]] <=> b \in Wire!Bits[Mixed(d)[i]]
  <2>1. PICK j \in 1..8, k \in 0..7 : (8 * (j - 1) + k - 13) % 64 = 8 * (i - 1) + b
    BY PlaceOf
  <2>2. MixedBit(c, 8 * (i - 1) + b) <=> MixedBit(d, 8 * (i - 1) + b)
    BY <1>1, <2>1, Zenon
  <2> QED BY <2>2, MixedBitAt
<1>3. ASSUME NEW i \in 1..8 PROVE c[i] = d[i]
  <2> DEFINE key == Wire!Bits[Wire!CoreKey[((i - 1) % 4) + 1]]
  <2>1. Mixed(c)[i] = Wire!ByteOf(Wire!Xor(Wire!Bits[c[i]], key)) /\ Mixed(d)[i] = Wire!ByteOf(Wire!Xor(Wire!Bits[d[i]], key))
    BY DEF Mixed
  <2> HIDE DEF key
  <2>2. /\ Wire!Bits[Mixed(c)[i]] = Wire!Xor(Wire!Bits[c[i]], key) \cap 0..7
        /\ Wire!Bits[Mixed(d)[i]] = Wire!Xor(Wire!Bits[d[i]], key) \cap 0..7
    BY <2>1, BitsOfByte
  <2>3. Wire!Bits[Mixed(c)[i]] = Wire!Bits[Mixed(d)[i]]
    <3>1. Wire!Bits[Mixed(c)[i]] \subseteq 0..7 /\ Wire!Bits[Mixed(d)[i]] \subseteq 0..7
      BY <2>2
    <3> QED BY <1>2, <3>1
  <2>4. c[i] \in 0..255 /\ d[i] \in 0..255
    BY DEF Bytes8
  <2>5. Wire!Bits[c[i]] \subseteq 0..7 /\ Wire!Bits[d[i]] \subseteq 0..7
    <3>1. \A x \in 0..255 : Wire!Bits[x] \subseteq 0..7
      BY DEF Wire!Bits
    <3> QED BY <2>4, <3>1
  <2>6. Wire!Bits[c[i]] = Wire!Bits[d[i]]
    BY <2>2, <2>3, <2>5 DEF Wire!Xor
  <2> QED BY <2>4, <2>6, SameBits, Zenon
<1> QED BY <1>3 DEF Bytes8

(* The sums that the checksum goes through.                                  *)
Octets(n) == [1..n -> 0..255]
Totals(d, n, t) == t \in [0..n -> Int] /\ t[0] = 0 /\ \A i \in 1..n : t[i] = t[i - 1] + d[i]
Folded(sum) == 65535 - (IF sum > 65535 THEN (sum % 65536) + (sum \div 65536) ELSE sum)

LEMMA OctetIs == ASSUME NEW n \in Nat, NEW d \in Octets(n), NEW i \in 1..n PROVE d[i] \in 0..255 /\ d[i] \in Int
<1>1. d[i] \in 0..255
  BY DEF Octets
<1>2. \A x \in 0..255 : x \in Int
  OBVIOUS
<1> QED BY <1>1, <1>2

LEMMA ChecksumIs ==
  ASSUME NEW n \in Nat, NEW d \in Octets(n)
  PROVE  \E t : Totals(d, n, t) /\ Wire!Checksum16(d) = Folded(t[n])
<1> DEFINE Step(f) == [i \in 0..Len(d) |-> IF i = 0 THEN 0 ELSE f[i - 1] + d[i]]
           result == CHOOSE f : f = Step(f)
<1>1. Len(d) = n
  BY FunctionIsSequence DEF Octets
<1>2. \E f : f = Step(f)
  <2> DEFINE G == [q \in (1..n) \X Int |-> q[2] + d[q[1]]]
             prev == [i \in 1..n |-> i - 1]
             V == Int
  <2>1. G \in [(1..n) \X V -> V]
    <3>1. \A i \in 1..n, v \in Int : v + d[i] \in Int
      <4>1. \A i \in 1..n : d[i] \in Int
        BY OctetIs
      <4> QED BY <4>1
    <3> QED BY <3>1
  <2>2. Earlier(prev, n)
    BY DEF Earlier
  <2>3. 0 \in V
    OBVIOUS
  <2> HIDE DEF G, prev, V
  <2>a. PICK f : Steps(f, n, V, 0, prev, G)
    BY <2>1, <2>2, <2>3, Recursion
  <2>4. f \in [0..n -> V] /\ f[0] = 0 /\ \A i \in 1..n : f[i] = G[<<i, f[prev[i]]>>]
    BY <2>a DEF Steps
  <2>5. ASSUME NEW i \in 1..n PROVE f[i] = f[i - 1] + d[i]
    <3>1. prev[i] = i - 1 /\ f[i - 1] \in Int
      <4>1. prev[i] = i - 1
        BY DEF prev
      <4>2. i - 1 \in 0..n
        OBVIOUS
      <4> QED BY <2>4, <4>1, <4>2 DEF V
    <3>2. G[<<i, f[i - 1]>>] = f[i - 1] + d[i]
      BY <3>1 DEF G
    <3> QED BY <2>4, <3>1, <3>2
  <2>6. f = Step(f)
    <3>1. ASSUME NEW i \in 0..n PROVE f[i] = IF i = 0 THEN 0 ELSE f[i - 1] + d[i]
      <4>1. CASE i = 0
        BY <2>4, <4>1
      <4>2. CASE i # 0
        <5>1. i \in 1..n
          BY <4>2
        <5> QED BY <2>5, <4>2, <5>1
      <4> QED BY <4>1, <4>2
    <3>2. f = [i \in 0..n |-> IF i = 0 THEN 0 ELSE f[i - 1] + d[i]]
      BY <2>4, <3>1
    <3> QED BY <1>1, <3>2
  <2> QED BY <2>6
<1>3. result = Step(result)
  BY <1>2
<1>4. Wire!Checksum16(d) = Folded(result[Len(d)])
  BY DEF Wire!Checksum16, Folded
<1> HIDE DEF result
<1>5. DOMAIN result = 0..n /\ result[0] = 0 /\ \A i \in 1..n : result[i] = result[i - 1] + d[i]
  <2>1. /\ DOMAIN Step(result) = 0..n /\ Step(result)[0] = 0
        /\ \A i \in 1..n : Step(result)[i] = result[i - 1] + d[i]
    BY <1>1
  <2> HIDE DEF Step
  <2> QED BY <1>3, <2>1
<1>6. \A i \in 0..n : result[i] \in Int
  <2> DEFINE S == {i \in Nat : i <= n => result[i] \in Int}
  <2>1. 0 \in S
    BY <1>5
  <2>2. ASSUME NEW i \in Nat, i \in S PROVE i + 1 \in S
    <3>1. SUFFICES ASSUME i + 1 <= n PROVE result[i + 1] \in Int
      OBVIOUS
    <3>2. PICK q \in 1..n : q = i + 1 /\ q - 1 = i
      BY <3>1
    <3>3. result[q] = result[q - 1] + d[q] /\ d[q] \in Int
      <4>1. d[q] \in Int
        BY OctetIs
      <4> QED BY <1>5, <4>1
    <3>4. result[q - 1] \in Int
      BY <2>2, <3>1, <3>2
    <3> QED BY <3>2, <3>3, <3>4
  <2>3. Nat \subseteq S
    <3> HIDE DEF S
    <3> QED BY <2>1, <2>2, Induction
  <2> QED BY <2>3
<1>7. result \in [0..n -> Int]
  <2>1. result = [i \in 0..n |-> result[i]]
    <3>1. Step(result) = [i \in 0..n |-> Step(result)[i]]
      BY <1>1
    <3> HIDE DEF Step
    <3> QED BY <1>3, <3>1
  <2> QED BY <1>6, <2>1
<1> QED BY <1>1, <1>4, <1>5, <1>7 DEF Totals

(* They stay below what needs folding in a frame, and tell a change.         *)
LEMMA TotalsBounded ==
  ASSUME NEW n \in Nat, NEW d \in Octets(n), NEW t, Totals(d, n, t)
  PROVE  t[n] \in 0..255 * n
<1> DEFINE S == {i \in Nat : i <= n => t[i] \in 0..255 * i}
<1>1. 0 \in S
  BY DEF Totals
<1>2. ASSUME NEW i \in Nat, i \in S PROVE i + 1 \in S
  <2>1. SUFFICES ASSUME i + 1 <= n PROVE t[i + 1] \in 0..255 * (i + 1)
    OBVIOUS
  <2>2. PICK q \in 1..n : q = i + 1 /\ q - 1 = i
    BY <2>1
  <2>3. t[q] = t[q - 1] + d[q] /\ d[q] \in 0..255
    BY DEF Totals, Octets
  <2>4. t[q - 1] \in 0..255 * i
    BY <1>2, <2>1, <2>2
  <2>5. t[q] \in 0..255 * (i + 1)
    BY <2>3, <2>4
  <2> QED BY <2>2, <2>5
<1>3. Nat \subseteq S
  <2> HIDE DEF S
  <2> QED BY <1>1, <1>2, Induction
<1> QED BY <1>3

LEMMA TotalsDiffer ==
  ASSUME NEW n \in Nat, NEW d \in Octets(n), NEW e \in Octets(n), NEW j \in 1..n,
         \A i \in 1..n : i # j => d[i] = e[i],
         NEW t, Totals(d, n, t), NEW u, Totals(e, n, u)
  PROVE  t[n] - u[n] = d[j] - e[j]
<1> DEFINE S == {i \in Nat : i <= n => t[i] - u[i] = IF i < j THEN 0 ELSE d[j] - e[j]}
<1>0. \A i \in 0..n : t[i] \in Int /\ u[i] \in Int
  BY DEF Totals
<1>1. 0 \in S
  BY DEF Totals
<1>2. ASSUME NEW i \in Nat, i \in S PROVE i + 1 \in S
  <2>1. SUFFICES ASSUME i + 1 <= n PROVE t[i + 1] - u[i + 1] = IF i + 1 < j THEN 0 ELSE d[j] - e[j]
    OBVIOUS
  <2>2. PICK q \in 1..n : q = i + 1 /\ q - 1 = i /\ q - 1 \in 0..n
    BY <2>1
  <2>3. t[q] = t[q - 1] + d[q] /\ u[q] = u[q - 1] + e[q]
    BY DEF Totals
  <2>4. d[q] \in Int /\ e[q] \in Int /\ d[j] \in Int /\ e[j] \in Int /\ t[q - 1] \in Int /\ u[q - 1] \in Int
    <3>1. d[q] \in Int /\ e[q] \in Int /\ d[j] \in Int /\ e[j] \in Int
      BY OctetIs
    <3> QED BY <1>0, <2>2, <3>1
  <2>5. t[q - 1] - u[q - 1] = IF q - 1 < j THEN 0 ELSE d[j] - e[j]
    BY <1>2, <2>1, <2>2
  <2>6. t[q] - u[q] = t[q - 1] - u[q - 1] + (d[q] - e[q])
    BY <2>3, <2>4
  <2>7. CASE q = j
    BY <2>2, <2>4, <2>5, <2>6, <2>7
  <2>8. CASE q # j
    <3>1. d[q] = e[q] /\ (q - 1 < j <=> q < j)
      BY <2>8
    <3> QED BY <2>2, <2>4, <2>5, <2>6, <3>1
  <2> QED BY <2>7, <2>8
<1>3. Nat \subseteq S
  <2> HIDE DEF S
  <2> QED BY <1>1, <1>2, Induction
<1> QED BY <1>3

Small(sum) == sum \in 0..8160 /\ Folded(sum) = 65535 - sum

LEMMA ChecksumFits ==
  ASSUME NEW n \in Nat, n <= 32, NEW d \in Octets(n), NEW t, Totals(d, n, t)
  PROVE  Small(t[n])
<1>1. t[n] \in 0..255 * n
  BY TotalsBounded
<1>2. PICK k \in 0..32 : k = n
  OBVIOUS
<1>3. \A x \in 0..255 * k : x \in 0..8160
  OBVIOUS
<1>4. PICK x \in 0..255 * k : t[n] = x
  BY <1>1, <1>2
<1>5. x \in 0..8160
  BY <1>3
<1>6. Folded(x) = 65535 - x
  BY <1>5 DEF Folded
<1>7. Small(x)
  BY <1>5, <1>6 DEF Small
<1> QED BY <1>4, <1>7

Words16 == {x \in Int : 0 <= x /\ x <= 65535}

LEMMA FoldedType == ASSUME NEW x, Small(x) PROVE Folded(x) \in Words16
<1>1. x \in Int /\ 0 <= x /\ x <= 8160
  BY DEF Small
<1>2. Folded(x) = 65535 - x
  BY DEF Small
<1>3. PICK y \in Int : y = 65535 - x /\ 0 <= y /\ y <= 65535
  BY <1>1
<1>4. Folded(x) = y
  BY <1>2, <1>3
<1>5. 0 <= y /\ y <= 65535
  BY <1>3
<1>6. y \in Words16
  BY <1>5 DEF Words16
<1> QED BY <1>4, <1>6

LEMMA ChecksumType ==
  ASSUME NEW n \in Nat, n <= 32, NEW d \in Octets(n)
  PROVE  Wire!Checksum16(d) \in Words16
<1>1. PICK t : Totals(d, n, t) /\ Wire!Checksum16(d) = Folded(t[n])
  BY ChecksumIs
<1>2. Small(t[n])
  BY <1>1, ChecksumFits
<1>3. ASSUME NEW x, Small(x) PROVE Folded(x) \in Words16
  BY <1>3, FoldedType
<1> QED BY <1>1, <1>2, <1>3

LEMMA ChecksumTells ==
  ASSUME NEW n \in Nat, n <= 32, NEW d \in Octets(n), NEW e \in Octets(n), NEW j \in 1..n,
         \A i \in 1..n : i # j => d[i] = e[i], d[j] # e[j]
  PROVE  Wire!Checksum16(d) # Wire!Checksum16(e)
<1>1. PICK t : Totals(d, n, t) /\ Wire!Checksum16(d) = Folded(t[n])
  BY ChecksumIs
<1>2. PICK u : Totals(e, n, u) /\ Wire!Checksum16(e) = Folded(u[n])
  BY ChecksumIs
<1>3. t[n] - u[n] = d[j] - e[j]
  BY <1>1, <1>2, TotalsDiffer
<1>4. Small(t[n])
  BY <1>1, ChecksumFits
<1>5. Small(u[n])
  BY <1>2, ChecksumFits
<1>6. d[j] \in Int /\ e[j] \in Int
  BY OctetIs
<1>7. ASSUME NEW x, Small(x), NEW y, Small(y), NEW a \in Int, NEW b \in Int, x - y = a - b, a # b
      PROVE  Folded(x) # Folded(y)
  BY <1>7 DEF Small
<1> QED BY <1>1, <1>2, <1>3, <1>4, <1>5, <1>6, <1>7

(* The fields of a body lie one after the other in its 24 bytes.             *)
FieldsLie(fields) ==
  /\ \A f \in fields : f \in (1..20) \X (1..8) /\ f[1] + f[2] <= 24
  /\ \A f, g \in fields : f # g => f[1] + f[2] <= g[1] \/ g[1] + g[2] <= f[1]

LEMMA AllFieldsLie ==
  ASSUME NEW kind \in Wire!Kinds
  PROVE  FieldsLie(Wire!Fields[kind])
<1>1. kind \in {"AuthTX", "AuthRX", "AuthFail", "KeepAlive", "HeartBeat", "EngineControl1", "EngineControl2",
                "EngineControl3", "EmergencyStop"}
  BY DEF Wire!Kinds, Wire!FrameType
<1>2. CASE kind \in {"AuthTX", "AuthRX", "AuthFail", "KeepAlive"}
  BY <1>2 DEF Wire!Fields, FieldsLie
<1>3. CASE kind \in {"EngineControl1", "EngineControl2", "EngineControl3"}
  BY <1>3 DEF Wire!Fields, FieldsLie
<1>4. CASE kind = "HeartBeat"
  BY <1>4 DEF Wire!Fields, FieldsLie
<1>5. CASE kind = "EmergencyStop"
  BY <1>5 DEF Wire!Fields, FieldsLie
<1> QED BY <1>1, <1>2, <1>3, <1>4, <1>5

LEMMA TypesAre ==
  ASSUME NEW kind \in Wire!Kinds
  PROVE  Wire!FrameType[kind] \in [1..4 -> 0..255]
BY DEF Wire!Kinds, Wire!FrameType

LEMMA TypesDiffer ==
  ASSUME NEW kind \in Wire!Kinds, NEW other \in Wire!Kinds, Wire!FrameType[kind] = Wire!FrameType[other]
  PROVE  kind = other
BY DEF Wire!Kinds, Wire!FrameType

FrameBytes == [0..39 -> 0..255]

LEMMA CoveredType ==
  ASSUME NEW f \in FrameBytes
  PROVE  Wire!Covered(f) \in Octets(32) /\ \A i \in 1..32 : Wire!Covered(f)[i] = f[i - 1]
<1>1. Wire!Covered(f) = [i \in 1..32 |-> f[i - 1]]
  BY DEF Wire!Covered, Wire!Trailer
<1>2. \A i \in 1..32 : f[i - 1] \in 0..255
  BY DEF FrameBytes
<1> QED BY <1>1, <1>2 DEF Octets

LEMMA SameCovered ==
  ASSUME NEW f, NEW g, \A i \in 0..31 : f[i] = g[i]
  PROVE  Wire!Covered(f) = Wire!Covered(g)
<1>1. \A i \in 1..32 : f[i - 1] = g[i - 1]
  OBVIOUS
<1> QED BY <1>1 DEF Wire!Covered, Wire!Trailer

CrcOf(f) == Wire!WordBytes(Wire!Xor(Wire!CRC32(Wire!Covered(f)), Wire!Word))
LastFour(f) == SubSeq([i \in 1..8 |-> f[32 + i - 1]], 5, 8)

LEMMA CrcType == ASSUME NEW f PROVE CrcOf(f) \in [1..4 -> 0..255]
BY ByteType DEF CrcOf, Wire!WordBytes

LEMMA LastFourIs ==
  ASSUME NEW f \in FrameBytes
  PROVE  LastFour(f) \in [1..4 -> 0..255] /\ \A i \in 1..4 : LastFour(f)[i] = f[35 + i]
<1> DEFINE t == [i \in 1..8 |-> f[32 + i - 1]]
<1>1. t \in [1..8 -> 0..255]
  BY DEF FrameBytes
<1>2. SubSeq(t, 5, 8) = [i \in 1..4 |-> t[i + 4]]
  <2>1. t \in Seq(0..255) /\ Len(t) = 8
    BY <1>1, FunctionIsSequence
  <2> HIDE DEF t
  <2> QED BY <2>1
<1>3. ASSUME NEW i \in 1..4 PROVE t[i + 4] = f[35 + i] /\ t[i + 4] \in 0..255
  <2>1. PICK k \in 1..8 : k = i + 4 /\ 32 + k - 1 = 35 + i
    OBVIOUS
  <2>2. t[k] = f[32 + k - 1]
    OBVIOUS
  <2> HIDE DEF t
  <2> QED BY <1>1, <2>1, <2>2
<1>4. LastFour(f) = SubSeq(t, 5, 8)
  BY DEF LastFour
<1> HIDE DEF t
<1>5. \A i \in 1..4 : LastFour(f)[i] = f[35 + i] /\ LastFour(f)[i] \in 0..255
  BY <1>2, <1>3, <1>4
<1>6. LastFour(f) = [i \in 1..4 |-> LastFour(f)[i]]
  BY <1>2, <1>4
<1> QED BY <1>5, <1>6

LEMMA Verified ==
  ASSUME NEW f \in FrameBytes
  PROVE  Wire!VerifyPacket(f) <=> /\ f[32] = 170 /\ f[35] = 170
                                  /\ f[33] + 256 * f[34] = Wire!Checksum16(Wire!Covered(f))
                                  /\ LastFour(f) = CrcOf(f)
BY DEF Wire!VerifyPacket, Wire!Trailer, Wire!Magic, LastFour, CrcOf

(* A trailer makes its frame verify, and leaves the rest of it alone.        *)
LEMMA TrailedHolds ==
  ASSUME NEW f \in FrameBytes
  PROVE  /\ Wire!Trailed(f) \in FrameBytes
         /\ \A i \in 0..31 : Wire!Trailed(f)[i] = f[i]
         /\ Wire!VerifyPacket(Wire!Trailed(f))
<1> DEFINE sum == Wire!Checksum16(Wire!Covered(f))
           tail == <<170, sum % 256, sum \div 256, 170>> \o CrcOf(f)
           g == [i \in 0..39 |-> IF i < 32 THEN f[i] ELSE tail[i - 32 + 1]]
<1>1. Wire!Trailed(f) = g
  BY DEF Wire!Trailed, Wire!Trailer, Wire!Magic, FrameBytes, CrcOf
<1>2. sum \in Words16
  <2>1. PICK n \in Nat : n = 32
    OBVIOUS
  <2>2. n <= 32 /\ Wire!Covered(f) \in Octets(n)
    BY <2>1, CoveredType
  <2> QED BY <2>2, ChecksumType
<1>3. sum % 256 \in 0..255 /\ sum \div 256 \in 0..255 /\ (sum % 256) + 256 * (sum \div 256) = sum
  <2> HIDE DEF sum
  <2>1. sum \in Int /\ 0 <= sum /\ sum <= 65535
    BY <1>2 DEF Words16
  <2>2. sum % 256 \in Int /\ 0 <= sum % 256 /\ sum % 256 <= 255
    BY <2>1
  <2>3. sum \div 256 \in Int /\ 0 <= sum \div 256 /\ sum \div 256 <= 255
    BY <2>1
  <2>4. (sum % 256) + 256 * (sum \div 256) = sum
    BY <2>1
  <2>5. \A z \in Int : 0 <= z /\ z <= 255 => z \in 0..255
    OBVIOUS
  <2>6. sum % 256 \in 0..255
    BY <2>2, <2>5
  <2>7. sum \div 256 \in 0..255
    BY <2>3, <2>5
  <2> QED BY <2>4, <2>6, <2>7
<1>4. tail[1] = 170 /\ tail[2] = sum % 256 /\ tail[3] = sum \div 256 /\ tail[4] = 170
      /\ tail[5] = CrcOf(f)[1] /\ tail[6] = CrcOf(f)[2] /\ tail[7] = CrcOf(f)[3] /\ tail[8] = CrcOf(f)[4]
  <2> HIDE DEF sum
  <2>1. PICK c \in [1..4 -> 0..255] : c = CrcOf(f)
    BY CrcType
  <2>2. c \in Seq(Int) /\ Len(c) = 4
    <3>1. c \in [1..4 -> Int]
      OBVIOUS
    <3> QED BY <3>1, FunctionIsSequence
  <2>a. sum % 256 \in Int /\ sum \div 256 \in Int
    <3>1. sum \in Int
      BY <1>2 DEF Words16
    <3> HIDE DEF sum
    <3> QED BY <3>1
  <2>3. PICK a, b \in Int : a = sum % 256 /\ b = sum \div 256
    BY <2>a
  <2>4. <<170, a, b, 170>> \in Seq(Int) /\ Len(<<170, a, b, 170>>) = 4
    OBVIOUS
  <2>5. \A i \in 1..4 : (<<170, a, b, 170>> \o c)[i] = <<170, a, b, 170>>[i]
    BY <2>2, <2>4
  <2>b. \A k \in 5..8 : (<<170, a, b, 170>> \o c)[k] = c[k - 4]
    <3>1. PICK s : s = <<170, a, b, 170>>
      OBVIOUS
    <3>2. \A k \in 1..Len(s) + Len(c) : (s \o c)[k] = IF k <= Len(s) THEN s[k] ELSE c[k - Len(s)]
      BY <2>2, <2>4, <3>1, ConcatProperties
    <3>3. Len(s) = 4 /\ Len(c) = 4
      BY <2>2, <2>4, <3>1
    <3>4. \A k \in 5..8 : (s \o c)[k] = c[k - 4]
      <4>1. \A k \in 5..8 : k \in 1..8 /\ ~(k <= 4)
        OBVIOUS
      <4>2. \A k \in 1..8 : (s \o c)[k] = IF k <= 4 THEN s[k] ELSE c[k - 4]
        <5>1. 1..Len(s) + Len(c) = 1..8
          BY <3>3
        <5> QED BY <3>2, <3>3, <5>1
      <4> QED BY <4>1, <4>2
    <3> QED BY <3>1, <3>4
  <2>6. \A i \in 1..4 : (<<170, a, b, 170>> \o c)[4 + i] = c[i]
    <3>1. \A i \in 1..4 : 4 + i \in 5..8 /\ (4 + i) - 4 = i
      OBVIOUS
    <3> QED BY <2>b, <3>1
  <2>7. \A i \in {1, 2, 3, 4} : tail[i] = <<170, a, b, 170>>[i] /\ tail[4 + i] = c[i]
    <3>1. tail = <<170, a, b, 170>> \o c
      BY <2>1, <2>3
    <3>2. 1..4 = {1, 2, 3, 4}
      OBVIOUS
    <3> HIDE DEF tail
    <3> QED BY <2>5, <2>6, <3>1, <3>2
  <2> HIDE DEF tail
  <2> QED BY <2>1, <2>3, <2>7
<1>5. \A i \in 1..4 : CrcOf(f)[i] \in 0..255
  BY CrcType
<1> HIDE DEF sum, tail
<1>6. g \in FrameBytes
  <2>1. ASSUME NEW i \in 0..39 PROVE g[i] \in 0..255
    <3>1. CASE i < 32
      BY <3>1, Zenon DEF FrameBytes
    <3>2. CASE i \in {32, 33, 34, 35, 36, 37, 38, 39}
      BY <1>3, <1>4, <1>5, <3>2
    <3>3. i < 32 \/ i \in {32, 33, 34, 35, 36, 37, 38, 39}
      OBVIOUS
    <3> QED BY <3>1, <3>2, <3>3, Zenon
  <2> QED BY <2>1 DEF FrameBytes
<1>7. \A i \in 0..31 : g[i] = f[i]
  OBVIOUS
<1>8. g[32] = 170 /\ g[33] = sum % 256 /\ g[34] = sum \div 256 /\ g[35] = 170
  BY <1>4
<1>9. \A i \in 1..4 : g[35 + i] = CrcOf(f)[i]
  <2>1. \A i \in {1, 2, 3, 4} : g[35 + i] = CrcOf(f)[i]
    BY <1>4
  <2>2. 1..4 = {1, 2, 3, 4}
    OBVIOUS
  <2> QED BY <2>1, <2>2
<1> HIDE DEF g
<1>10. Wire!Covered(g) = Wire!Covered(f)
  BY <1>7, SameCovered
<1>11. CrcOf(g) = CrcOf(f)
  BY <1>10 DEF CrcOf
<1>12. LastFour(g) = CrcOf(g)
  BY <1>6, <1>9, <1>11, LastFourIs, CrcType
<1>13. g[33] + 256 * g[34] = Wire!Checksum16(Wire!Covered(g))
  BY <1>3, <1>8, <1>10 DEF sum
<1> QED BY <1>1, <1>6, <1>7, <1>8, <1>12, <1>13, Verified

(* Of two frames that differ in one byte, at most one verifies.              *)
LEMMA OneByteTells ==
  ASSUME NEW f \in FrameBytes, NEW g \in FrameBytes, NEW j \in 0..39,
         \A i \in 0..39 : i # j => f[i] = g[i],
         Wire!VerifyPacket(f), Wire!VerifyPacket(g)
  PROVE  f[j] = g[j]
<1>1. /\ f[32] = 170 /\ f[35] = 170 /\ LastFour(f) = CrcOf(f)
      /\ f[33] + 256 * f[34] = Wire!Checksum16(Wire!Covered(f))
  BY Verified
<1>2. /\ g[32] = 170 /\ g[35] = 170 /\ LastFour(g) = CrcOf(g)
      /\ g[33] + 256 * g[34] = Wire!Checksum16(Wire!Covered(g))
  BY Verified
<1>3. CASE j \in 0..31
  <2>1. SUFFICES ASSUME f[j] # g[j] PROVE FALSE
    OBVIOUS
  <2>2. f[33] = g[33] /\ f[34] = g[34]
    BY <1>3
  <2>3. PICK k \in 1..32 : k = j + 1 /\ k - 1 = j
    BY <1>3
  <2>4. \A i \in 1..32 : i # k => Wire!Covered(f)[i] = Wire!Covered(g)[i]
    <3>1. \A i \in 1..32 : i - 1 \in 0..39 /\ (i # k => i - 1 # j)
      BY <2>3
    <3> QED BY <3>1, CoveredType
  <2>5. Wire!Covered(f)[k] # Wire!Covered(g)[k]
    BY <2>1, <2>3, CoveredType
  <2>6. Wire!Covered(f) \in Octets(32) /\ Wire!Covered(g) \in Octets(32)
    BY CoveredType
  <2>7. Wire!Checksum16(Wire!Covered(f)) # Wire!Checksum16(Wire!Covered(g))
    <3>1. PICK n \in Nat : n = 32
      OBVIOUS
    <3>2. n <= 32 /\ k \in 1..n /\ Wire!Covered(f) \in Octets(n) /\ Wire!Covered(g) \in Octets(n)
          /\ \A i \in 1..n : i # k => Wire!Covered(f)[i] = Wire!Covered(g)[i]
      BY <2>4, <2>6, <3>1
    <3> QED BY <2>5, <3>2, ChecksumTells
  <2> QED BY <1>1, <1>2, <2>2, <2>7
<1>4. CASE j \in 32..39
  <2>1. Wire!Covered(f) = Wire!Covered(g)
    BY <1>4, SameCovered
  <2>2. CASE j \in {32, 35}
    BY <1>1, <1>2, <2>2
  <2>3. CASE j \in {33, 34}
    <3>1. f[33] + 256 * f[34] = g[33] + 256 * g[34]
      BY <1>1, <1>2, <2>1
    <3>2. f[33] \in Int /\ f[34] \in Int /\ g[33] \in Int /\ g[34] \in Int
      <4>1. 33 \in 0..39 /\ 34 \in 0..39
        OBVIOUS
      <4>2. \A h \in FrameBytes : \A i \in 0..39 : h[i] \in Int
        BY DEF FrameBytes
      <4> QED BY <4>1, <4>2
    <3>3. f[33] = g[33] /\ f[34] = g[34]
      <4>1. f[33] = g[33] \/ f[34] = g[34]
        BY <2>3
      <4>2. PICK a \in Int : a = f[33]
        BY <3>2
      <4>3. PICK b \in Int : b = f[34]
        BY <3>2
      <4>4. PICK c \in Int : c = g[33]
        BY <3>2
      <4>5. PICK d \in Int : d = g[34]
        BY <3>2
      <4>6. a + 256 * b = c + 256 * d /\ (a = c \/ b = d)
        BY <3>1, <4>1, <4>2, <4>3, <4>4, <4>5, Zenon
      <4>7. a = c /\ b = d
        BY <4>6
      <4> QED BY <4>2, <4>3, <4>4, <4>5, <4>7, Zenon
    <3> QED BY <2>3, <3>3
  <2>4. CASE j \in 36..39
    <3>1. LastFour(f) = LastFour(g)
      BY <1>1, <1>2, <2>1 DEF CrcOf
    <3>2. PICK k \in 1..4 : j = 35 + k
      BY <2>4
    <3> QED BY <3>1, <3>2, LastFourIs
  <2> QED BY <1>4, <2>2, <2>3, <2>4
<1> QED BY <1>3, <1>4

(* What is written into each byte.                                           *)
FieldsAt(kind, i) == {field \in Wire!Fields[kind] : i - 8 \in field[1]..field[1] + field[2] - 1}
HeaderOf(kind) == <<170, 4, 170, 170>> \o Wire!FrameType[kind]
FieldAt(kind, i) == CHOOSE f \in FieldsAt(kind, i) : TRUE
Cell(kind, values, i) ==
  CASE i < 8 -> HeaderOf(kind)[i + 1]
    [] FieldsAt(kind, i) # {} -> values[FieldAt(kind, i)][i - 8 - FieldAt(kind, i)[1] + 1]
    [] i = 8 \/ (kind = "KeepAlive" /\ i \in 10..11) -> 170
    [] OTHER -> 0
TypedValues(kind, values) ==
  /\ values = [f \in Wire!Fields[kind] |-> values[f]]
  /\ \A f \in Wire!Fields[kind] : values[f] \in [1..f[2] -> 0..255]

LEMMA WrittenCells ==
  ASSUME NEW kind, NEW values
  PROVE  Wire!Written(kind, values) = Wire!Trailed([i \in 0..39 |-> Cell(kind, values, i)])
BY DEF Wire!Written, Wire!Magic, Wire!Body, Wire!FrameSize, FieldsAt, HeaderOf, FieldAt, Cell

LEMMA HeaderIs ==
  ASSUME NEW kind \in Wire!Kinds
  PROVE  /\ \A i \in 0..7 : HeaderOf(kind)[i + 1] \in 0..255
         /\ \A i \in 1..4 : HeaderOf(kind)[i + 4] = Wire!FrameType[kind][i]
<1>1. PICK c \in [1..4 -> 0..255] : c = Wire!FrameType[kind]
  BY TypesAre
<1>2. PICK s : s = <<170, 4, 170, 170>>
  OBVIOUS
<1>3. s \in Seq(Int) /\ c \in Seq(Int) /\ Len(s) = 4 /\ Len(c) = 4
  <2>1. s \in Seq(Int) /\ Len(s) = 4
    BY <1>2
  <2>2. c \in [1..4 -> Int]
    OBVIOUS
  <2>3. c \in Seq(Int) /\ Len(c) = 4
    BY <2>2, FunctionIsSequence
  <2> QED BY <2>1, <2>3
<1>4. \A k \in 1..8 : (s \o c)[k] = IF k <= 4 THEN s[k] ELSE c[k - 4]
  <2>1. \A k \in 1..Len(s) + Len(c) : (s \o c)[k] = IF k <= Len(s) THEN s[k] ELSE c[k - Len(s)]
    BY <1>3, ConcatProperties
  <2>2. 1..Len(s) + Len(c) = 1..8
    BY <1>3
  <2> QED BY <1>3, <2>1, <2>2
<1>5. PICK h : h = s \o c
  OBVIOUS
<1>6. ASSUME NEW k \in 1..4 PROVE h[k] \in 0..255
  <2>1. h[k] = s[k]
    <3>1. k \in 1..8 /\ k <= 4
      OBVIOUS
    <3> QED BY <1>4, <1>5, <3>1
  <2>2. s[k] \in 0..255
    BY <1>2
  <2> QED BY <2>1, <2>2
<1>7. ASSUME NEW i \in 1..4 PROVE h[i + 4] = c[i] /\ h[i + 4] \in 0..255
  <2>1. PICK k \in 1..8 : k = i + 4 /\ ~(k <= 4) /\ k - 4 = i
    OBVIOUS
  <2>2. h[k] = c[k - 4]
    BY <1>4, <1>5, <2>1
  <2> QED BY <2>1, <2>2
<1>8. ASSUME NEW i \in 0..7 PROVE h[i + 1] \in 0..255
  <2>1. CASE i \in 0..3
    <3>1. i + 1 \in 1..4
      BY <2>1
    <3> QED BY <1>6, <3>1
  <2>2. CASE i \in 4..7
    <3>1. PICK k \in 1..4 : k + 4 = i + 1
      BY <2>2
    <3> QED BY <1>7, <3>1
  <2> QED BY <2>1, <2>2
<1>9. HeaderOf(kind) = h
  BY <1>1, <1>2, <1>5 DEF HeaderOf
<1> QED BY <1>1, <1>7, <1>8, <1>9

LEMMA FieldIs ==
  ASSUME NEW kind \in Wire!Kinds, NEW f \in Wire!Fields[kind], NEW i \in 1..f[2]
  PROVE  /\ 8 + f[1] + i - 1 \in 9..31
         /\ FieldsAt(kind, 8 + f[1] + i - 1) = {f}
<1>1. PICK p \in 1..20, n \in 1..8 : f[1] = p /\ f[2] = n /\ p + n <= 24
  BY AllFieldsLie DEF FieldsLie
<1>2. PICK x \in Int : x = 8 + p + i - 1
  BY <1>1
<1>3. x \in 9..31 /\ x - 8 \in p..p + n - 1
  BY <1>1, <1>2
<1>4. ASSUME NEW g \in Wire!Fields[kind], x - 8 \in g[1]..g[1] + g[2] - 1 PROVE g = f
  <2>1. g \in (1..20) \X (1..8) /\ (g # f => g[1] + g[2] <= f[1] \/ f[1] + f[2] <= g[1])
    BY AllFieldsLie DEF FieldsLie
  <2>2. PICK q \in 1..20, m \in 1..8 : g[1] = q /\ g[2] = m
    BY <2>1
  <2>3. ~(q + m <= p) /\ ~(p + n <= q)
    BY <1>3, <1>4, <2>2
  <2> QED BY <1>1, <2>1, <2>2, <2>3
<1>5. FieldsAt(kind, x) = {f}
  BY <1>1, <1>3, <1>4 DEF FieldsAt
<1> QED BY <1>1, <1>2, <1>3, <1>5

MagicAt(kind, i) == i = 8 \/ (kind = "KeepAlive" /\ i \in 10..11)

LEMMA Apart ==
  ASSUME NEW kind \in Wire!Kinds, NEW i \in 0..39
  PROVE  FieldsAt(kind, i) # {} => ~(i < 8) /\ ~MagicAt(kind, i)
<1>1. ASSUME NEW f \in Wire!Fields[kind], i - 8 \in f[1]..f[1] + f[2] - 1
      PROVE  ~(i < 8) /\ ~MagicAt(kind, i)
  <2>1. PICK p \in 1..20, n \in 1..8 : f[1] = p /\ f[2] = n
    BY AllFieldsLie DEF FieldsLie
  <2>2. i - 8 \in p..p + n - 1 /\ i > 8
    BY <1>1, <2>1
  <2>3. kind = "KeepAlive" => p = 1 /\ n = 1
    BY <2>1 DEF Wire!Fields
  <2> QED BY <2>2, <2>3 DEF MagicAt
<1> QED BY <1>1 DEF FieldsAt

LEMMA CellIs ==
  ASSUME NEW kind \in Wire!Kinds, NEW values, NEW i \in 0..39
  PROVE  /\ i < 8 => Cell(kind, values, i) = HeaderOf(kind)[i + 1]
         /\ FieldsAt(kind, i) # {} =>
              Cell(kind, values, i) = values[FieldAt(kind, i)][i - 8 - FieldAt(kind, i)[1] + 1]
         /\ ~(i < 8) /\ FieldsAt(kind, i) = {} => Cell(kind, values, i) \in {0, 170}
<1> DEFINE P == i < 8
           Q == FieldsAt(kind, i) # {}
           R == i = 8 \/ (kind = "KeepAlive" /\ i \in 10..11)
           A == HeaderOf(kind)[i + 1]
           B == values[FieldAt(kind, i)][i - 8 - FieldAt(kind, i)[1] + 1]
<1>1. Cell(kind, values, i) = CASE P -> A [] Q -> B [] R -> 170 [] OTHER -> 0
  BY DEF Cell
<1>2. (P => ~Q /\ ~R) /\ (Q => ~R)
  BY Apart DEF MagicAt
<1> HIDE DEF P, Q, R, A, B
<1>3. (P => Cell(kind, values, i) = A) /\ (Q => Cell(kind, values, i) = B)
      /\ (~P /\ ~Q => Cell(kind, values, i) \in {0, 170})
  BY <1>1, <1>2
<1> QED BY <1>3 DEF P, Q, A, B

LEMMA CellType ==
  ASSUME NEW kind \in Wire!Kinds, NEW values, TypedValues(kind, values), NEW i \in 0..39
  PROVE  Cell(kind, values, i) \in 0..255
<1>1. CASE i < 8
  <2>1. i \in 0..7
    BY <1>1
  <2> QED BY <1>1, <2>1, HeaderIs, CellIs
<1>2. CASE ~(i < 8) /\ FieldsAt(kind, i) # {}
  <2>1. PICK f : f = FieldAt(kind, i) /\ f \in Wire!Fields[kind] /\ i - 8 \in f[1]..f[1] + f[2] - 1
    BY <1>2 DEF FieldsAt, FieldAt
  <2>2. PICK p \in 1..20, n \in 1..8 : f[1] = p /\ f[2] = n
    BY <2>1, AllFieldsLie DEF FieldsLie
  <2>3. values[f] \in [1..n -> 0..255]
    BY <2>1, <2>2 DEF TypedValues
  <2>4. i - 8 - p + 1 \in 1..n
    BY <2>1, <2>2
  <2>5. values[f][i - 8 - p + 1] \in 0..255
    BY <2>3, <2>4
  <2>6. Cell(kind, values, i) = values[f][i - 8 - p + 1]
    BY <1>2, <2>1, <2>2, CellIs
  <2> QED BY <2>5, <2>6
<1>3. CASE ~(i < 8) /\ FieldsAt(kind, i) = {}
  BY <1>3, CellIs
<1> QED BY <1>1, <1>2, <1>3

(* A written frame verifies, and has its type and its values.                *)
LEMMA WrittenHolds ==
  ASSUME NEW kind \in Wire!Kinds, NEW values, TypedValues(kind, values)
  PROVE  /\ Wire!Written(kind, values) \in FrameBytes
         /\ Wire!VerifyPacket(Wire!Written(kind, values))
         /\ \A i \in 1..4 : Wire!Written(kind, values)[i + 3] = Wire!FrameType[kind][i]
         /\ \A f \in Wire!Fields[kind] : \A i \in 1..f[2] :
              Wire!Written(kind, values)[8 + f[1] + i - 1] = values[f][i]
<1> DEFINE b == [i \in 0..39 |-> Cell(kind, values, i)]
           w == Wire!Trailed(b)
<1>1. Wire!Written(kind, values) = w
  BY WrittenCells
<1>2. b \in FrameBytes
  BY CellType DEF FrameBytes
<1>3. w \in FrameBytes /\ Wire!VerifyPacket(w) /\ \A i \in 0..31 : w[i] = b[i]
  <2> HIDE DEF b
  <2> QED BY <1>2, TrailedHolds
<1>4. \A i \in 0..31 : w[i] = Cell(kind, values, i)
  BY <1>3
<1> HIDE DEF b, w
<1>5. ASSUME NEW i \in 1..4 PROVE w[i + 3] = Wire!FrameType[kind][i]
  <2>1. PICK k \in 0..31 : k = i + 3 /\ k < 8 /\ k + 1 = i + 4
    OBVIOUS
  <2>2. Cell(kind, values, k) = HeaderOf(kind)[k + 1]
    BY <2>1, CellIs
  <2> QED BY <1>4, <2>1, <2>2, HeaderIs
<1>6. ASSUME NEW f \in Wire!Fields[kind], NEW i \in 1..f[2]
      PROVE  w[8 + f[1] + i - 1] = values[f][i]
  <2>1. PICK p \in 1..20, n \in 1..8 : f[1] = p /\ f[2] = n
    BY AllFieldsLie DEF FieldsLie
  <2>2. PICK x \in 9..31 : x = 8 + f[1] + i - 1 /\ FieldsAt(kind, x) = {f}
    BY FieldIs
  <2>3. FieldAt(kind, x) = f
    BY <2>2 DEF FieldAt
  <2>4. Cell(kind, values, x) = values[f][x - 8 - f[1] + 1]
    <3>1. x \in 0..39 /\ FieldsAt(kind, x) # {}
      BY <2>2
    <3> QED BY <2>3, <3>1, CellIs
  <2>5. x - 8 - f[1] + 1 = i
    BY <2>1, <2>2
  <2>6. x \in 0..31
    OBVIOUS
  <2> QED BY <1>4, <2>2, <2>4, <2>5, <2>6
<1> QED BY <1>1, <1>3, <1>5, <1>6

(* What the network makes of a frame.                                        *)
BitsHit(F, i) == {p[2] : p \in {q \in F : q[1] = i}}
Hit(f, F) == [i \in DOMAIN f |-> Wire!ByteOf(Wire!Xor(Wire!Bits[f[i]], BitsHit(F, i)))]
OneByte(F) == \A p, q \in F : p[1] = q[1]

LEMMA HitTells ==
  ASSUME NEW f \in FrameBytes, NEW F \in SUBSET ((0..39) \X (0..7)), F # {}, OneByte(F)
  PROVE  ~(Wire!VerifyPacket(f) /\ Wire!VerifyPacket(Hit(f, F)))
<1>1. PICK p \in F : TRUE
  OBVIOUS
<1>2. PICK j \in 0..39 : j = p[1]
  OBVIOUS
<1>3. ASSUME NEW i \in 0..39
      PROVE  Hit(f, F)[i] \in 0..255 /\ (Hit(f, F)[i] = f[i] <=> i # j)
  <2>1. Hit(f, F)[i] = Wire!ByteOf(Wire!Xor(Wire!Bits[f[i]], BitsHit(F, i)))
    BY DEF Hit, FrameBytes
  <2>2. f[i] \in 0..255
    BY DEF FrameBytes
  <2>3. BitsHit(F, i) \in SUBSET (0..7)
    BY DEF BitsHit
  <2>4. BitsHit(F, i) = {} <=> i # j
    BY <1>1, <1>2 DEF BitsHit, OneByte
  <2>5. PICK n \in 0..255 : n = f[i]
    BY <2>2
  <2>6. PICK bits \in SUBSET (0..7) : bits = BitsHit(F, i)
    BY <2>3
  <2>7. /\ Wire!ByteOf(Wire!Xor(Wire!Bits[n], bits)) \in 0..255
        /\ Wire!ByteOf(Wire!Xor(Wire!Bits[n], bits)) = n <=> bits = {}
    BY ChangedByte, Zenon
  <2> QED BY <2>1, <2>4, <2>5, <2>6, <2>7
<1>4. Hit(f, F) \in FrameBytes
  <2>1. Hit(f, F) = [i \in 0..39 |-> Hit(f, F)[i]]
    BY DEF Hit, FrameBytes
  <2> QED BY <1>3, <2>1 DEF FrameBytes
<1> QED BY <1>3, <1>4, OneByteTells

(* The frame that nobody has written does not verify, hit in one byte or not.*)
Blank == [i \in 0..39 |-> 0]

LEMMA BlankFails ==
  ASSUME NEW F \in SUBSET ((0..39) \X (0..7)), OneByte(F)
  PROVE  Blank \in FrameBytes /\ ~Wire!VerifyPacket(Blank) /\ ~Wire!VerifyPacket(Hit(Blank, F))
<1>1. Blank \in FrameBytes /\ DOMAIN Blank = 0..39 /\ \A i \in 0..39 : Blank[i] = 0
  BY DEF Blank, FrameBytes
<1>2. ~Wire!VerifyPacket(Blank)
  BY <1>1, Verified
<1>3. ASSUME NEW i \in 0..39, BitsHit(F, i) = {} PROVE Hit(Blank, F)[i] = 0
  <2>1. Hit(Blank, F)[i] = Wire!ByteOf(Wire!Xor(Wire!Bits[0], {}))
    BY <1>1, <1>3 DEF Hit
  <2>2. 0 \in 0..255 /\ {} \in SUBSET (0..7)
    <3>1. 0 \in 0..255
      OBVIOUS
    <3> QED BY <3>1, Zenon
  <2>3. Wire!ByteOf(Wire!Xor(Wire!Bits[0], {})) = 0
    BY <2>2, ChangedByte, Zenon
  <2> QED BY <2>1, <2>3
<1>4. BitsHit(F, 32) = {} \/ BitsHit(F, 35) = {}
  BY DEF BitsHit, OneByte
<1>5. Hit(Blank, F)[32] = 0 \/ Hit(Blank, F)[35] = 0
  BY <1>3, <1>4
<1>6. Wire!VerifyPacket(Hit(Blank, F)) => Hit(Blank, F)[32] = 170 /\ Hit(Blank, F)[35] = 170
  BY DEF Wire!VerifyPacket, Wire!Trailer, Wire!Magic
<1> QED BY <1>1, <1>2, <1>5, <1>6

(* The frame is what was written last, hit by what the network did to it.    *)
Pristine == IF sent = Wire!Nothing THEN Blank ELSE Wire!Written(sent.kind, sent.values)
SentWell ==
  sent = Wire!Nothing \/
    /\ sent.kind \in Wire!Kinds
    /\ TypedValues(sent.kind, sent.values)
    /\ sent.kind # "AuthRX" => sent.challenge = <<>>
    /\ sent.kind = "AuthRX" => /\ sent.challenge \in Challenges
                               /\ sent.values[<<1, 8>>] = Wire!MAC(sent.challenge)
FrameInv ==
  /\ SentWell
  /\ flipped \subseteq Weak
  /\ frame = IF flipped = {} THEN Pristine ELSE Hit(Pristine, flipped)
  /\ verdict # Wire!NoVerdict => verdict.kind \in Wire!Kinds
  /\ OneByte(flipped) => AcceptedIsWritten

Damage == Weak \subseteq (0..39) \X (0..7)
Inputs == Damage /\ Seeds \subseteq Int /\ Challenges \subseteq Bytes8

LEMMA NothingIs == Wire!Nothing.kind = "none" /\ "none" \notin Wire!Kinds
BY DEF Wire!Nothing, Wire!Kinds, Wire!FrameType

LEMMA PristineIs ==
  ASSUME SentWell
  PROVE  /\ Pristine \in FrameBytes
         /\ Wire!VerifyPacket(Pristine) <=> sent # Wire!Nothing
<1>1. CASE sent = Wire!Nothing
  <2>1. {} \in SUBSET ((0..39) \X (0..7)) /\ OneByte({})
    BY DEF OneByte
  <2> QED BY <1>1, <2>1, BlankFails DEF Pristine
<1>2. CASE sent # Wire!Nothing
  BY <1>2, WrittenHolds DEF SentWell, Pristine
<1> QED BY <1>1, <1>2

(* It verifies exactly when it is as it was written.                         *)
LEMMA ValidIs ==
  ASSUME Damage, FrameInv, OneByte(flipped)
  PROVE  Wire!VerifyPacket(frame) <=> flipped = {} /\ sent # Wire!Nothing
<1>1. CASE flipped = {}
  BY <1>1, PristineIs DEF FrameInv
<1>2. CASE flipped # {}
  <2>1. flipped \in SUBSET ((0..39) \X (0..7)) /\ frame = Hit(Pristine, flipped)
    BY <1>2 DEF FrameInv, Damage
  <2>2. CASE sent = Wire!Nothing
    BY <2>1, <2>2, BlankFails DEF Pristine
  <2>3. CASE sent # Wire!Nothing
    <3>1. Pristine \in FrameBytes /\ Wire!VerifyPacket(Pristine)
      BY <2>3, PristineIs DEF FrameInv
    <3> QED BY <1>2, <2>1, <3>1, HitTells
  <2> QED BY <2>2, <2>3
<1> QED BY <1>1, <1>2

LEMMA AsWritten ==
  ASSUME FrameInv, flipped = {}, sent # Wire!Nothing
  PROVE  /\ \A kind \in Wire!Kinds : Wire!IsType(kind) <=> kind = sent.kind
         /\ Wire!Parsed(sent.kind) = sent.values
<1>1. sent.kind \in Wire!Kinds /\ TypedValues(sent.kind, sent.values) /\ frame = Wire!Written(sent.kind, sent.values)
  BY DEF FrameInv, SentWell, Pristine
<1>a. PICK kind \in Wire!Kinds : kind = sent.kind
  BY <1>1
<1>2. PICK values : values = sent.values
  OBVIOUS
<1>3. TypedValues(kind, values) /\ frame = Wire!Written(kind, values)
  BY <1>1, <1>a, <1>2
<1>4. \A i \in 1..4 : frame[i + 3] = Wire!FrameType[kind][i]
  BY <1>3, WrittenHolds
<1>5. \A f \in Wire!Fields[kind] : \A i \in 1..f[2] : frame[8 + f[1] + i - 1] = values[f][i]
  BY <1>3, WrittenHolds
<1>6. [i \in 1..4 |-> frame[i + 3]] = Wire!FrameType[kind]
  BY <1>4, TypesAre
<1>7. ASSUME NEW other \in Wire!Kinds PROVE Wire!IsType(other) <=> other = kind
  BY <1>6, TypesDiffer DEF Wire!IsType
<1>8. Wire!Parsed(kind) = values
  <2>1. ASSUME NEW f \in Wire!Fields[kind] PROVE [i \in 1..f[2] |-> frame[8 + f[1] + i - 1]] = values[f]
    <3>1. values[f] \in [1..f[2] -> 0..255]
      BY <1>3 DEF TypedValues
    <3> QED BY <1>5, <3>1
  <2>2. values = [f \in Wire!Fields[kind] |-> values[f]]
    BY <1>3 DEF TypedValues
  <2>3. Wire!Parsed(kind) = [f \in Wire!Fields[kind] |-> [i \in 1..f[2] |-> frame[8 + f[1] + i - 1]]]
    BY DEF Wire!Parsed, Wire!Body
  <2> QED BY <2>1, <2>2, <2>3
<1> QED BY <1>a, <1>2, <1>7, <1>8

LEMMA ValuesTyped ==
  ASSUME NEW kind \in Wire!Kinds, NEW seed \in Int
  PROVE  TypedValues(kind, Wire!Values(kind, seed))
<1> DEFINE values == Wire!Values(kind, seed)
<1>1. ASSUME NEW f \in Wire!Fields[kind] PROVE values[f] \in [1..f[2] -> 0..255]
  <2>1. values[f] = [i \in 1..f[2] |-> (seed * (i + f[1])) % 256]
    BY DEF Wire!Values
  <2>2. PICK p \in Int, n \in Int : f[1] = p /\ f[2] = n
    BY AllFieldsLie DEF FieldsLie
  <2>3. ASSUME NEW i \in 1..n PROVE (seed * (i + p)) % 256 \in 0..255
    <3>1. PICK x \in Int : x = seed * (i + p)
      OBVIOUS
    <3>2. x % 256 \in 0..255
      OBVIOUS
    <3> QED BY <3>1, <3>2
  <2> HIDE DEF values
  <2> QED BY <2>1, <2>2, <2>3
<1> QED BY <1>1 DEF TypedValues, Wire!Values

LEMMA SignatureTyped ==
  ASSUME NEW c, NEW values, values = [f \in Wire!Fields["AuthRX"] |-> Wire!MAC(c)]
  PROVE  TypedValues("AuthRX", values) /\ values[<<1, 8>>] = Wire!MAC(c)
<1>1. Wire!Fields["AuthRX"] = {<<1, 8>>}
  BY DEF Wire!Fields
<1>2. \A f \in {<<1, 8>>} : f[2] = 8
  OBVIOUS
<1> QED BY <1>1, <1>2, MACType DEF TypedValues, Bytes8

LEMMA WriteKeepsFrame ==
  ASSUME FrameInv, NEW kind \in Wire!Kinds, NEW values, NEW challenge, Wire!Write(kind, values, challenge),
         TypedValues(kind, values), kind # "AuthRX" => challenge = <<>>,
         kind = "AuthRX" => challenge \in Challenges /\ values[<<1, 8>>] = Wire!MAC(challenge)
  PROVE  FrameInv'
<1>1. sent'.kind = kind /\ sent'.values = values /\ sent'.challenge = challenge
  BY DEF Wire!Write
<1>2. flipped' = {} /\ verdict' = Wire!NoVerdict /\ frame' = Wire!Written(kind, values)
  BY DEF Wire!Write
<1>3. sent' # Wire!Nothing
  BY <1>1, NothingIs
<1>4. SentWell'
  BY <1>1 DEF SentWell
<1>5. frame' = Pristine'
  BY <1>1, <1>2, <1>3 DEF Pristine
<1>6. AcceptedIsWritten'
  BY <1>2 DEF AcceptedIsWritten, Wire!AcceptedIsWritten
<1> QED BY <1>2, <1>4, <1>5, <1>6 DEF FrameInv

LEMMA WritesKeepFrame ==
  ASSUME Inputs, FrameInv, Wire!WriteFrame \/ Wire!WriteFrame_AuthRX
  PROVE  FrameInv'
<1>1. CASE Wire!WriteFrame
  <2>1. PICK kind \in Wire!Kinds \ {"AuthRX"}, seed \in Seeds : Wire!Write(kind, Wire!Values(kind, seed), <<>>)
    BY <1>1 DEF Wire!WriteFrame
  <2>2. TypedValues(kind, Wire!Values(kind, seed))
    BY ValuesTyped DEF Inputs
  <2> QED BY <2>1, <2>2, WriteKeepsFrame
<1>2. CASE Wire!WriteFrame_AuthRX
  <2>1. PICK c, values :
          c \in Challenges /\ values = [f \in Wire!Fields["AuthRX"] |-> Wire!MAC(c)] /\ Wire!Write("AuthRX", values, c)
    BY <1>2 DEF Wire!WriteFrame_AuthRX
  <2>2. TypedValues("AuthRX", values) /\ values[<<1, 8>>] = Wire!MAC(c)
    BY <2>1, SignatureTyped
  <2>3. "AuthRX" \in Wire!Kinds
    BY DEF Wire!Kinds, Wire!FrameType
  <2> QED BY <2>1, <2>2, <2>3, WriteKeepsFrame
<1> QED BY <1>1, <1>2

LEMMA WireCounts == \A U : Wire!Cardinality(U) = Cardinality(U)
  BY DEF Wire!Cardinality, Cardinality

LEMMA CorruptKeepsFrame ==
  ASSUME MaxFlips \in Nat, FrameInv, verdict = Wire!NoVerdict, Wire!Corrupt
  PROVE  FrameInv'
<1>1. PICK F \in SUBSET Weak : Cardinality(F) \in 1..MaxFlips /\ flipped' = F /\ frame' = Hit(frame, F)
  BY WireCounts DEF Wire!Corrupt, Hit, BitsHit
<1>2. F # {}
  BY <1>1, FS_EmptySet
<1>3. frame = Pristine /\ frame' = Hit(frame, F)
  BY <1>1 DEF FrameInv, Wire!Corrupt
<1>4. UNCHANGED <<sent, verdict>>
  BY DEF Wire!Corrupt
<1>5. SentWell' /\ Pristine' = Pristine
  BY <1>4 DEF FrameInv, SentWell, Pristine
<1>6. AcceptedIsWritten'
  BY <1>4 DEF AcceptedIsWritten, Wire!AcceptedIsWritten
<1> QED BY <1>1, <1>2, <1>3, <1>4, <1>5, <1>6 DEF FrameInv

(* What each reader says.                                                    *)
Judged(v) ==
  /\ v.code = "OKE" <=> /\ flipped = {} /\ v.kind = sent.kind /\ v.challenge = sent.challenge
                        /\ v.kind = "AuthRX" => "reader" \in keyed
  /\ v.code = "OKE" => v.values = sent.values

LEMMA AnyFrameJudged ==
  ASSUME Inputs, FrameInv, OneByte(flipped), NEW kind \in Wire!Kinds \ {"AuthRX"}, NEW v,
         v = [code |-> IF ~Wire!VerifyPacket(frame) THEN "CRC"
                       ELSE IF Wire!IsType(kind) THEN "OKE" ELSE "INVALID_ARG",
              kind |-> kind, values |-> Wire!Parsed(kind), challenge |-> <<>>]
  PROVE  Judged(v)
<1>1. v.kind = kind /\ v.values = Wire!Parsed(kind) /\ v.challenge = <<>>
  OBVIOUS
<1>2. v.code = "OKE" <=> Wire!VerifyPacket(frame) /\ Wire!IsType(kind)
  OBVIOUS
<1>3. Wire!VerifyPacket(frame) <=> flipped = {} /\ sent # Wire!Nothing
  BY ValidIs DEF Inputs
<1>4. sent = Wire!Nothing => kind # sent.kind
  BY NothingIs
<1>5. ASSUME flipped = {}, sent # Wire!Nothing
      PROVE  (Wire!IsType(kind) <=> kind = sent.kind) /\ Wire!Parsed(sent.kind) = sent.values
             /\ (kind = sent.kind => sent.challenge = <<>>)
  BY <1>5, AsWritten DEF FrameInv, SentWell
<1> QED BY <1>1, <1>2, <1>3, <1>4, <1>5 DEF Judged

LEMMA AnswerJudged ==
  ASSUME Inputs, FrameInv, OneByte(flipped), NEW c \in Challenges, NEW v,
         v = [code |-> CASE ~Wire!VerifyPacket(frame) -> "CRC"
                         [] Wire!VerifyPacket(frame) /\ ~Wire!IsType("AuthRX") -> "INVALID_ARG"
                         [] Wire!VerifyPacket(frame) /\ Wire!IsType("AuthRX") /\ "reader" \notin keyed -> "INVALID_STATE"
                         [] OTHER -> IF Wire!Parsed("AuthRX")[<<1, 8>>] = Wire!MAC(c) THEN "OKE" ELSE "PERMISSION",
              kind |-> "AuthRX", values |-> Wire!Parsed("AuthRX"), challenge |-> c]
  PROVE  Judged(v)
<1>1. v.kind = "AuthRX" /\ v.values = Wire!Parsed("AuthRX") /\ v.challenge = c
  OBVIOUS
<1>2. v.code = "OKE" <=> /\ Wire!VerifyPacket(frame) /\ Wire!IsType("AuthRX") /\ "reader" \in keyed
                         /\ Wire!Parsed("AuthRX")[<<1, 8>>] = Wire!MAC(c)
  <2>1. v.code = CASE ~Wire!VerifyPacket(frame) -> "CRC"
                   [] Wire!VerifyPacket(frame) /\ ~Wire!IsType("AuthRX") -> "INVALID_ARG"
                   [] Wire!VerifyPacket(frame) /\ Wire!IsType("AuthRX") /\ "reader" \notin keyed -> "INVALID_STATE"
                   [] OTHER -> IF Wire!Parsed("AuthRX")[<<1, 8>>] = Wire!MAC(c) THEN "OKE" ELSE "PERMISSION"
    OBVIOUS
  <2> QED BY <2>1
<1>3. Wire!VerifyPacket(frame) <=> flipped = {} /\ sent # Wire!Nothing
  BY ValidIs DEF Inputs
<1>4. "AuthRX" \in Wire!Kinds /\ (sent = Wire!Nothing => "AuthRX" # sent.kind)
  BY NothingIs DEF Wire!Kinds, Wire!FrameType
<1>5. ASSUME flipped = {}, sent # Wire!Nothing
      PROVE  (Wire!IsType("AuthRX") <=> "AuthRX" = sent.kind) /\ Wire!Parsed(sent.kind) = sent.values
  BY <1>4, <1>5, AsWritten
<1>6. ASSUME flipped = {}, sent # Wire!Nothing, "AuthRX" = sent.kind
      PROVE  Wire!Parsed("AuthRX")[<<1, 8>>] = Wire!MAC(c) <=> c = sent.challenge
  <2>1. Wire!Parsed("AuthRX")[<<1, 8>>] = Wire!MAC(sent.challenge) /\ sent.challenge \in Challenges
    BY <1>5, <1>6 DEF FrameInv, SentWell
  <2>2. c \in Bytes8 /\ sent.challenge \in Bytes8
    BY <2>1 DEF Inputs
  <2> QED BY <2>1, <2>2, MACsDiffer
<1> QED BY <1>1, <1>2, <1>3, <1>4, <1>5, <1>6 DEF Judged

LEMMA ReadKeepsFrame ==
  ASSUME Inputs, FrameInv, Wire!Read
  PROVE  FrameInv'
<1>1. UNCHANGED <<frame, sent, flipped, keyed>>
  BY DEF Wire!Read
<1>2. "AuthRX" \in Wire!Kinds
  BY DEF Wire!Kinds, Wire!FrameType
<1>3. PICK v : verdict' = v /\ v.kind \in Wire!Kinds /\ (OneByte(flipped) => Judged(v))
  <2>1. CASE \E kind \in Wire!Kinds \ {"AuthRX"} :
               verdict' = [code |-> IF ~Wire!VerifyPacket(frame) THEN "CRC"
                                    ELSE IF Wire!IsType(kind) THEN "OKE" ELSE "INVALID_ARG",
                           kind |-> kind, values |-> Wire!Parsed(kind), challenge |-> <<>>]
    BY <2>1, AnyFrameJudged
  <2>2. CASE \E c \in Challenges :
               verdict' = [code |-> CASE ~Wire!VerifyPacket(frame) -> "CRC"
                                      [] Wire!VerifyPacket(frame) /\ ~Wire!IsType("AuthRX") -> "INVALID_ARG"
                                      [] Wire!VerifyPacket(frame) /\ Wire!IsType("AuthRX") /\ "reader" \notin keyed -> "INVALID_STATE"
                                      [] OTHER -> IF Wire!Parsed("AuthRX")[<<1, 8>>] = Wire!MAC(c) THEN "OKE" ELSE "PERMISSION",
                           kind |-> "AuthRX", values |-> Wire!Parsed("AuthRX"), challenge |-> c]
    BY <1>2, <2>2, AnswerJudged
  <2> QED BY <2>1, <2>2 DEF Wire!Read
<1>4. OneByte(flipped) => AcceptedIsWritten'
  BY <1>1, <1>3 DEF Judged, AcceptedIsWritten, Wire!AcceptedIsWritten
<1>5. SentWell' /\ Pristine' = Pristine
  BY <1>1 DEF FrameInv, SentWell, Pristine
<1> QED BY <1>1, <1>3, <1>4, <1>5 DEF FrameInv

LEMMA NextFrameInv ==
  ASSUME Inputs, MaxFlips \in Nat, FrameInv, [Wire!Next]_(Wire!frameVars)
  PROVE  FrameInv'
<1>1. CASE UNCHANGED Wire!frameVars
  BY <1>1 DEF Wire!frameVars, FrameInv, SentWell, Pristine, AcceptedIsWritten, Wire!AcceptedIsWritten
<1>2. CASE sent = Wire!Nothing /\ Wire!Auth_SetCoreKey
  <2>1. UNCHANGED <<frame, sent, flipped, verdict>>
    BY <1>2 DEF Wire!Auth_SetCoreKey
  <2>2. verdict # Wire!NoVerdict => verdict.kind # sent.kind
    BY <1>2, NothingIs DEF FrameInv
  <2>3. AcceptedIsWritten => AcceptedIsWritten'
    BY <2>1, <2>2 DEF AcceptedIsWritten, Wire!AcceptedIsWritten
  <2>4. SentWell' /\ Pristine' = Pristine
    BY <2>1 DEF FrameInv, SentWell, Pristine
  <2> QED BY <2>1, <2>3, <2>4 DEF FrameInv
<1>3. CASE Wire!WriteFrame \/ Wire!WriteFrame_AuthRX
  BY <1>3, WritesKeepFrame
<1>4. CASE verdict = Wire!NoVerdict /\ Wire!Corrupt
  BY <1>4, CorruptKeepsFrame
<1>5. CASE Wire!Read
  BY <1>5, ReadKeepsFrame
<1> QED BY <1>1, <1>2, <1>3, <1>4, <1>5 DEF Wire!Next

LEMMA InitFrameInv == Wire!Init => FrameInv
BY DEF Wire!Init, FrameInv, SentWell, Pristine, Blank, Wire!FrameSize, AcceptedIsWritten, Wire!AcceptedIsWritten

LEMMA FrameSteps == ASSUME [Next]_vars PROVE [Wire!Next]_(Wire!frameVars)
BY DEF Next, vars, stringVars, Wire!frameVars, spiVars, rangingVars, dequeVars, frameVars, scalingVars, addressVars

(* Whatever is written, and whichever bits of any one byte change on its     *)
(* way, the header's, a field's, the checksum's or the CRC's: a frame is     *)
(* accepted exactly when nothing changed, by the reader for its type, and an *)
(* AuthRX by a reader that has the key and asks for the same challenge; the  *)
(* fields are then the ones written (AppFrame.c:134, 424).                   *)
THEOREM DamageIsRefused == Spec => [](OneByte(flipped) => AcceptedIsWritten)
<1>1. Init => FrameInv
  BY InitFrameInv DEF Init
<1>2. FrameInv /\ [Next]_vars => FrameInv'
  BY FramesAreBytes, FrameSteps, NextFrameInv DEF Inputs, Damage, Bytes8
<1>3. FrameInv => (OneByte(flipped) => AcceptedIsWritten)
  BY DEF FrameInv
<1> QED BY <1>1, <1>2, <1>3, PTL DEF Spec
=============================================================================
