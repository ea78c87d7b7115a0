------------------------------- MODULE Deque -------------------------------
(* The circular buffer of AppBase/Deque.c, used by one task.  The slots from *)
(* tail up to head, around the end of the array, hold the elements, oldest   *)
(* first; the others hold NULL.  Any malloc or calloc may fail.              *)
EXTENDS Integers, Sequences, FiniteSets

CONSTANTS
  Data,         \* payloads
  MaxSize,      \* CBUFFER_MAX_SIZE, 256
  GrowPercent,  \* 15
  Requests      \* sizes asked of CBuffer_Create, 0 and more than MaxSize too

NULL == "null"
SizesFit == MaxSize \in Nat \ {0} /\ GrowPercent \in Nat /\ Requests \subseteq Nat /\ NULL \notin Data
NoDeque == [arr |-> <<>>, reserved |-> 0, size |-> 0, head |-> 0, tail |-> 0, listening |-> FALSE]

VARIABLES
  cb,      \* the object: arr, reserved, size, head, tail, listening
  heard,   \* size, as the callback's events tell it
  heap     \* payloads allocated and not freed

dequeVars == <<cb, heard, heap>>

Clamp(n, limit) == IF n > limit THEN limit ELSE n

Init == cb = NoDeque /\ heard = 0 /\ heap = 0

Create ==
  /\ cb = NoDeque
  /\ \E request \in Requests :
       LET n == Clamp(IF request = 0 THEN 1 ELSE request, MaxSize) IN
       cb' \in {NoDeque, [NoDeque EXCEPT !.arr = [i \in 0..n - 1 |-> NULL], !.reserved = n]}
  /\ UNCHANGED <<heard, heap>>

(* CBuffer_PopFront and CBuffer_PopBack empty the slot they leave.           *)
PoppedFront(d) ==
  LET i == (d.head + d.reserved - 1) % d.reserved IN
  IF d.size = 0 THEN d
  ELSE [d EXCEPT !.arr[i] = NULL, !.head = i, !.size = @ - 1]

PoppedBack(d) ==
  IF d.size = 0 THEN d
  ELSE [d EXCEPT !.arr[d.tail] = NULL, !.tail = (@ + 1) % d.reserved, !.size = @ - 1]

(* CBuffer_EnsureCapacity.                                                   *)
NewCap(n) == LET more == n + (n * GrowPercent) \div 100
             IN  Clamp(IF more <= n THEN n + 1 ELSE more, MaxSize)

Reallocated_straight(d) ==
  LET n == NewCap(d.reserved) IN
  [d EXCEPT !.arr = [i \in 0..n - 1 |-> IF i < d.size THEN d.arr[i] ELSE NULL],
            !.tail = 0, !.head = d.size, !.reserved = n]

Reallocated(d) ==
  LET n == NewCap(d.reserved) IN
  [d EXCEPT !.arr = [i \in 0..n - 1 |-> IF i < d.size THEN d.arr[(d.tail + i) % d.reserved] ELSE NULL],
            !.tail = 0, !.head = d.size, !.reserved = n]

EnsuredCapacity(d) ==
  IF d.size >= MaxSize THEN {PoppedBack(d)}
  ELSE IF d.size = d.reserved THEN {Reallocated(d), PoppedBack(d)}
  ELSE {d}

(* The payload replaces what the slot holds.                                 *)
PushedFront(d, x) ==
  [d EXCEPT !.arr[d.head] = x, !.head = (@ + 1) % d.reserved, !.size = @ + 1]

PushedBack(d, x) ==
  LET newTail == (d.tail + d.reserved - 1) % d.reserved IN
  [d EXCEPT !.arr[newTail] = x, !.tail = newTail, !.size = @ + 1]

(* CBuffer_Clear frees from the tail on, then resets both ends.              *)
Cleared(d) ==
  LET window == {(d.tail + i) % d.reserved : i \in 0..d.size - 1} IN
  [d EXCEPT !.arr = [i \in DOMAIN @ |-> IF i \in window THEN NULL ELSE @[i]],
            !.size = 0, !.head = 0, !.tail = 0]

(* Every free and malloc of a call, and the events of pushes and pops, which *)
(* an eviction is one of.  The listener counts from the size at its start.   *)
Allocated(d) == Cardinality({i \in DOMAIN d.arr : d.arr[i] # NULL})

Changed(d, events) ==
  /\ cb' = d
  /\ heap' = heap + Allocated(d) - Allocated(cb)
  /\ heard' = IF d.listening THEN heard + events ELSE d.size

PushFront ==
  \E x \in Data, d \in EnsuredCapacity(cb) :
    \/ Changed(PushedFront(d, x), 1 - (cb.size - d.size))
    \/ Changed(d, d.size - cb.size)

PushBack ==
  \E x \in Data, d \in EnsuredCapacity(cb) :
    \/ Changed(PushedBack(d, x), 1 - (cb.size - d.size))
    \/ Changed(d, d.size - cb.size)

PopFront == Changed(PoppedFront(cb), IF cb.size = 0 THEN 0 ELSE -1)
PopBack == Changed(PoppedBack(cb), IF cb.size = 0 THEN 0 ELSE -1)
Clear == Changed(Cleared(cb), 0 - cb.size)

SetCallback == Changed([cb EXCEPT !.listening = TRUE], cb.size - heard)
ClearCallback == Changed([cb EXCEPT !.listening = FALSE], 0)

Destroy ==
  /\ cb' = NoDeque
  /\ heap' = heap - (Allocated(cb) - Allocated(Cleared(cb)))
  /\ heard' = 0

Next ==
  \/ Create
  \/ /\ cb # NoDeque
     /\ \/ PushFront \/ PushBack \/ PopFront \/ PopBack \/ Clear
        \/ SetCallback \/ ClearCallback \/ Destroy

Spec == Init /\ [][Next]_dequeVars

(* CBuffer_At: 0 is the front, -1 the back.                                  *)
At(index) ==
  LET logical == IF index < 0 THEN index + cb.size ELSE index IN
  IF logical < 0 \/ logical >= cb.size THEN NULL
  ELSE cb.arr[(cb.head + cb.reserved - 1 - logical) % cb.reserved]

Content == [i \in 1..cb.size |-> At(IF i = cb.size THEN -1 ELSE i - 1)]

Abstract == INSTANCE DequeSpec WITH content <- Content, told <- heard, blocks <- heap

(* The circular buffer keeps the promises of Deque.h, through growing and    *)
(* failing mallocs, and its callbacks tell its size (Deque.c:10, 107).       *)
DequeImplements == Abstract!Spec
=============================================================================
