------------------------------ MODULE Strings ------------------------------
(* The two string libraries of AppBase, CString (on the heap, where malloc   *)
(* may fail) and CString64 (in 64 bytes, where text may be cut), given the   *)
(* same calls.  A character is a digit, or one of the three below.           *)
EXTENDS Integers, SequencesExt

CONSTANTS
  Pieces,      \* texts that callers assign, print and append
  Lengths,     \* lengths asked of StrResize
  ArrayKinds,  \* the element types of arrays in use: names in Kinds
  MaxItems,    \* bound on the length of an array
  MaxText,     \* bound on the length of a text
  MaxCalls     \* bound on the calls in a run

Comma == 10
Space == 11
Minus == 12
Buffer == 64       \* sizeof(CString64_t.CString)

Objects == {"a", "b"}

VARIABLES
  dynamic,   \* CString_t: text, Length, and whether the pointer is NULL
  fixed,     \* CString64_t: text, Length
  alike,     \* no malloc failed since the object was last written whole
  items,     \* the array that the object was last written from, or <<>>
  calls      \* calls so far

stringVars == <<dynamic, fixed, alike, items, calls>>

Take(text, n) == SubSeq(text, 1, IF n < Len(text) THEN n ELSE Len(text))
NullString == [null |-> TRUE, text |-> <<>>, Length |-> 0]
Held(text) == [null |-> FALSE, text |-> text, Length |-> Len(text)]

(* The largest and smallest number of each type, and the bytes of the buffer *)
(* that StrInitializeFrom...Arr allows for each number and its separator.    *)
Unsigned ==
  [Uint8  |-> [factor |-> 6,  numbers |-> {<<0>>, <<2, 5, 5>>}],
   Uint16 |-> [factor |-> 8,  numbers |-> {<<0>>, <<6, 5, 5, 3, 5>>}],
   Uint32 |-> [factor |-> 13, numbers |-> {<<0>>, <<4, 2, 9, 4, 9, 6, 7, 2, 9, 5>>}],
   Uint64 |-> [factor |-> 23, numbers |-> {<<0>>, <<1, 8, 4, 4, 6, 7, 4, 4, 0, 7, 3, 7, 0, 9, 5, 5, 1, 6, 1, 5>>}]]
Signed ==
  [SInt8  |-> [factor |-> 7,  numbers |-> {<<1, 2, 7>>, <<Minus, 1, 2, 8>>}],
   SInt16 |-> [factor |-> 9,  numbers |-> {<<3, 2, 7, 6, 7>>, <<Minus, 3, 2, 7, 6, 8>>}],
   SInt32 |-> [factor |-> 14, numbers |-> {<<0>>, <<Minus, 2, 1, 4, 7, 4, 8, 3, 6, 4, 8>>}],
   SInt64 |-> [factor |-> 24, numbers |-> {<<0>>, <<Minus, 9, 2, 2, 3, 3, 7, 2, 0, 3, 6, 8, 5, 4, 7, 7, 5, 8, 0, 8>>}]]
Kinds ==
  [kind \in DOMAIN Unsigned \cup DOMAIN Signed |->
     IF kind \in DOMAIN Unsigned THEN Unsigned[kind] ELSE Signed[kind]]

Init ==
  /\ dynamic = [o \in Objects |-> NullString]
  /\ fixed = [o \in Objects |-> [text |-> <<>>, Length |-> 0]]
  /\ alike = [o \in Objects |-> TRUE]
  /\ items = [o \in Objects |-> <<>>]
  /\ calls = 0

(* What a call leaves in both objects: whole says that it replaces the text, *)
(* failed that malloc did.                                                   *)
Leave(o, d, f, whole, failed, array) ==
  /\ dynamic' = [dynamic EXCEPT ![o] = d]
  /\ fixed' = [fixed EXCEPT ![o] = f]
  /\ alike' = [alike EXCEPT ![o] = ~failed /\ (whole \/ @)]
  /\ items' = [items EXCEPT ![o] = IF failed THEN <<>> ELSE array]

Cut64(text) == LET kept == Take(text, Buffer - 1) IN [text |-> kept, Length |-> Len(kept)]

(* StrInitialize, StrPrint, StrAssign: a new block, which may not be had, in *)
(* place of the old one (StrInitialize does not free it).  Str64Initialize,  *)
(* Str64Print, Str64Assign cut at 63 characters, and so do                   *)
(* Str64SelfUpdateLength and Str64SelfShrink of a buffer that the caller has *)
(* filled.                                                                   *)
Assign(o, text) ==
  \/ Leave(o, Held(text), Cut64(text), TRUE, FALSE, <<>>)
  \/ Leave(o, NullString, Cut64(text), TRUE, TRUE, <<>>)

(* A NULL to initialise from, and StrFree; StrClear keeps the block.         *)
Drop(o) == Leave(o, NullString, Cut64(<<>>), TRUE, FALSE, <<>>)
Clear(o) == Leave(o, IF dynamic[o].null THEN dynamic[o] ELSE Held(<<>>), Cut64(<<>>), TRUE, FALSE, <<>>)

Copy(o, from) ==
  LET src == dynamic[from]
      f == [text |-> Take(fixed[from].text, Buffer - 1), Length |-> fixed[from].Length]
  IN  /\ from # o
      /\ dynamic' \in {[dynamic EXCEPT ![o] = d] : d \in IF src.null THEN {[src EXCEPT !.text = <<>>]}
                                                         ELSE {src, NullString}}
      /\ fixed' = [fixed EXCEPT ![o] = f]
      /\ alike' = [alike EXCEPT ![o] = alike[from] /\ dynamic'[o] = src]
      /\ items' = [items EXCEPT ![o] = IF dynamic'[o] = src THEN items[from] ELSE <<>>]

Append64_uncounted(o, text) ==
  LET remaining == Buffer - fixed[o].Length IN
  IF remaining <= 1 THEN fixed[o]
  ELSE [text |-> fixed[o].text \o Take(text, remaining - 1), Length |-> fixed[o].Length + Len(text)]

(* Str64Append: nothing in a full buffer; of a long text what fits.          *)
Append64(o, text) ==
  LET remaining == Buffer - fixed[o].Length IN
  IF remaining <= 1 THEN fixed[o]
  ELSE [text |-> fixed[o].text \o Take(text, remaining - 1),
        Length |-> IF Len(text) >= remaining THEN Buffer - 1 ELSE fixed[o].Length + Len(text)]

(* StrAppend: the old text goes only when there is a new block.              *)
StrAppend(o, text) ==
  LET d == dynamic[o] IN
  /\ d.Length + Len(text) <= MaxText
  /\ \/ Leave(o, [null |-> FALSE, text |-> d.text \o text, Length |-> d.Length + Len(text)],
              Append64(o, text), FALSE, FALSE, <<>>)
     \/ Leave(o, d, Append64(o, text), FALSE, TRUE, <<>>)

Cropped(s, n) == IF n < s.Length THEN [s EXCEPT !.text = Take(@, n), !.Length = n] ELSE s

Resize(o, n) ==
  Leave(o, IF dynamic[o].null THEN dynamic[o] ELSE Cropped(dynamic[o], n), Cropped(fixed[o], n),
        FALSE, FALSE, IF n < fixed[o].Length \/ n < dynamic[o].Length THEN <<>> ELSE items[o])

(* "%llu, " or "%lld, ", without the comma after the last number.            *)
Printed(array, i) == array[i] \o IF i = Len(array) THEN <<>> ELSE <<Comma, Space>>
Joined(array) ==
  LET joined[i \in 0..Len(array)] == IF i = 0 THEN <<>> ELSE joined[i - 1] \o Printed(array, i)
  IN  joined[Len(array)]

(* STR64_INIT_FROM_ARR stops where a number does not fit.                    *)
Joined64(array) ==
  LET state[i \in 0..Len(array)] ==
        IF i = 0 THEN [text |-> <<>>, Length |-> 0, stopped |-> FALSE]
        ELSE LET before == state[i - 1]
                 remaining == Buffer - before.Length
                 written == Printed(array, i)
                 text == before.text \o Take(written, remaining - 1)
             IN  IF before.stopped \/ remaining <= 1 THEN [before EXCEPT !.stopped = TRUE]
                 ELSE IF Len(written) >= remaining
                      THEN [text |-> text, Length |-> Buffer - 1, stopped |-> TRUE]
                      ELSE [text |-> text, Length |-> before.Length + Len(written), stopped |-> FALSE]
      last == state[Len(array)]
  IN  [text |-> last.text, Length |-> last.Length]

Arrays(kind) == UNION {[1..n -> Kinds[kind].numbers] : n \in 1..MaxItems}

(* StrInitializeFrom...Arr prints into a buffer of its own, then initialises *)
(* the string; both may fail to be had.                                      *)
InitializeFromArr(o) ==
  \E kind \in ArrayKinds : \E array \in Arrays(kind) :
    LET buf_size == Len(array) * Kinds[kind].factor + 1
        text == Take(Joined(array), buf_size - 1)
    IN  \/ Leave(o, Held(text), Joined64(array), TRUE, FALSE, array)
        \/ \E d \in {dynamic[o], NullString} : Leave(o, d, Joined64(array), TRUE, TRUE, <<>>)

Next ==
  /\ calls < MaxCalls /\ calls' = calls + 1
  /\ \E o \in Objects :
       \/ \E text \in Pieces : Assign(o, text) \/ StrAppend(o, text)
       \/ Drop(o) \/ Clear(o) \/ InitializeFromArr(o)
       \/ \E from \in Objects : Copy(o, from)
       \/ \E n \in Lengths : Resize(o, n)

(* StrConvertTo...Arr: numbers where strtoull finds one, a step on where it  *)
(* does not; it skips blanks itself.                                         *)
Converted(text, max_items) ==
  LET IsDigit(p) == p \in DOMAIN text /\ text[p] < 10
      Starts(p) == IsDigit(p) \/ (text[p] = Minus /\ IsDigit(p + 1))
      End(p) == Min({e \in p..Len(text) : ~IsDigit(e + 1)})
      found[p \in 1..Len(text) + 1] ==
        IF p > Len(text) THEN <<>>
        ELSE IF Starts(p) THEN <<SubSeq(text, p, End(p))>> \o found[End(p) + 1]
        ELSE found[p + 1]
  IN  Take(found[1], max_items)

StrConvertToArr(d) == IF d.null THEN <<>> ELSE Converted(d.text, MaxItems)
Str64ConvertToArr(f) == Converted(f.text, MaxItems)

StrIsEmpty(d) == d.Length = 0 \/ d.null
Str64IsEmpty(f) == f.Length = 0

(* Whatever is called in whatever order, and whatever malloc refuses or the  *)
(* 64 bytes cut (CString64.c:126, 142, 266): Length is the text's length in  *)
(* both libraries, CString64 has what CString has up to 63 characters unless *)
(* a malloc failed, and an array read back is the array written, however     *)
(* large its numbers are and whatever buffer was computed for them.          *)
StringsAgree ==
  \A o \in Objects :
    LET d == dynamic[o]  f == fixed[o] IN
    /\ d.Length = Len(d.text) /\ f.Length = Len(f.text) /\ f.Length < Buffer
    /\ alike[o] => /\ f.text = Take(d.text, Buffer - 1)
                   /\ StrIsEmpty(d) <=> Str64IsEmpty(f)
    /\ items[o] # <<>> =>
         /\ StrConvertToArr(d) = items[o]
         /\ Len(Joined(items[o])) < Buffer => Str64ConvertToArr(f) = items[o]
=============================================================================
