----------------------------- MODULE DequeSpec -----------------------------
(* What Deque.h promises: a sequence of elements, the newest in front, that  *)
(* never has more than MaxSize of them.  It gives up its oldest one when it  *)
(* is full, or when memory is short, to take a new one.                      *)
EXTENDS Integers, SequencesExt

CONSTANTS Data, MaxSize

VARIABLES
  content,   \* the elements, the front first
  told,      \* how many there are, to a listener of its callbacks
  blocks     \* payloads on the heap

Init == content = <<>> /\ told = 0 /\ blocks = 0

Kept == {s \in {content, Front(content)} : Len(s) < MaxSize}
Pushed == {<<x>> \o s : x \in Data, s \in Kept} \cup {s \o <<x>> : x \in Data, s \in Kept}

(* A push may lose the oldest element, and itself when memory is short.      *)
Push == content' \in Pushed \cup Kept
Pop == content' \in {Tail(content), Front(content)}
Clear == content' = <<>>

Next ==
  /\ IF content = <<>> THEN content' \in Pushed \cup {content} ELSE Push \/ Pop \/ Clear
  /\ told' = Len(content')
  /\ blocks' = Len(content')

Spec == Init /\ [][Next]_<<content, told, blocks>>
=============================================================================
