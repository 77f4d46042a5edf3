------------------------------- MODULE LogStream -------------------------------
(***************************************************************************)
(* What the log store promises: every stream is a log that only grows at its *)
(* end.  Old bytes may be dropped from the front once they are more than     *)
(* StreamCap behind the end, and nothing else ever changes.                  *)
(***************************************************************************)
EXTENDS Integers

CONSTANTS Streams, StreamCap

VARIABLES
  placed,  \* per stream the pairs <<offset, byte>> it holds
  high     \* per stream the offset at which the next byte goes

vars == <<placed, high>>

Init ==
  /\ placed = [s \in Streams |-> {}]
  /\ high = [s \in Streams |-> 0]

Evictable(s, offset) == offset < high'[s] - StreamCap

(* A byte that was there stays where it is, or is evicted behind the cap.   *)
KeepsOrEvicts(s) ==
  /\ { x \in placed'[s] : x[1] < high[s] } \subseteq placed[s]
  /\ \A x \in placed[s] \ placed'[s] : Evictable(s, x[1])

(* The new offsets follow the old end without a gap, one byte at each.      *)
Grows(s) ==
  /\ high'[s] >= high[s]
  /\ \A o \in high[s] .. high'[s] - 1 :
       \/ Evictable(s, o)
       \/ \E x \in placed'[s] : x[1] = o
  /\ \A x \in placed'[s] : x[1] < high'[s]
  /\ \A x, y \in placed'[s] : x[1] = y[1] => x = y

Append(s) ==
  /\ Grows(s)
  /\ KeepsOrEvicts(s)
  /\ \A t \in Streams \ {s} : placed'[t] = placed[t] /\ high'[t] = high[t]

Next == \E s \in Streams : Append(s)

Spec == Init /\ [][Next]_vars
================================================================================
