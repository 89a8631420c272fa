------------------------------ MODULE DataPort ------------------------------
(***************************************************************************)
(* What the VDP's data port promises the two processors that write to it:  *)
(* every word a processor hands over is taken exactly once, after a wait   *)
(* if the port's buffer is full, and the words taken reach video memory    *)
(* one at a time in the order they were taken.  A processor has at most    *)
(* one word outstanding, and hands over nothing while it waits.  A reset   *)
(* of the VDP, the only other way for a word to leave, empties the buffer  *)
(* and is made while nobody waits.                                         *)
(***************************************************************************)
EXTENDS Naturals, Sequences

CONSTANTS
  Client,   \* the processors
  Value,    \* the words
  NoWord,   \* "nothing outstanding": no word
  Size      \* capacity of the buffer, at least 1

VARIABLES
  asked,    \* asked[c]: the word c has handed over and the port has not taken
  buffer    \* the words taken and not yet stored

Init ==
  /\ asked = [c \in Client |-> NoWord]
  /\ buffer = << >>

(* A processor hands over a word. *)
Ask(c, v) ==
  /\ asked[c] = NoWord
  /\ asked' = [asked EXCEPT ![c] = v]
  /\ UNCHANGED buffer

(* The port takes it. *)
Take(c) ==
  /\ asked[c] \in Value
  /\ Len(buffer) < Size
  /\ asked' = [asked EXCEPT ![c] = NoWord]
  /\ buffer' = Append(buffer, asked[c])

(* The oldest word reaches video memory. *)
Store ==
  /\ buffer # << >>
  /\ buffer' = Tail(buffer)
  /\ UNCHANGED asked

Clear ==
  /\ \A c \in Client : asked[c] = NoWord
  /\ buffer' = << >>
  /\ UNCHANGED asked

Next ==
  \/ \E c \in Client, v \in Value : Ask(c, v)
  \/ \E c \in Client : Take(c)
  \/ Store
  \/ Clear

Spec == Init /\ [][Next]_<<asked, buffer>>
=============================================================================
