--------------------------- MODULE BatteryMemory ---------------------------
(***************************************************************************)
(* What a player is promised of a cartridge's battery memory: it is what   *)
(* the game last wrote or, after the game was loaded, what its file held;  *)
(* unsaved memory is given up only with the whole program; and memory that *)
(* is no longer unsaved is in the file and survives a loss of power.       *)
(***************************************************************************)
EXTENDS Naturals

CONSTANTS Game, NoCart

VARIABLES
  cart,   \* the game in the machine
  ram,    \* its battery memory: the number of the write that left it so
  dirty,  \* the memory is not saved
  shown,  \* shown[g]: what g's file holds
  safe    \* safe[g]: what it holds after a loss of power

vars == <<cart, ram, dirty, shown, safe>>

Init ==
  /\ cart = NoCart
  /\ ram = 0
  /\ dirty = FALSE
  /\ shown = [g \in Game |-> 0]
  /\ safe = [g \in Game |-> 0]

(* The game writes: no earlier memory, of any game, was like this one. *)
Write ==
  /\ cart \in Game
  /\ ram' \in Nat
  /\ \A g \in Game : shown[g] < ram' /\ safe[g] < ram'
  /\ dirty' = TRUE
  /\ UNCHANGED <<cart, shown, safe>>

(* The whole memory appears in the file at once, *)
Publish ==
  /\ dirty
  /\ shown' = [shown EXCEPT ![cart] = ram]
  /\ UNCHANGED <<cart, ram, dirty, safe>>

(* becomes permanent at any later time, *)
Settle(g) ==
  /\ safe' = [safe EXCEPT ![g] = shown[g]]
  /\ UNCHANGED <<cart, ram, dirty, shown>>

(* and only then counts as saved. *)
Acknowledge ==
  /\ dirty
  /\ shown[cart] = ram
  /\ safe' = [safe EXCEPT ![cart] = ram]
  /\ dirty' = FALSE
  /\ UNCHANGED <<cart, ram, shown>>

(* Only a saved cartridge is replaced; a game gets what its file holds. *)
Replace ==
  /\ ~dirty
  /\ cart' \in Game \union {NoCart}
  /\ ram' = IF cart' = NoCart THEN 0 ELSE shown[cart']
  /\ UNCHANGED <<dirty, shown, safe>>

(* The program ends, by itself or with the power. *)
Lose ==
  /\ cart' = NoCart
  /\ ram' = 0
  /\ dirty' = FALSE
  /\ shown' \in {shown, safe}
  /\ UNCHANGED safe

Next ==
  \/ Write
  \/ Publish
  \/ \E g \in Game : Settle(g)
  \/ Acknowledge
  \/ Replace
  \/ Lose

Spec == Init /\ [][Next]_vars
=============================================================================
