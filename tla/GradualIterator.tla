-------------------------- MODULE GradualIterator --------------------------
(***************************************************************************)
(* What every gradual difficulty calculator promises its caller.           *)
(*                                                                         *)
(* A calculator is created for one map of `total` steps. Each call of      *)
(* next() or nth(n) moves the position forward and answers with the        *)
(* attributes that the one-shot calculation gives for exactly the objects  *)
(* passed so far; once the last step was taken every further call answers  *)
(* None and nothing moves. nth(n) is zero-indexed and stops at the last    *)
(* step when fewer than n + 1 steps remain (which is what the performance  *)
(* calculators' last(), nth(usize::MAX), relies on).                       *)
(***************************************************************************)
EXTENDS Integers

CONSTANTS
  None      (* The answer of an exhausted calculator.                      *)

VARIABLES
  total,    (* Number of steps the map offers.                             *)
  regular,  (* regular[k]: the one-shot calculation of the first k steps.  *)
  position, (* Number of steps taken.                                      *)
  answer    (* What the latest call returned; None before the first call.  *)

gradualVars == <<total, regular, position, answer>>

Init ==
  /\ total \in Nat
  /\ DOMAIN regular = 0 .. total
  /\ position = 0
  /\ answer = None

(* A call that lands on step `to`, whichever of next() and nth() it was.   *)
Advance(to) ==
  /\ to \in position + 1 .. total
  /\ position' = to
  /\ answer' = regular[to]
  /\ UNCHANGED <<total, regular>>

(* A call of an exhausted calculator.                                      *)
Exhausted ==
  /\ position = total
  /\ answer' = None
  /\ UNCHANGED <<total, regular, position>>

Next ==
  \/ \E to \in position + 1 .. total : Advance(to)
  \/ Exhausted

Spec == Init /\ [][Next]_gradualVars

(* len(): the number of answers still to come.                             *)
Remaining == total - position
=============================================================================
