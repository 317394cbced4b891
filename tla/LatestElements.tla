--------------------------- MODULE LatestElements ---------------------------
(***************************************************************************)
(* What a queue of limited capacity promises: it holds the latest N        *)
(* elements that were pushed, the oldest one first.                        *)
(***************************************************************************)
EXTENDS Naturals, Sequences

CONSTANTS
  N,        (* The capacity.                                               *)
  Elements  (* What can be pushed.                                         *)

VARIABLE latest

Init == latest = <<>>

Push(elem) == latest' = Append(IF Len(latest) < N THEN latest ELSE Tail(latest), elem)

Next == \E elem \in Elements : Push(elem)

Spec == Init /\ [][Next]_latest
=============================================================================
