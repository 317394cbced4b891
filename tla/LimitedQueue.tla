---------------------------- MODULE LimitedQueue -----------------------------
(***************************************************************************)
(* The queue of limited capacity of src/util/limited_queue.rs: an array of *)
(* N elements that push() walks around in circles.                         *)
(***************************************************************************)
EXTENDS Integers, Sequences

CONSTANTS
  N,        (* The capacity.                                               *)
  Elements, (* What can be pushed.                                         *)
  Default   (* T::default(), with which the array is filled.               *)

ASSUME CapacityAssumption == N \in Nat \ {0}
ASSUME DefaultAssumption == Default \in Elements

VARIABLES
  queue,  (* The array.                                                    *)
  end,    (* The index of the last element, if there is one.               *)
  len     (* How many of the elements of the array are in the queue.       *)

queueVars == <<queue, end, len>>

QueueInit ==
  /\ queue = [i \in 0 .. N - 1 |-> Default]
  /\ end = N - 1
  /\ len = 0

(* The index after `end`.                                                  *)
After(i) == (i + 1) % N

Push(elem) ==
  /\ end' = After(end)
  /\ queue' = [queue EXCEPT ![After(end)] = elem]
  /\ len' = IF len < N THEN len + 1 ELSE len

QueueNext == \E elem \in Elements : Push(elem)

QueueSpec == QueueInit /\ [][QueueNext]_queueVars

IsFull == len = N

(* Index::index.                                                           *)
PositionFromEnd(idx) == (idx + (IF IsFull THEN end ELSE 0)) % N
Position(idx) == (idx + (IF IsFull THEN end + 1 ELSE 0)) % N

(* &queue[from .. to], without the element at `to`.                        *)
Slice(from, to) == [i \in 1 .. to - from |-> queue[from + i - 1]]

AsSlices ==
  IF IsFull THEN <<Slice(end + 1, N), Slice(0, end + 1)>> ELSE << <<>>, Slice(0, len)>>

(***************************************************************************)
(* Properties                                                              *)
(***************************************************************************)

(* `end` is an index of the array. While the queue is not full the array   *)
(* is filled from the front: push() wrote len elements up to `end`.        *)
TypeOK ==
  /\ queue \in [0 .. N - 1 -> Elements]
  /\ end \in 0 .. N - 1
  /\ len \in 0 .. N
  /\ len < N => After(end) = len

(* The elements as the Index trait shows them.                             *)
Contents == [k \in 1 .. len |-> queue[Position(k - 1)]]

Latest == INSTANCE LatestElements WITH latest <- Contents

(* The queue always holds the latest N elements, oldest first.             *)
HoldsLatest == Latest!Spec
=============================================================================
