------------------------------- MODULE Listing -------------------------------
(***************************************************************************)
(* What the linked list (AList) promises its users: a sequence.            *)
(***************************************************************************)
EXTENDS Integers, SequencesExt

CONSTANTS
  Values,      \* what the list may hold
  NoValue      \* NULL

VARIABLES
  items,
  answer       \* what the last call asked for and returned, NULL if nothing

vars == <<items, answer>>

Init == items = <<>> /\ answer = NoValue

Longer(n) == Len(items') = Len(items) + n

\* At any place
Insert ==
  /\ Longer(1)
  /\ \E i \in 1 .. Len(items) + 1, v \in Values : items' = InsertAt(items, i, v)
  /\ answer' = NoValue

Delete ==
  /\ Longer(-1)
  /\ \E i \in DOMAIN items : items' = RemoveAt(items, i)
  /\ answer' = NoValue

Change ==
  /\ Longer(0)
  /\ \E i \in DOMAIN items, v \in Values : items' = [items EXCEPT ![i] = v]
  /\ answer' = NoValue

Clear == items' = <<>> /\ answer' = NoValue

\* Without memory
Refuse == UNCHANGED items /\ answer' = NoValue

Get(i) ==
  /\ answer' = [at |-> i, value |-> IF i \in DOMAIN items THEN items[i] ELSE NoValue]
  /\ UNCHANGED items

Next ==
  \/ Refuse \/ Clear \/ Insert \/ Delete \/ Change
  \/ \E i \in 1 .. Len(items) + 1 : Get(i)

Spec == Init /\ [][Next]_vars
=============================================================================
