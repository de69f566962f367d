------------------------------ MODULE Dictionary ------------------------------
(***************************************************************************)
(* What the red-black tree (RBTree) promises its users: one datum for      *)
(* each key, found until it is deleted.                                    *)
(***************************************************************************)
CONSTANTS
  Data,      \* what can be stored
  KeyOf,     \* the key of each datum
  NoData     \* NULL

VARIABLES
  held,      \* the datum of each key
  answer     \* what the last call asked for and returned, NULL if nothing

vars == <<held, answer>>

Keys == {KeyOf[d] : d \in Data}
Answer(k, d) == [key |-> k, datum |-> d]

Init ==
  /\ held = [k \in Keys |-> NoData]
  /\ answer = NoData

\* The first datum of a key stays.  A new one is refused without memory.
Push(d) ==
  LET k == KeyOf[d] IN
  \/ held[k] # NoData /\ answer' = Answer(k, held[k]) /\ UNCHANGED held
  \/ held[k] = NoData /\ answer' = Answer(k, d) /\ held' = [held EXCEPT ![k] = d]
  \/ held[k] = NoData /\ answer' = Answer(k, NoData) /\ UNCHANGED held

Find(k) == answer' = Answer(k, held[k]) /\ UNCHANGED held

Del(k) ==
  /\ held[k] # NoData
  /\ held' = [held EXCEPT ![k] = NoData]
  /\ answer' = NoData

Clear == held' = [k \in Keys |-> NoData] /\ answer' = NoData

Next ==
  \/ \E d \in Data : Push(d)
  \/ \E k \in Keys : Find(k) \/ Del(k)
  \/ Clear

Spec == Init /\ [][Next]_vars
=============================================================================
