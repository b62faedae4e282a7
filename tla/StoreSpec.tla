------------------------------ MODULE StoreSpec ------------------------------
(***************************************************************************)
(* What bloomd promises to its clients, without files, kernel maps and     *)
(* system calls.  A filter finds every digest that was added to it since   *)
(* it was created, whenever it is served at all, and nothing but DROP      *)
(* takes a filter away once it holds a digest: no failing call, no end of  *)
(* the process and no end of the host.  A Bloom filter may find more.      *)
(***************************************************************************)
CONSTANTS Names, Digests

VARIABLES
  exists,     \* exists[n]: a start finds a filter called n
  served,     \* the filters that answer requests
  kept,       \* kept[n]: the digests added to n
  view        \* view[n]: the digests that CHECK finds in a served filter n

vars == <<exists, served, kept, view>>

Init ==
  /\ exists = [n \in Names |-> FALSE] /\ served = {}
  /\ kept = [n \in Names |-> {}] /\ view = [n \in Names |-> {}]

(* CREATE writes down that there is a filter n, which is empty.            *)
Create(n) ==
  /\ n \notin served /\ kept[n] = {}
  /\ exists' = [exists EXCEPT ![n] = TRUE]
  /\ UNCHANGED <<served, kept, view>>

(* n begins to answer, after CREATE or after a start.                      *)
Serve(n) ==
  /\ n \notin served /\ exists[n]
  /\ served' = served \cup {n}
  /\ \E found \in SUBSET Digests : kept[n] \subseteq found /\ view' = [view EXCEPT ![n] = found]
  /\ UNCHANGED <<exists, kept>>

(* ADD of one digest to n.  It may be found in other filters as well.      *)
Add(n, d) ==
  /\ n \in served /\ exists[n]
  /\ kept' = [kept EXCEPT ![n] = @ \cup {d}]
  /\ \E found \in SUBSET served :
       n \in found /\ view' = [k \in Names |-> IF k \in found THEN view[k] \cup {d} ELSE view[k]]
  /\ UNCHANGED <<exists, served>>

(* n is not served any more: at the end of DROP, or when bloomd stops.     *)
Hide(n) ==
  /\ n \in served
  /\ served' = served \ {n} /\ view' = [view EXCEPT ![n] = {}]
  /\ UNCHANGED <<exists, kept>>

(* DROP removes the filter, and may hide it at once.                       *)
Drop(n) ==
  /\ n \in served
  /\ exists' = [exists EXCEPT ![n] = FALSE] /\ kept' = [kept EXCEPT ![n] = {}]
  /\ \/ UNCHANGED <<served, view>>
     \/ served' = served \ {n} /\ view' = [view EXCEPT ![n] = {}]

(* A filter that holds nothing may be given up while it is not served.     *)
Lose(n) ==
  /\ n \notin served /\ kept[n] = {}
  /\ exists' = [exists EXCEPT ![n] = FALSE]
  /\ UNCHANGED <<served, kept, view>>

(* The process or the host goes down: only filters that hold nothing may   *)
(* be lost, or be back after a DROP.                                       *)
GoDown ==
  /\ served' = {} /\ view' = [n \in Names |-> {}]
  /\ exists' \in [Names -> BOOLEAN]
  /\ \A n \in Names : kept[n] # {} => exists'[n] = exists[n]
  /\ UNCHANGED kept

Next ==
  \/ \E n \in Names : Create(n) \/ Serve(n) \/ Hide(n) \/ Drop(n) \/ Lose(n)
  \/ \E n \in Names, d \in Digests : Add(n, d)
  \/ GoDown

Spec == Init /\ [][Next]_vars
=============================================================================
