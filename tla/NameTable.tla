------------------------------ MODULE NameTable ------------------------------
(***************************************************************************)
(* What the handlers expect of struct bloomd_filter_set: a table from      *)
(* names to filters.  A lookup answers with the filter of that name or     *)
(* with none, whatever was added, removed and looked up before it.         *)
(***************************************************************************)
CONSTANTS
  Names,      \* filter names
  Filters,    \* identities of filters: the descriptors and the metadata
  NoFilter    \* a lookup that returns NULL

VARIABLES
  table,      \* table[n]: the filter called n
  asked,      \* the name that the last call was about
  answer      \* what it returned

Init == table = [n \in Names |-> NoFilter] /\ asked \in Names /\ answer = NoFilter

Find(n) == asked' = n /\ answer' = table[n] /\ UNCHANGED table

Add(n, f) ==
  /\ table[n] = NoFilter
  /\ table' = [table EXCEPT ![n] = f]
  /\ asked' = n /\ answer' = f

(* No memory: the caller keeps the filter, the table is as it was.         *)
AddFails(n) == table[n] = NoFilter /\ asked' = n /\ answer' = NoFilter /\ UNCHANGED table

(* Removing answers with the filter that was closed, if there was one.     *)
Remove(n) == asked' = n /\ answer' = table[n] /\ table' = [table EXCEPT ![n] = NoFilter]

Clear == table' = [n \in Names |-> NoFilter] /\ answer' = NoFilter /\ UNCHANGED asked

Next ==
  \/ Clear
  \/ \E n \in Names : Find(n) \/ AddFails(n) \/ Remove(n) \/ \E f \in Filters : Add(n, f)

Spec == Init /\ [][Next]_<<table, asked, answer>>
=============================================================================
