------------------------------ MODULE FilterSet ------------------------------
(***************************************************************************)
(* struct bloomd_filter_set (src/src/util.c): an array of filters in the   *)
(* order they were added, with the index of the last one that was looked   *)
(* up.  An action is one call of the functions that daemon.c uses, which   *)
(* the single thread runs to the end.  daemon.c adds a filter only after a *)
(* lookup of its name found none (handle_create, load_metadata_dir).       *)
(*                                                                         *)
(* Indices count from 1, so that 0 can stand for SIZE_MAX.  What closing a *)
(* filter does to its log and map is in FilterStore.                       *)
(***************************************************************************)
EXTENDS Naturals, Sequences

CONSTANTS
  Names, Filters, NoFilter,
  InitCap,    \* the capacity of the first allocation, 8
  MaxFilters  \* bound on the filters in the set

ASSUME SetAssumption == NoFilter \notin Filters /\ InitCap \in Nat \ {0} /\ MaxFilters \in Nat

VARIABLES
  items,      \* set->items[0 .. set->len - 1]
  cap,        \* set->cap
  last,       \* set->last_index + 1, 0 for SIZE_MAX
  asked,      \* the name that the last call was about
  answer      \* the filter that it returned or closed

vars == <<items, cap, last, asked, answer>>

Entry == [name : Names, filter : Filters]

(* The types, and that every index that is remembered is one of the array. *)
TypeOK ==
  /\ items \in Seq(Entry) /\ Len(items) <= cap
  /\ cap \in Nat
  /\ last \in 0..Len(items)
  /\ asked \in Names /\ answer \in Filters \cup {NoFilter}

(* bloomd_filter_set_init.                                                 *)
Init == items = <<>> /\ cap = 0 /\ last = 0 /\ asked \in Names /\ answer = NoFilter

BugMatches(n) == {i \in 1..(Len(items) - 1) : items[i].name = n}

Matches(n) == {i \in 1..Len(items) : items[i].name = n}

(* The linear scan stops at the first match.                               *)
First(n) == CHOOSE i \in Matches(n) : \A j \in Matches(n) : i <= j

(* bloomd_filter_set_find_n: the remembered entry, if it has that name,    *)
(* else the scan, which remembers what it finds.                           *)
BugFound(n) == IF last \in 1..Len(items) THEN last ELSE IF Matches(n) = {} THEN 0 ELSE First(n)

Found(n) ==
  IF last \in Matches(n) THEN last
  ELSE IF Matches(n) = {} THEN 0 ELSE First(n)

Find(n) ==
  /\ IF Found(n) = 0
       THEN answer' = NoFilter /\ UNCHANGED last
       ELSE answer' = items[Found(n)].filter /\ last' = Found(n)
  /\ asked' = n
  /\ UNCHANGED <<items, cap>>

(* bloomd_filter_set_add: the array doubles when it is full.               *)
BugNewCap == IF Len(items) <= cap /\ cap # 0 THEN cap ELSE IF cap = 0 THEN InitCap ELSE 2 * cap

NewCap == IF Len(items) < cap THEN cap ELSE IF cap = 0 THEN InitCap ELSE 2 * cap

Add(n, f) ==
  /\ Found(n) = 0 /\ Len(items) < MaxFilters
  /\ cap' = NewCap
  /\ items' = Append(items, [name |-> n, filter |-> f])
  /\ last' = Len(items) + 1
  /\ asked' = n /\ answer' = f

AddFails(n) ==
  /\ Found(n) = 0 /\ Len(items) = cap
  /\ asked' = n /\ answer' = NoFilter
  /\ UNCHANGED <<items, cap, last>>

(* The memmove that closes the gap at index i.                             *)
Without(i) == [j \in 1..(Len(items) - 1) |-> IF j < i THEN items[j] ELSE items[j + 1]]

(* bloomd_filter_set_remove_n: last_index follows the entry it names.      *)
BugLastAfter(i) ==
  IF Len(items) = 1 \/ last = i \/ last > Len(items) - 1 THEN 0 ELSE last

LastAfter(i) ==
  IF Len(items) = 1 THEN 0
  ELSE IF last = i \/ last > Len(items) - 1 THEN 0
  ELSE IF last > i THEN last - 1 ELSE last

Remove(n) ==
  /\ IF Matches(n) = {}
       THEN answer' = NoFilter /\ UNCHANGED <<items, last>>
       ELSE /\ answer' = items[First(n)].filter
            /\ items' = Without(First(n))
            /\ last' = LastAfter(First(n))
  /\ asked' = n
  /\ UNCHANGED cap

(* bloomd_filter_set_free, when the process ends; the next one calls init. *)
Free == items' = <<>> /\ cap' = 0 /\ last' = 0 /\ answer' = NoFilter /\ UNCHANGED asked

Next ==
  \/ Free
  \/ \E n \in Names : Find(n) \/ AddFails(n) \/ Remove(n) \/ \E f \in Filters : Add(n, f)

Spec == Init /\ [][Next]_vars

-----------------------------------------------------------------------------
(* The table that the array stands for.                                    *)
TableOf(s) ==
  [n \in Names |-> IF \E i \in 1..Len(s) : s[i].name = n
                   THEN s[CHOOSE i \in 1..Len(s) : s[i].name = n].filter
                   ELSE NoFilter]

Table == INSTANCE NameTable WITH table <- TableOf(items)

(* Every sequence of lookups, additions and removals gives the answers of  *)
(* a plain table: neither the memmove of remove_n nor a last_index that    *)
(* was remembered before it makes find_n answer with another filter.       *)
ImplementsTable == Table!Spec

(* No name is twice in the array, so that removing a filter by name leaves *)
(* none of that name behind.                                               *)
NamesUnique == \A i, j \in 1..Len(items) : items[i].name = items[j].name => i = j

(* remove_n never leaves last_index on another filter than before: it      *)
(* follows the entry that it names, or forgets it.                         *)
CacheFollows ==
  [][last # 0 /\ last' # 0 /\ Len(items') < Len(items) => items'[last'] = items[last]]_vars
=============================================================================
