--------------------------- MODULE FilterSetProofs ---------------------------
(***************************************************************************)
(* The array of filters with its lookup cache implements a table from      *)
(* names to filters, for any names, filters and capacities.  The inductive *)
(* invariant is TypeOK /\ NamesUnique: with unique names the scan, the     *)
(* cache and the CHOOSE of the refinement mapping mean the same entry.     *)
(***************************************************************************)
EXTENDS FilterSet, TLAPS

Inv == TypeOK /\ NamesUnique

Unique(s) == \A i, j \in 1..Len(s) : s[i].name = s[j].name => i = j

(* What the table of an array without duplicates says of a name.           *)
LEMMA TableAt ==
  ASSUME NEW s \in Seq(Entry), Unique(s), NEW n \in Names
  PROVE  /\ \A i \in 1..Len(s) : s[i].name = n => TableOf(s)[n] = s[i].filter
         /\ (\A i \in 1..Len(s) : s[i].name # n) => TableOf(s)[n] = NoFilter
<1>1. ASSUME NEW i \in 1..Len(s), s[i].name = n
      PROVE  TableOf(s)[n] = s[i].filter
  <2>1. PICK k \in 1..Len(s) : s[k].name = n /\ k = CHOOSE j \in 1..Len(s) : s[j].name = n
    BY <1>1
  <2>2. k = i
    BY <1>1, <2>1 DEF Unique
  <2>. QED BY <1>1, <2>1, <2>2, Zenon DEF TableOf
<1>2. ASSUME \A i \in 1..Len(s) : s[i].name # n
      PROVE  TableOf(s)[n] = NoFilter
  BY <1>2 DEF TableOf
<1>. QED BY <1>1, <1>2

(* With unique names the scan of find_n and remove_n has one result.       *)
LEMMA FirstMatch ==
  ASSUME Inv, NEW n \in Names, Matches(n) # {}
  PROVE  First(n) \in Matches(n) /\ \A i \in Matches(n) : i = First(n)
<1>1. PICK i : i \in Matches(n)
  OBVIOUS
<1>2. \A j \in Matches(n) : j = i
  BY <1>1 DEF Inv, NamesUnique, Matches
<1>3. \A j \in Matches(n) : i <= j
  BY <1>1, <1>2 DEF Matches
<1>4. First(n) \in Matches(n)
  BY <1>1, <1>3 DEF First
<1>. QED BY <1>1, <1>2, <1>4

(* What find_n returns, with the cache or without it.                      *)
LEMMA FoundMatch ==
  ASSUME Inv, NEW n \in Names
  PROVE  /\ Found(n) = 0 <=> Matches(n) = {}
         /\ Found(n) # 0 => Found(n) \in Matches(n)
<1>1. 0 \notin Matches(n)
  BY DEF Matches
<1>. QED BY <1>1, FirstMatch DEF Found

(* The array after the memmove: shorter by one, all other entries in their *)
(* order.                                                                  *)
LEMMA WithoutItems ==
  ASSUME Inv, NEW k \in 1..Len(items)
  PROVE  /\ Without(k) \in Seq(Entry)
         /\ Len(Without(k)) = Len(items) - 1
         /\ \A j \in 1..(Len(items) - 1) : Without(k)[j] = IF j < k THEN items[j] ELSE items[j + 1]
         /\ Unique(Without(k))
<1>1. Len(items) \in Nat /\ Len(items) # 0
  BY DEF Inv, TypeOK
<1>2. \A j \in 1..(Len(items) - 1) : (IF j < k THEN items[j] ELSE items[j + 1]) \in Entry
  BY <1>1 DEF Inv, TypeOK
<1>3. Without(k) \in [1..(Len(items) - 1) -> Entry]
  BY <1>2 DEF Without
<1>4. Len(items) - 1 \in Nat
  BY <1>1
<1>5. Without(k) \in Seq(Entry) /\ Len(Without(k)) = Len(items) - 1
  BY <1>3, <1>4
<1>6. \A j \in 1..(Len(items) - 1) : Without(k)[j] = IF j < k THEN items[j] ELSE items[j + 1]
  BY DEF Without
<1>7. Unique(Without(k))
  <2> SUFFICES ASSUME NEW i \in 1..(Len(items) - 1), NEW j \in 1..(Len(items) - 1),
                      Without(k)[i].name = Without(k)[j].name
               PROVE  i = j
    BY <1>5 DEF Unique
  <2>1. i \in 1..Len(items) /\ i + 1 \in 1..Len(items) /\ j \in 1..Len(items) /\ j + 1 \in 1..Len(items)
    BY <1>1
  <2>. QED BY <1>6, <2>1, SMTT(30) DEF Inv, NamesUnique
<1>. QED BY <1>5, <1>6, <1>7

(* The table after a removal: the name is gone, the others stay.           *)
LEMMA TableWithout ==
  ASSUME Inv, NEW n \in Names, NEW k \in Matches(n)
  PROVE  TableOf(Without(k)) = [TableOf(items) EXCEPT ![n] = NoFilter]
<1>1. k \in 1..Len(items) /\ items[k].name = n /\ items \in Seq(Entry) /\ Unique(items)
  BY DEF Matches, Inv, TypeOK, NamesUnique, Unique
<1>2. /\ Without(k) \in Seq(Entry) /\ Len(Without(k)) = Len(items) - 1 /\ Unique(Without(k))
      /\ \A j \in 1..(Len(items) - 1) : Without(k)[j] = IF j < k THEN items[j] ELSE items[j + 1]
  BY <1>1, WithoutItems
<1>3. Len(items) \in Nat
  BY <1>1
<1>4. ASSUME NEW m \in Names
      PROVE  TableOf(Without(k))[m] = IF m = n THEN NoFilter ELSE TableOf(items)[m]
  <2>1. CASE m = n
    <3>1. \A j \in 1..(Len(items) - 1) : Without(k)[j].name # n
      BY <1>1, <1>2, <1>3, SMTT(30) DEF Unique
    <3>. QED BY <2>1, <3>1, <1>2, TableAt, SMTT(30)
  <2>2. CASE m # n /\ \E i \in 1..Len(items) : items[i].name = m
    <3>1. PICK i \in 1..Len(items) : items[i].name = m
      BY <2>2
    <3>2. i # k
      BY <1>1, <2>2, <3>1
    <3>3. TableOf(items)[m] = items[i].filter
      BY <1>1, <3>1, TableAt
    <3>4. PICK j \in 1..(Len(items) - 1) : Without(k)[j] = items[i]
      <4>1. CASE i < k
        BY <1>1, <1>2, <1>3, <4>1
      <4>2. CASE i > k
        <5>1. i - 1 \in 1..(Len(items) - 1) /\ ~(i - 1 < k) /\ (i - 1) + 1 = i
          BY <1>1, <1>3, <4>2
        <5>. QED BY <5>1, <1>2
      <4>. QED BY <3>2, <4>1, <4>2, <1>1
    <3>. QED BY <2>2, <3>1, <3>3, <3>4, <1>2, TableAt, SMTT(30)
  <2>3. CASE m # n /\ \A i \in 1..Len(items) : items[i].name # m
    <3>1. \A j \in 1..(Len(items) - 1) : Without(k)[j].name # m
      BY <1>1, <1>2, <1>3, <2>3
    <3>2. TableOf(Without(k))[m] = NoFilter
      BY <1>2, <3>1, TableAt
    <3>. QED BY <2>3, <3>2, <1>1, TableAt
  <2>. QED BY <2>1, <2>2, <2>3
<1>. QED BY <1>4 DEF TableOf

(* The table after an addition.                                            *)
LEMMA TableAppend ==
  ASSUME Inv, NEW n \in Names, NEW f \in Filters, Matches(n) = {}
  PROVE  LET s == Append(items, [name |-> n, filter |-> f]) IN
         /\ s \in Seq(Entry) /\ Len(s) = Len(items) + 1 /\ Unique(s)
         /\ TableOf(s) = [TableOf(items) EXCEPT ![n] = f]
<1> DEFINE e == [name |-> n, filter |-> f]
           s == Append(items, e)
<1>1. items \in Seq(Entry) /\ Unique(items) /\ e \in Entry /\ Len(items) \in Nat
  BY DEF Inv, TypeOK, NamesUnique, Unique, Entry
<1>2. /\ s \in Seq(Entry) /\ Len(s) = Len(items) + 1
      /\ \A i \in 1..Len(items) : s[i] = items[i]
      /\ s[Len(items) + 1] = e
  BY <1>1
<1>3. \A i \in 1..Len(items) : items[i].name # n
  BY DEF Matches
<1>4. e.name = n /\ e.filter = f
  OBVIOUS
<1> HIDE DEF e, s
<1>5. Unique(s)
  <2> SUFFICES ASSUME NEW i \in 1..Len(s), NEW j \in 1..Len(s), s[i].name = s[j].name
               PROVE  i = j
    BY DEF Unique
  <2>1. i \in 1..Len(items) \/ i = Len(items) + 1
    BY <1>1, <1>2
  <2>2. j \in 1..Len(items) \/ j = Len(items) + 1
    BY <1>1, <1>2
  <2>. QED BY <1>1, <1>2, <1>3, <1>4, <2>1, <2>2 DEF Unique
<1>6. ASSUME NEW m \in Names
      PROVE  TableOf(s)[m] = IF m = n THEN f ELSE TableOf(items)[m]
  <2>1. CASE m = n
    <3>1. Len(items) + 1 \in 1..Len(s)
      BY <1>1, <1>2
    <3>. QED BY <2>1, <3>1, <1>2, <1>4, <1>5, TableAt
  <2>2. CASE m # n /\ \E i \in 1..Len(items) : items[i].name = m
    <3>1. PICK i \in 1..Len(items) : items[i].name = m
      BY <2>2
    <3>2. i \in 1..Len(s) /\ s[i] = items[i]
      BY <1>1, <1>2, <3>1
    <3>. QED BY <2>2, <3>1, <3>2, <1>1, <1>2, <1>5, TableAt, SMTT(30)
  <2>3. CASE m # n /\ \A i \in 1..Len(items) : items[i].name # m
    <3>1. \A i \in 1..Len(s) : s[i].name # m
      BY <1>1, <1>2, <1>4, <2>3
    <3>2. TableOf(s)[m] = NoFilter
      BY <1>2, <1>5, <3>1, TableAt
    <3>. QED BY <2>3, <3>2, <1>1, TableAt
  <2>. QED BY <2>1, <2>2, <2>3
<1>7. TableOf(s) = [TableOf(items) EXCEPT ![n] = f]
  BY <1>6 DEF TableOf
<1>. QED BY <1>2, <1>5, <1>7 DEF s, e

-----------------------------------------------------------------------------
(* Every call keeps the invariant.                                         *)
LEMMA InvStep == Inv /\ [Next]_vars => Inv'
<1> SUFFICES ASSUME Inv, [Next]_vars PROVE Inv'
  OBVIOUS
<1>1. Len(items) \in Nat /\ items \in Seq(Entry)
  BY DEF Inv, TypeOK
<1>a. ASSUME NEW i \in 1..Len(items) PROVE items[i].filter \in Filters
  <2>1. items[i] \in Entry
    BY <1>1
  <2>. QED BY <2>1 DEF Entry
<1>2. ASSUME NEW n \in Names, Find(n) PROVE Inv'
  <2>1. Found(n) # 0 => Found(n) \in 1..Len(items) /\ items[Found(n)].filter \in Filters
    BY <1>a, FoundMatch DEF Matches
  <2>. QED BY <1>2, <2>1 DEF Find, Inv, TypeOK, NamesUnique
<1>3. ASSUME NEW n \in Names, AddFails(n) PROVE Inv'
  BY <1>3 DEF AddFails, Inv, TypeOK, NamesUnique
<1>4. ASSUME NEW n \in Names, Remove(n) PROVE Inv'
  <2>1. CASE Matches(n) = {}
    BY <1>4, <2>1 DEF Remove, Inv, TypeOK, NamesUnique
  <2>2. CASE Matches(n) # {}
    <3>1. First(n) \in 1..Len(items)
      BY <2>2, FirstMatch DEF Matches
    <3>2. /\ items' \in Seq(Entry) /\ Len(items') = Len(items) - 1 /\ Unique(items')
      BY <1>4, <2>2, <3>1, WithoutItems DEF Remove
    <3>3. last' \in 0..(Len(items) - 1)
      BY <1>1, <1>4, <2>2, <3>1 DEF Remove, LastAfter, Inv, TypeOK
    <3>4. items[First(n)].filter \in Filters
      BY <1>a, <3>1
    <3>5. TypeOK'
      BY <1>1, <1>4, <2>2, <3>2, <3>3, <3>4 DEF Remove, Inv, TypeOK
    <3>. QED BY <3>2, <3>5 DEF Inv, NamesUnique, Unique
  <2>. QED BY <2>1, <2>2
<1>5. ASSUME NEW n \in Names, NEW f \in Filters, Add(n, f) PROVE Inv'
  <2>1. Matches(n) = {}
    BY <1>5, FoundMatch DEF Add
  <2>2. items' \in Seq(Entry) /\ Len(items') = Len(items) + 1 /\ Unique(items')
    BY <1>5, <2>1, TableAppend, Zenon DEF Add
  <2>3. cap' \in Nat /\ Len(items) + 1 <= cap'
    BY <1>1, <1>5, SetAssumption DEF Add, NewCap, Inv, TypeOK
  <2>4. TypeOK'
    BY <1>1, <1>5, <2>2, <2>3 DEF Add, Inv, TypeOK
  <2>. QED BY <2>2, <2>4 DEF Inv, NamesUnique, Unique
<1>6. CASE Free
  BY <1>6 DEF Free, Inv, TypeOK, NamesUnique
<1>7. CASE UNCHANGED vars
  BY <1>7 DEF vars, Inv, TypeOK, NamesUnique
<1>. QED BY <1>2, <1>3, <1>4, <1>5, <1>6, <1>7 DEF Next

(* Every call is one step of the table, or none.                           *)
LEMMA TableStep == Inv /\ [Next]_vars => [Table!Next]_<<TableOf(items), asked, answer>>
<1> SUFFICES ASSUME Inv, [Next]_vars PROVE [Table!Next]_<<TableOf(items), asked, answer>>
  OBVIOUS
<1>1. items \in Seq(Entry) /\ Unique(items)
  BY DEF Inv, TypeOK, NamesUnique, Unique
<1>2. ASSUME NEW n \in Names, Matches(n) = {} PROVE TableOf(items)[n] = NoFilter
  BY <1>1, <1>2, TableAt DEF Matches
<1>3. ASSUME NEW n \in Names, NEW i \in Matches(n) PROVE TableOf(items)[n] = items[i].filter
  BY <1>1, TableAt DEF Matches
<1>4. ASSUME NEW n \in Names, Find(n) PROVE Table!Find(n)
  BY <1>2, <1>3, <1>4, FoundMatch DEF Find, Table!Find
<1>5. ASSUME NEW n \in Names, AddFails(n) PROVE Table!AddFails(n)
  BY <1>2, <1>5, FoundMatch DEF AddFails, Table!AddFails
<1>6. ASSUME NEW n \in Names, Remove(n) PROVE Table!Remove(n)
  <2>1. CASE Matches(n) = {}
    <3>1. TableOf(items)[n] = NoFilter /\ answer' = NoFilter /\ TableOf(items)' = TableOf(items)
      BY <1>2, <1>6, <2>1 DEF Remove
    <3>2. TableOf(items) = [TableOf(items) EXCEPT ![n] = NoFilter]
      BY <3>1 DEF TableOf
    <3>. QED BY <1>6, <3>1, <3>2 DEF Remove, Table!Remove
  <2>2. CASE Matches(n) # {}
    <3>1. First(n) \in Matches(n)
      BY <2>2, FirstMatch
    <3>2. TableOf(items)' = [TableOf(items) EXCEPT ![n] = NoFilter]
      BY <1>6, <2>2, <3>1, TableWithout DEF Remove
    <3>. QED BY <1>3, <1>6, <2>2, <3>1, <3>2 DEF Remove, Table!Remove
  <2>. QED BY <2>1, <2>2
<1>7. ASSUME NEW n \in Names, NEW f \in Filters, Add(n, f) PROVE Table!Add(n, f)
  <2>1. Matches(n) = {}
    BY <1>7, FoundMatch DEF Add
  <2>2. TableOf(items)' = [TableOf(items) EXCEPT ![n] = f]
    BY <1>7, <2>1, TableAppend DEF Add
  <2>. QED BY <1>2, <1>7, <2>1, <2>2 DEF Add, Table!Add
<1>8. CASE Free
  <2>1. TableOf(<<>>) = [n \in Names |-> NoFilter]
    BY DEF TableOf
  <2>. QED BY <1>8, <2>1 DEF Free, Table!Next, Table!Clear
<1>9. CASE UNCHANGED vars
  BY <1>9 DEF vars
<1>. QED BY <1>4, <1>5, <1>6, <1>7, <1>8, <1>9 DEF Next, Table!Next

LEMMA InvInit == Init => Inv
  BY SetAssumption DEF Init, Inv, TypeOK, NamesUnique

(* The array never holds a name twice and never remembers an index that it *)
(* does not have, after any sequence of calls.                             *)
THEOREM SetInvariant == Spec => [](TypeOK /\ NamesUnique)
<1>1. Inv /\ [Next]_vars => Inv'
  BY InvStep
<1>. QED BY <1>1, InvInit, PTL DEF Spec, Inv

(* No call writes past the capacity of the array, and the index that       *)
(* last_index remembers is one of it, for any number of names and filters. *)
THEOREM IndexInRange == Spec => []TypeOK
  BY SetInvariant, PTL

(* The filter set implements the table: find_n answers with the filter of  *)
(* the name it was asked for, cache and memmove notwithstanding.           *)
THEOREM SetImplementsTable == Spec => ImplementsTable
<1>1. Init => Table!Init
  <2> SUFFICES ASSUME Init PROVE Table!Init
    OBVIOUS
  <2>1. TableOf(items) = [n \in Names |-> NoFilter]
    BY DEF Init, TableOf
  <2>. QED BY <2>1 DEF Init, Table!Init
<1>2. Inv /\ [Next]_vars => [Table!Next]_<<TableOf(items), asked, answer>>
  BY TableStep
<1>3. Inv /\ [Next]_vars => Inv'
  BY InvStep
<1>. QED BY <1>1, <1>2, <1>3, InvInit, PTL DEF Spec, ImplementsTable, Table!Spec

(* remove_n moves last_index along with its entry or forgets it.           *)
THEOREM CacheFollowsEntry == Spec => CacheFollows
<1>1. Inv /\ [Next]_vars =>
        [last # 0 /\ last' # 0 /\ Len(items') < Len(items) => items'[last'] = items[last]]_vars
  <2> SUFFICES ASSUME Inv, Next, last # 0, last' # 0, Len(items') < Len(items)
               PROVE  items'[last'] = items[last]
    BY DEF vars
  <2>1. Len(items) \in Nat /\ items \in Seq(Entry)
    BY DEF Inv, TypeOK
  <2>2. ASSUME NEW n \in Names, NEW f \in Filters, Add(n, f) PROVE FALSE
    <3>1. Len(items') = Len(items) + 1
      BY <2>1, <2>2, FoundMatch, TableAppend DEF Add
    <3>. QED BY <2>1, <3>1
  <2>3. PICK n \in Names : Remove(n)
    <3>1. ~Free
      BY <2>1 DEF Free
    <3>. QED BY <2>1, <2>2, <3>1 DEF Next, Find, AddFails
  <2>4. Matches(n) # {}
    BY <2>1, <2>3 DEF Remove
  <2>5. First(n) \in 1..Len(items)
    BY <2>4, FirstMatch DEF Matches
  <2>6. \A j \in 1..(Len(items) - 1) : items'[j] = IF j < First(n) THEN items[j] ELSE items[j + 1]
    BY <2>3, <2>4, <2>5, WithoutItems DEF Remove
  <2>7. last' = LastAfter(First(n)) /\ last \in 0..Len(items)
    BY <2>3, <2>4 DEF Remove, Inv, TypeOK
  <2>. QED BY <2>1, <2>5, <2>6, <2>7 DEF LastAfter
<1>2. Inv /\ [Next]_vars => Inv'
  BY InvStep
<1>. QED BY <1>1, <1>2, InvInit, PTL DEF Spec, CacheFollows
=============================================================================
