---------------------------- MODULE FormatsProofs ----------------------------
(***************************************************************************)
(* What the two ends of a format may rely on, for every instance of        *)
(* Requests and for every file of MetaFile.                                *)
(***************************************************************************)
EXTENDS Requests, MetaFile, SequenceTheorems, TLAPS

-----------------------------------------------------------------------------
(* bloomd_meta_read_file.  The lines of a file, the pieces of a line that  *)
(* fgets cuts in two, and the values that *meta may have.                  *)
Keys     == Values \cup Flags \cup {"version", "pin_path", "comment", "unknown"}
Vals     == {"good", "range", "junk", "0", "1", "2", "long", "cut", "subnormal"}
Lines    == [key : Keys, val : Vals]
Remnants == {Line("unknown", "junk"), Line("comment", "junk")}
LongPin  == Line("pin_path", "long")
CutPin   == Line("pin_path", "cut")
GotType  == [version : Vals, has_data : BOOLEAN, log_clean : BOOLEAN, pin_path : Vals \cup {""}, inrange : BOOLEAN]

FileTypes ==
  /\ file \in Seq(Lines) /\ left \in Seq(Lines)
  /\ wrote \in Meta \cup {NoMeta}
  /\ have \in SUBSET Keys /\ got \in GotType

(* The first j lines of the file have been read, and of the last of them   *)
(* the first o pieces are still to be read.                                *)
Place(j, o) ==
  /\ Len(left) = Len(file) - j + o
  /\ \A x \in (1 + o)..Len(left) : left[x] = file[j + x - o]
  /\ o = 1 => left[1] \in Remnants

(* What *meta and the have_ flags say about the first j lines.             *)
ReadTo(j) ==
  /\ \A p \in 1..j : file[p].key # "comment" => file[p].key \in have
  /\ \A k \in have : \E p \in 1..j : file[p].key = k
  /\ \A p \in 1..j : file[p].key \in Values /\ got.inrange => file[p].val = "good"
  /\ \A p \in 1..j : file[p].key = "has_data" => file[p].val = IF got.has_data THEN "1" ELSE "0"
  /\ \A p \in 1..j : file[p].key = "log_clean" => file[p].val = IF got.log_clean THEN "1" ELSE "0"
  /\ "has_data" \notin have => got.has_data
  /\ \A p \in 1..j : file[p].key = "version" => file[p].val \in {"0", got.version}
  /\ got.version # "0" => \E p \in 1..j : file[p].key = "version" /\ file[p].val = got.version

(* And what they say if the file is as it was written.                     *)
BackTo(j, o) ==
  /\ got.inrange
  /\ j = 0 => got.version = "0"
  /\ j >= 6 => wrote.error_rate = "good"
  /\ j = 11 => got.pin_path = IF wrote.pin_path = "long" THEN "cut" ELSE "good"
  /\ o = 1 => wrote.pin_path = "long"

(* The file that bloomd wrote comes back as it was exactly if its pin path *)
(* and its error rate are good, and with its flags in any case.            *)
BackIfFits ==
  wrote # NoMeta =>
    LET same == \A k \in Flags \cup {"pin_path"} : got[k] = wrote[k]
        fits == wrote.pin_path = "good" /\ wrote.error_rate = "good"
    IN  /\ reader = "ok" => (same <=> fits)
        /\ reader = "invalid" => ~fits

MetaInv ==
  /\ FileTypes
  /\ wrote # NoMeta => file = Body(wrote)
  /\ reader = "reading" =>
       \E j \in 0..Len(file), o \in {0, 1} : Place(j, o) /\ ReadTo(j) /\ (wrote # NoMeta => BackTo(j, o))
  /\ NotFlattered /\ BackIfFits /\ FlagsKept

LEMMA LineTypes ==
  /\ Remnants \subseteq Lines /\ LongPin \in Lines /\ CutPin \in Lines
  /\ OtherLines \subseteq Lines
  /\ \A m \in Meta : Body(m) \in Seq(Lines)
  <1>1. Remnants \subseteq Lines /\ LongPin \in Lines /\ CutPin \in Lines
    BY DEF Remnants, LongPin, CutPin, Lines, Line, Keys, Vals
  <1>2. OtherLines \subseteq Lines
    BY DEF OtherLines, Lines, Line, Keys, Vals
  <1>3. ASSUME NEW m \in Meta PROVE Body(m) \in Seq(Lines)
    <2>1. \A k \in Keys : ValueOf(m, k) \in Vals
      <3>1. ASSUME NEW k \in Keys PROVE ValueOf(m, k) \in {"0", "1", "good"} \cup {m.pin_path, m.error_rate}
        BY <3>1, ZenonT(60) DEF ValueOf
      <3>2. m.pin_path \in Vals /\ m.error_rate \in Vals
        BY DEF Meta, Vals
      <3> QED
        BY <3>1, <3>2 DEF Vals
    <2>2. Len(Order) = 11 /\ \A p \in 1..11 : Order[p] \in Keys
      BY DEF Order, Keys, Values, Flags
    <2>3. \A p \in 1..11 : Line(Order[p], ValueOf(m, Order[p])) \in Lines
      BY <2>1, <2>2, Zenon DEF Line, Lines
    <2> QED
      BY <2>2, <2>3, IsASeq DEF Body
  <1> QED
    BY <1>1, <1>2, <1>3, Zenon

(* One turn of the loop over the lines.                                    *)
LEMMA PieceOf ==
  ASSUME FileTypes, ReadLine
  PROVE  /\ left # <<>> /\ left[1] \in Lines /\ Len(left) \in Nat \ {0}
         /\ UNCHANGED <<file, wrote>>
         /\ \E l \in Lines :
              /\ l.key = left[1].key
              /\ \/ l = left[1] /\ left[1] # LongPin /\ left' = Tail(left)
                 \/ l = CutPin /\ left[1] = LongPin /\ \E r \in Remnants : left' = <<r>> \o Tail(left)
              /\ \/ l.key = "comment" /\ UNCHANGED <<reader, have, got>>
                 \/ /\ l.key # "comment" /\ Parses(l) /\ ~Seen(l.key)
                    /\ have' = have \cup {l.key} /\ got' = Assign(l) /\ UNCHANGED reader
                 \/ /\ l.key # "comment" /\ (Parses(l) => Seen(l.key))
                    /\ reader' = "invalid" /\ UNCHANGED <<have, got>>
  <1>1. left # <<>> /\ left[1] \in Lines /\ Len(left) \in Nat \ {0} /\ Head(left) = left[1] /\ Tail(left) \in Seq(Lines)
    BY DEF ReadLine, FileTypes
  <1>2. PICK pieces \in Pieces(left[1]) :
          /\ left' = Tail(pieces) \o Tail(left)
          /\ \/ Head(pieces).key = "comment" /\ UNCHANGED <<reader, have, got>>
             \/ /\ Head(pieces).key # "comment" /\ Parses(Head(pieces)) /\ ~Seen(Head(pieces).key)
                /\ have' = have \cup {Head(pieces).key} /\ got' = Assign(Head(pieces)) /\ UNCHANGED reader
             \/ /\ Head(pieces).key # "comment" /\ (Parses(Head(pieces)) => Seen(Head(pieces).key))
                /\ reader' = "invalid" /\ UNCHANGED <<have, got>>
    BY <1>1, Zenon DEF ReadLine
  <1>3. CASE left[1] = LongPin
    <2>1. PICK k \in {"unknown", "comment"} : pieces = <<CutPin, Line(k, "junk")>>
      BY <1>3, Zenon DEF Pieces, LongPin, CutPin
    <2>2. Head(pieces) = CutPin /\ Tail(pieces) = <<Line(k, "junk")>>
      BY <2>1
    <2>3. Line(k, "junk") \in Remnants
      BY <2>1 DEF Remnants
    <2>4. CutPin.key = left[1].key /\ CutPin \in Lines
      BY <1>3, LineTypes DEF CutPin, LongPin, Line
    <2> QED
      BY <1>1, <1>2, <1>3, <2>2, <2>3, <2>4, Zenon DEF ReadLine
  <1>4. CASE left[1] # LongPin
    <2>1. pieces = <<left[1]>>
      BY <1>4, Zenon DEF Pieces, LongPin
    <2>2. Head(pieces) = left[1] /\ Tail(pieces) \o Tail(left) = Tail(left)
      BY <1>1, <2>1
    <2> QED
      BY <1>1, <1>2, <1>4, <2>2, Zenon DEF ReadLine
  <1> QED
    BY <1>3, <1>4, Zenon

LEMMA NextPlace ==
  ASSUME FileTypes, NEW j \in 0..Len(file), left # <<>>, file' = file
  PROVE  /\ Place(j, 0) => j + 1 \in 1..Len(file) /\ left[1] = file[j + 1]
         /\ Place(j, 0) /\ left' = Tail(left) => Place(j + 1, 0)' /\ left' \in Seq(Lines)
         /\ Place(j, 1) /\ left' = Tail(left) => Place(j, 0)' /\ left' \in Seq(Lines)
         /\ \A r \in Remnants : Place(j, 0) /\ left' = <<r>> \o Tail(left) => Place(j + 1, 1)' /\ left' \in Seq(Lines)
  <1>1. /\ Len(file) \in Nat /\ Len(left) \in Nat /\ Len(left) > 0 /\ Tail(left) \in Seq(Lines)
        /\ Len(Tail(left)) = Len(left) - 1 /\ \A x \in 1..(Len(left) - 1) : Tail(left)[x] = left[x + 1]
    BY DEF FileTypes
  <1>2. ASSUME Place(j, 0) PROVE j + 1 \in 1..Len(file) /\ left[1] = file[j + 1]
    BY <1>1, <1>2 DEF Place
  <1>3. ASSUME Place(j, 0), left' = Tail(left) PROVE Place(j + 1, 0)' /\ left' \in Seq(Lines)
    <2>1. \A x \in 1..Len(left') : left'[x] = file[j + 1 + x]
      BY <1>1, <1>3, SMTT(30) DEF Place
    <2> QED
      BY <1>1, <1>3, <2>1 DEF Place
  <1>4. ASSUME Place(j, 1), left' = Tail(left) PROVE Place(j, 0)' /\ left' \in Seq(Lines)
    <2>1. \A x \in 1..Len(left') : left'[x] = file[j + x]
      BY <1>1, <1>4 DEF Place
    <2> QED
      BY <1>1, <1>4, <2>1 DEF Place
  <1>5. ASSUME NEW r \in Remnants, Place(j, 0), left' = <<r>> \o Tail(left)
        PROVE  Place(j + 1, 1)' /\ left' \in Seq(Lines)
    <2>1. r \in Lines
      BY LineTypes, Zenon
    <2>2. /\ left' \in Seq(Lines) /\ Len(left') = Len(left) /\ left'[1] = r
          /\ \A x \in 2..Len(left) : left'[x] = Tail(left)[x - 1]
      BY <1>1, <1>5, <2>1
    <2>3. \A x \in 2..Len(left') : left'[x] = file[j + x]
      BY <1>1, <1>5, <2>2, SMTT(30) DEF Place
    <2> QED
      BY <1>1, <1>5, <2>2, <2>3 DEF Place
  <1> QED
    BY <1>2, <1>3, <1>4, <1>5, Zenon

(* What an accepted line does to *meta.                                    *)
LEMMA Assigned ==
  ASSUME FileTypes, NEW l \in Lines, l.key # "comment", Parses(l), got' = Assign(l)
  PROVE  /\ l.key \in Keys \ {"comment", "unknown"}
         /\ got' \in GotType
         /\ got'.version = IF l.key = "version" THEN l.val ELSE got.version
         /\ got'.pin_path = IF l.key = "pin_path" THEN l.val ELSE got.pin_path
         /\ l.key = "has_data" => l.val = IF got'.has_data THEN "1" ELSE "0"
         /\ l.key # "has_data" => got'.has_data = got.has_data
         /\ l.key = "log_clean" => l.val = IF got'.log_clean THEN "1" ELSE "0"
         /\ l.key # "log_clean" => got'.log_clean = got.log_clean
         /\ l.key \in Values => (got'.inrange <=> got.inrange /\ l.val = "good")
         /\ l.key \notin Values => got'.inrange = got.inrange
  <1>1. l.key \in Keys /\ l.val \in Vals /\ got \in GotType
    BY DEF Lines, FileTypes
  <1>2. l.key # "unknown"
    <2>1. "unknown" \notin Values /\ "unknown" \notin Flags
      BY DEF Values, Flags
    <2> QED
      BY <2>1, Zenon DEF Parses
  <1>3. CASE l.key = "version"
    <2>1. l.key \notin Flags /\ l.key \notin Values /\ l.key # "has_data" /\ l.key # "log_clean" /\ l.key # "pin_path"
      BY <1>3 DEF Flags, Values
    <2>2. got' = [got EXCEPT !.version = l.val]
      BY <1>3, <2>1, Zenon DEF Assign
    <2> QED
      BY <1>1, <1>2, <1>3, <2>1, <2>2 DEF GotType
  <1>4. CASE l.key = "pin_path"
    <2>1. l.key \notin Flags /\ l.key \notin Values /\ l.key # "has_data" /\ l.key # "log_clean" /\ l.key # "version"
      BY <1>4 DEF Flags, Values
    <2>2. got' = [got EXCEPT !.pin_path = l.val]
      BY <1>4, <2>1, Zenon DEF Assign
    <2> QED
      BY <1>1, <1>2, <1>4, <2>1, <2>2 DEF GotType
  <1>5. CASE l.key \in Values
    <2>1. l.key \notin Flags /\ l.key \notin {"version", "pin_path", "has_data", "log_clean"}
      BY <1>5 DEF Flags, Values
    <2>2. got' = [got EXCEPT !.inrange = got.inrange /\ l.val = "good"]
      BY <2>1, Zenon DEF Assign
    <2> QED
      BY <1>1, <1>2, <1>5, <2>1, <2>2 DEF GotType
  <1>6. CASE l.key \in Flags
    <2>1. l.key \notin Values /\ l.key \notin {"version", "pin_path"}
      BY <1>6 DEF Flags, Values
    <2>2. l.val \in {"0", "1"}
      BY <1>6, <2>1, Zenon DEF Parses
    <2>3. got' = [got EXCEPT ![l.key] = (l.val = "1")]
      BY <1>6, <2>1, Zenon DEF Assign
    <2>4. CASE l.key = "has_data"
      <3>1. got' = [got EXCEPT !.has_data = (l.val = "1")]
        BY <2>3, <2>4, Zenon
      <3> QED
        BY <1>1, <1>2, <2>1, <2>2, <2>4, <3>1 DEF GotType
    <2>5. CASE l.key = "log_clean"
      <3>1. got' = [got EXCEPT !.log_clean = (l.val = "1")]
        BY <2>3, <2>5, Zenon
      <3> QED
        BY <1>1, <1>2, <2>1, <2>2, <2>5, <3>1 DEF GotType
    <2> QED
      BY <1>6, <2>4, <2>5 DEF Flags
  <1> QED
    BY <1>1, <1>2, <1>3, <1>4, <1>5, <1>6 DEF Keys

LEMMA ReadOne ==
  ASSUME FileTypes, NEW j \in 0..Len(file), j + 1 \in 1..Len(file), ReadTo(j), file' = file,
         NEW l \in Lines, l.key = file[j + 1].key, l = file[j + 1] \/ l = CutPin,
         l.key # "comment", Parses(l), ~Seen(l.key), have' = have \cup {l.key}, got' = Assign(l)
  PROVE  ReadTo(j + 1)'
  <1>1. /\ \A p \in 1..(j + 1) : p \in 1..j \/ p = j + 1
        /\ \A p \in 1..j : p \in 1..(j + 1) /\ p # j + 1
        /\ j + 1 \in 1..(j + 1)
    OBVIOUS
  <1>2. l.key # "pin_path" => l = file[j + 1]
    BY DEF CutPin, Line
  <1>3. /\ "pin_path" \notin Values /\ "has_data" \notin Values /\ "log_clean" \notin Values /\ "version" \notin Values
    BY DEF Values
  <1>4. l.key # "version" => \A p \in 1..j : file[p].key # l.key
    BY Zenon DEF Seen, ReadTo
  <1>5. l.key = "version" => got.version = "0"
    BY Zenon DEF Seen
  <1>6. \A p \in 1..(j + 1) : file'[p].key # "comment" => file'[p].key \in have'
    BY <1>1, Zenon DEF ReadTo
  <1>7. \A k \in have' : \E p \in 1..(j + 1) : file'[p].key = k
    BY <1>1, ZenonT(60) DEF ReadTo
  <1>8. \A p \in 1..(j + 1) : file'[p].key \in Values /\ got'.inrange => file'[p].val = "good"
    <2>1. got'.inrange => got.inrange /\ (l.key \in Values => l.val = "good")
      BY Assigned, Zenon
    <2>2. l.key \in Values => l = file[j + 1]
      BY <1>2, <1>3
    <2>3. got'.inrange /\ file[j + 1].key \in Values => file[j + 1].val = "good"
      BY <2>1, <2>2, Zenon
    <2>4. \A p \in 1..j : got'.inrange /\ file[p].key \in Values => file[p].val = "good"
      BY <2>1, Zenon DEF ReadTo
    <2> QED
      BY <1>1, <2>3, <2>4, Zenon
  <1>9. \A p \in 1..(j + 1) : file'[p].key = "has_data" => file'[p].val = IF got'.has_data THEN "1" ELSE "0"
    <2>1. CASE l.key = "has_data"
      <3>1. l.val = (IF got'.has_data THEN "1" ELSE "0") /\ l = file[j + 1]
        BY <1>2, <2>1, Assigned
      <3>2. \A p \in 1..j : file[p].key # "has_data"
        BY <1>4, <2>1
      <3> QED
        BY <1>1, <3>1, <3>2, Zenon
    <2>2. CASE l.key # "has_data"
      <3>1. got'.has_data = got.has_data
        BY <2>2, Assigned, Zenon
      <3> QED
        BY <1>1, <2>2, <3>1, ZenonT(60) DEF ReadTo
    <2> QED
      BY <2>1, <2>2, Zenon
  <1>10. \A p \in 1..(j + 1) : file'[p].key = "log_clean" => file'[p].val = IF got'.log_clean THEN "1" ELSE "0"
    <2>1. CASE l.key = "log_clean"
      <3>1. l.val = (IF got'.log_clean THEN "1" ELSE "0") /\ l = file[j + 1]
        BY <1>2, <2>1, Assigned
      <3>2. \A p \in 1..j : file[p].key # "log_clean"
        BY <1>4, <2>1
      <3> QED
        BY <1>1, <3>1, <3>2, Zenon
    <2>2. CASE l.key # "log_clean"
      <3>1. got'.log_clean = got.log_clean
        BY <2>2, Assigned, Zenon
      <3> QED
        BY <1>1, <2>2, <3>1, ZenonT(60) DEF ReadTo
    <2> QED
      BY <2>1, <2>2, Zenon
  <1>11. "has_data" \notin have' => got'.has_data
    BY Assigned, Zenon DEF ReadTo
  <1>12. /\ \A p \in 1..(j + 1) : file'[p].key = "version" => file'[p].val \in {"0", got'.version}
         /\ got'.version # "0" => \E p \in 1..(j + 1) : file'[p].key = "version" /\ file'[p].val = got'.version
    <2>1. CASE l.key = "version"
      <3>1. got'.version = l.val /\ l = file[j + 1] /\ got.version = "0"
        BY <1>2, <1>5, <2>1, Assigned
      <3>2. \A p \in 1..j : file[p].key = "version" => file[p].val = "0"
        BY <3>1 DEF ReadTo
      <3> QED
        BY <1>1, <2>1, <3>1, <3>2, Zenon
    <2>2. CASE l.key # "version"
      <3>1. got'.version = got.version
        BY <2>2, Assigned
      <3> QED
        BY <1>1, <2>2, <3>1, ZenonT(60) DEF ReadTo
    <2> QED
      BY <2>1, <2>2, Zenon
  <1> QED
    BY <1>6, <1>7, <1>8, <1>9, <1>10, <1>11, <1>12, ZenonT(60) DEF ReadTo

LEMMA SameRead == ASSUME NEW j, ReadTo(j), UNCHANGED <<file, have, got>> PROVE ReadTo(j)'
  BY ZenonT(60) DEF ReadTo

(* A comment is passed over.                                               *)
LEMMA ReadNone ==
  ASSUME NEW j \in 0..Len(file), j + 1 \in 1..Len(file), ReadTo(j), UNCHANGED <<file, have, got>>,
         file[j + 1].key = "comment"
  PROVE  ReadTo(j + 1)'
  <1>1. /\ \A p \in 1..(j + 1) : p \in 1..j \/ p = j + 1
        /\ \A p \in 1..j : p \in 1..(j + 1)
    OBVIOUS
  <1>2. "comment" \notin Values /\ file[j + 1].key \notin Values
    BY DEF Values
  <1>3. file[j + 1].key # "has_data" /\ file[j + 1].key # "log_clean" /\ file[j + 1].key # "version"
    OBVIOUS
  <1>4. /\ \A p \in 1..(j + 1) : file[p].key # "comment" => file[p].key \in have
        /\ \A k \in have : \E p \in 1..(j + 1) : file[p].key = k
    BY <1>1, ZenonT(60) DEF ReadTo
  <1>5. \A p \in 1..(j + 1) : file[p].key \in Values /\ got.inrange => file[p].val = "good"
    BY <1>1, <1>2, Zenon DEF ReadTo
  <1>6. /\ \A p \in 1..(j + 1) : file[p].key = "has_data" => file[p].val = IF got.has_data THEN "1" ELSE "0"
        /\ \A p \in 1..(j + 1) : file[p].key = "log_clean" => file[p].val = IF got.log_clean THEN "1" ELSE "0"
    BY <1>1, <1>3, Zenon DEF ReadTo
  <1>7. /\ \A p \in 1..(j + 1) : file[p].key = "version" => file[p].val \in {"0", got.version}
        /\ got.version # "0" => \E p \in 1..(j + 1) : file[p].key = "version" /\ file[p].val = got.version
    BY <1>1, <1>3, Zenon DEF ReadTo
  <1>8. "has_data" \notin have => got.has_data
    BY Zenon DEF ReadTo
  <1>9. ReadTo(j + 1)
    BY <1>4, <1>5, <1>6, <1>7, <1>8, Zenon DEF ReadTo
  <1> QED
    BY <1>9, SameRead, Zenon

(* The lines that bloomd_meta_write_atomic writes.                         *)
AsWritten(m) ==
  /\ Len(file) = 11
  /\ \A p \in 1..11 : file[p].key = Order[p]
  /\ \A p, q \in 1..11 : Order[p] = Order[q] => p = q
  /\ Order[1] = "version" /\ file[1].val = "1"
  /\ \A p \in {2, 3, 4, 5, 7, 8} : Order[p] \in Values /\ file[p].val = "good"
  /\ Order[6] = "error_rate" /\ file[6].val = m.error_rate
  /\ Order[9] = "has_data" /\ file[9].val = IF m.has_data THEN "1" ELSE "0"
  /\ Order[10] = "log_clean" /\ file[10].val = IF m.log_clean THEN "1" ELSE "0"
  /\ Order[11] = "pin_path" /\ file[11].val = m.pin_path
  /\ Values = {Order[p] : p \in 2..8}

LEMMA BodyLines == ASSUME NEW m \in Meta, file = Body(m) PROVE AsWritten(m)
  <1>1. /\ Len(Order) = 11
        /\ \A p, q \in 1..11 : Order[p] = Order[q] => p = q
        /\ Order[1] = "version" /\ Order[6] = "error_rate"
        /\ Order[9] = "has_data" /\ Order[10] = "log_clean" /\ Order[11] = "pin_path"
    BY DEF Order
  <1>2. /\ \A p \in {2, 3, 4, 5, 7, 8} : Order[p] \in {"name", "backend", "digest", "capacity", "hashes", "value_size"}
        /\ Values = {Order[p] : p \in 2..8}
    BY DEF Order, Values
  <1>3. Len(file) = 11 /\ \A p \in 1..11 : file[p] = Line(Order[p], ValueOf(m, Order[p]))
    BY <1>1 DEF Body
  <1>4. \A p \in 1..11 : file[p].key = Order[p] /\ file[p].val = ValueOf(m, Order[p])
    <2>1. \A k, v : Line(k, v).key = k /\ Line(k, v).val = v
      BY DEF Line
    <2> TAKE p \in 1..11
    <2>2. file[p] = Line(Order[p], ValueOf(m, Order[p]))
      BY <1>3
    <2> QED
      BY <2>1, <2>2
  <1>5. ValueOf(m, "version") = "1"
    <2>1. "version" \notin Flags /\ "version" \notin {"pin_path", "error_rate"}
      BY DEF Flags
    <2> QED
      BY <2>1, Zenon DEF ValueOf
  <1>6. ValueOf(m, "has_data") = IF m.has_data THEN "1" ELSE "0"
    <2>1. "has_data" # "version" /\ "has_data" \in Flags /\ "has_data" \notin {"pin_path", "error_rate"}
      BY DEF Flags
    <2> QED
      BY <2>1, Zenon DEF ValueOf
  <1>7. ValueOf(m, "log_clean") = IF m.log_clean THEN "1" ELSE "0"
    <2>1. "log_clean" # "version" /\ "log_clean" \in Flags /\ "log_clean" \notin {"pin_path", "error_rate"}
      BY DEF Flags
    <2> QED
      BY <2>1, Zenon DEF ValueOf
  <1>8. ValueOf(m, "pin_path") = m.pin_path /\ ValueOf(m, "error_rate") = m.error_rate
    <2>1. /\ "pin_path" # "version" /\ "pin_path" \notin Flags /\ "error_rate" # "version" /\ "error_rate" \notin Flags
          /\ {"pin_path", "error_rate"} = {"pin_path", "error_rate"}
      BY DEF Flags
    <2> QED
      BY <2>1, Zenon DEF ValueOf
  <1>9. ASSUME NEW k \in {"name", "backend", "digest", "capacity", "hashes", "value_size"} PROVE ValueOf(m, k) = "good"
    <2>1. k # "version" /\ k \notin Flags /\ k \notin {"pin_path", "error_rate"}
      BY <1>9 DEF Flags
    <2> QED
      BY <2>1, Zenon DEF ValueOf
  <1>10. ASSUME NEW p \in {2, 3, 4, 5, 7, 8} PROVE Order[p] \in Values /\ file[p].val = "good"
    <2>1. p \in 1..11 /\ p \in 2..8
      BY <1>10
    <2>2. file[p].val = ValueOf(m, Order[p]) /\ Order[p] \in Values
      BY <1>2, <1>4, <2>1, Zenon
    <2> QED
      BY <1>2, <1>9, <2>2, Zenon
  <1>11. 1 \in 1..11 /\ 6 \in 1..11 /\ 9 \in 1..11 /\ 10 \in 1..11 /\ 11 \in 1..11
    OBVIOUS
  <1>12. /\ file[1].val = ValueOf(m, "version")
         /\ file[6].val = ValueOf(m, "error_rate")
         /\ file[9].val = ValueOf(m, "has_data")
         /\ file[10].val = ValueOf(m, "log_clean")
         /\ file[11].val = ValueOf(m, "pin_path")
    BY <1>1, <1>4, <1>11, ZenonT(60)
  <1>13. /\ file[1].val = "1" /\ file[6].val = m.error_rate /\ file[11].val = m.pin_path
         /\ file[9].val = IF m.has_data THEN "1" ELSE "0"
         /\ file[10].val = IF m.log_clean THEN "1" ELSE "0"
    BY <1>5, <1>6, <1>7, <1>8, <1>12, Zenon
  <1> QED
    BY <1>1, <1>2, <1>3, <1>4, <1>10, <1>13, Zenon DEF AsWritten

(* Reading a line of a file that is as it was written.                     *)
LEMMA BackLine ==
  ASSUME FileTypes, wrote \in Meta, file = Body(wrote), NEW j \in 0..Len(file), j + 1 \in 1..Len(file),
         ReadTo(j), BackTo(j, 0),
         NEW l \in Lines, (l = file[j + 1] /\ file[j + 1] # LongPin) \/ (l = CutPin /\ file[j + 1] = LongPin)
  PROVE  /\ l.key # "comment" /\ ~Seen(l.key)
         /\ ~Parses(l) => wrote.error_rate # "good"
         /\ Parses(l) /\ got' = Assign(l) /\ wrote' = wrote =>
              BackTo(j + 1, 0)' /\ (l = CutPin => BackTo(j + 1, 1)')
  <1>1. AsWritten(wrote)
    BY BodyLines, Zenon
  <1>2. j \in 0..10 /\ j + 1 \in 1..11 /\ Len(file) = 11
    BY <1>1 DEF AsWritten
  <1>3. file[j + 1].key = Order[j + 1] /\ \A p \in 1..j : p \in 1..11 /\ p # j + 1 /\ file[p].key = Order[p]
    BY <1>1, <1>2 DEF AsWritten
  <1>4. l.key = Order[j + 1]
    BY <1>3 DEF CutPin, LongPin, Line
  <1>5. /\ j + 1 = 1 => Order[j + 1] = "version"
        /\ j + 1 # 1 => Order[j + 1] # "version"
        /\ j + 1 = 11 => Order[j + 1] = "pin_path"
        /\ j + 1 # 11 => Order[j + 1] # "pin_path"
        /\ j + 1 \in 2..8 <=> Order[j + 1] \in Values
        /\ j + 1 \in 9..10 <=> Order[j + 1] \in Flags
        /\ Order[j + 1] # "comment"
    BY <1>2 DEF Order, Values, Flags
  <1>6. wrote.error_rate \in {"good", "subnormal"} /\ wrote.pin_path \in {"good", "long"}
    BY DEF Meta
  <1>7. ~Seen(l.key)
    <2>1. CASE l.key = "version"
      <3>1. j = 0
        BY <1>2, <1>4, <1>5, <2>1
      <3> QED
        BY <2>1, <3>1 DEF Seen, BackTo
    <2>2. CASE l.key # "version"
      <3>1. l.key \notin have
        <4>1. \A p \in 1..j : file[p].key # l.key
          BY <1>1, <1>2, <1>3, <1>4 DEF AsWritten
        <4>2. \A k \in have : \E p \in 1..j : file[p].key = k
          BY Zenon DEF ReadTo
        <4> QED
          BY <4>1, <4>2, ZenonT(60)
      <3> QED
        BY <2>2, <3>1, Zenon DEF Seen
    <2> QED
      BY <2>1, <2>2
  <1>8. l.key # "pin_path" => l = file[j + 1]
    BY SMTT(30) DEF CutPin, Line
  <1>9. /\ j + 1 \in {2, 3, 4, 5, 7, 8} => l.val = "good"
        /\ j + 1 = 6 => l.val = wrote.error_rate
        /\ j + 1 = 1 => l.val = "1"
        /\ j + 1 \in 9..10 => l.val \in {"0", "1"}
    <2>1. j + 1 # 11 => l = file[j + 1]
      BY <1>4, <1>5, <1>8, SMTT(30)
    <2>2. \A p \in 9..10 : file[p].val \in {"0", "1"}
      BY <1>1 DEF AsWritten
    <2> QED
      BY <1>1, <1>2, <2>1, <2>2, SMTT(30) DEF AsWritten
  <1>10. j + 1 = 11 => /\ wrote.pin_path = "long" => l = CutPin
                       /\ wrote.pin_path = "good" => l # CutPin /\ l.val = "good"
    <2>1. j + 1 = 11 => file[j + 1].key = "pin_path" /\ file[j + 1].val = wrote.pin_path
      BY <1>1, <1>3 DEF AsWritten
    <2>2. file[j + 1] \in Lines
      BY DEF FileTypes
    <2>3. file[j + 1] = LongPin <=> file[j + 1].key = "pin_path" /\ file[j + 1].val = "long"
      BY <2>2 DEF Lines, LongPin, Line
    <2>4. LongPin # CutPin /\ CutPin.val = "cut"
      BY DEF LongPin, CutPin, Line
    <2> QED
      BY <2>1, <2>3, <2>4, SMTT(30)
  <1>11. l = CutPin => j + 1 = 11 /\ wrote.pin_path = "long" /\ l.val = "cut"
    <2>1. CutPin.key = "pin_path" /\ CutPin.val = "cut"
      BY DEF CutPin, Line
    <2> QED
      BY <1>2, <1>4, <1>5, <1>6, <1>10, <2>1, SMTT(30)
  <1>12. /\ l.key \in Values /\ Parses(l) => l.val \in {"good", "range"}
         /\ ~Parses(l) => j + 1 = 6 /\ l.val # "good"
    <2>1. CASE j + 1 = 1
      <3>1. l.key = "version" /\ l.val # "junk" /\ l.key \notin Values /\ l.key \notin Flags /\ l.key # "pin_path"
        BY <1>4, <1>5, <1>9, <2>1, SMTT(30)
      <3> QED
        BY <3>1, ZenonT(60) DEF Parses
    <2>2. CASE j + 1 \in 2..8
      <3>1. l.key # "version" /\ l.key # "pin_path" /\ l.key \in Values /\ l.key \notin Flags
        BY <1>4, <1>5, <2>2
      <3>2. Parses(l) <=> l.val \in {"good", "range"}
        BY <3>1, Zenon DEF Parses
      <3> QED
        BY <1>9, <2>2, <3>2
    <2>3. CASE j + 1 \in 9..10
      <3>1. l.key # "version" /\ l.key # "pin_path" /\ l.key \notin Values /\ l.key \in Flags /\ l.val \in {"0", "1"}
        BY <1>4, <1>5, <1>9, <2>3
      <3> QED
        BY <3>1, Zenon DEF Parses
    <2>4. CASE j + 1 = 11
      <3>1. l.key # "version" /\ l.key = "pin_path" /\ l.key \notin Values /\ l.key \notin Flags
        BY <1>4, <1>5, <2>4, SMTT(30)
      <3> QED
        BY <3>1, Zenon DEF Parses
    <2> QED
      BY <1>2, <2>1, <2>2, <2>3, <2>4
  <1>13. ASSUME Parses(l), got' = Assign(l), wrote' = wrote
         PROVE  BackTo(j + 1, 0)' /\ (l = CutPin => BackTo(j + 1, 1)')
    <2>1. l.key # "comment"
      BY <1>4, <1>5, SMTT(30)
    <2>2. l.key \in Values => l.val = "good"
      BY <1>2, <1>4, <1>5, <1>6, <1>9, <1>12, <1>13, SMTT(30)
    <2>3. got'.inrange
      BY <1>13, <2>1, <2>2, Assigned, Zenon DEF BackTo
    <2>4. j + 1 >= 6 => wrote.error_rate = "good"
      <3>1. j + 1 = 6 => wrote.error_rate = "good"
        BY <1>4, <1>5, <1>9, <2>2, SMTT(30)
      <3> QED
        BY <3>1 DEF BackTo
    <2>5. j + 1 = 11 => got'.pin_path = IF wrote.pin_path = "long" THEN "cut" ELSE "good"
      <3>1. j + 1 = 11 => got'.pin_path = l.val
        BY <1>4, <1>5, <1>13, <2>1, Assigned, SMTT(30)
      <3> QED
        BY <1>6, <1>10, <1>11, <3>1, SMTT(30)
    <2>6. j + 1 # 0
      OBVIOUS
    <2> QED
      BY <1>11, <1>13, <2>3, <2>4, <2>5, <2>6, SMTT(30) DEF BackTo
  <1> QED
    BY <1>4, <1>5, <1>6, <1>7, <1>9, <1>12, <1>13

LEMMA ReadLineInv == ASSUME MetaInv, ReadLine PROVE MetaInv'
  <1>1. FileTypes /\ reader = "reading" /\ left # <<>> /\ (wrote # NoMeta => wrote \in Meta /\ file = Body(wrote))
    BY Zenon DEF MetaInv, ReadLine, FileTypes
  <1>2. PICK j \in 0..Len(file), o \in {0, 1} : Place(j, o) /\ ReadTo(j) /\ (wrote # NoMeta => BackTo(j, o))
    BY <1>1, Zenon DEF MetaInv
  <1>3. PICK l \in Lines :
              /\ l.key = left[1].key
              /\ \/ l = left[1] /\ left[1] # LongPin /\ left' = Tail(left)
                 \/ l = CutPin /\ left[1] = LongPin /\ \E r \in Remnants : left' = <<r>> \o Tail(left)
              /\ \/ l.key = "comment" /\ UNCHANGED <<reader, have, got>>
                 \/ /\ l.key # "comment" /\ Parses(l) /\ ~Seen(l.key)
                    /\ have' = have \cup {l.key} /\ got' = Assign(l) /\ UNCHANGED reader
                 \/ /\ l.key # "comment" /\ (Parses(l) => Seen(l.key))
                    /\ reader' = "invalid" /\ UNCHANGED <<have, got>>
    BY <1>1, PieceOf, Zenon
  <1>4. UNCHANGED <<file, wrote>>
    BY <1>1, PieceOf, ZenonT(60)
  <1>5. reader' # "ok"
    BY <1>1, <1>3
  <1>6. FileTypes'
    <2>1. left' \in Seq(Lines)
      <3>1. Tail(left) \in Seq(Lines) /\ \A r \in Remnants : <<r>> \o Tail(left) \in Seq(Lines)
        BY <1>1, LineTypes, SMTT(30) DEF FileTypes
      <3> QED
        BY <1>3, <3>1, Zenon
    <2>2. have' \in SUBSET Keys
      BY <1>1, <1>3 DEF FileTypes, Lines
    <2>3. got' \in GotType
      BY <1>1, <1>3, Assigned, ZenonT(60) DEF FileTypes
    <2> QED
      BY <1>1, <1>4, <2>1, <2>2, <2>3, Zenon DEF FileTypes
  <1>7. ASSUME reader' = "reading" PROVE \E k \in 0..Len(file'), x \in {0, 1} : Place(k, x)' /\ ReadTo(k)' /\ (wrote' # NoMeta => BackTo(k, x)')
    <2>1. CASE o = 1
      <3>1. left[1] \in Remnants
        BY <1>2, <2>1 DEF Place
      <3>2. left[1] # LongPin /\ left[1].key \in {"unknown", "comment"}
        BY <3>1 DEF Remnants, LongPin, Line
      <3>3. l.key = "comment"
        <4>1. ASSUME l.key = "unknown" PROVE ~Parses(l)
          <5>1. l.key \notin Values /\ l.key \notin Flags /\ l.key # "version" /\ l.key # "pin_path"
            BY <4>1 DEF Values, Flags
          <5> QED
            BY <5>1, Zenon DEF Parses
        <4> QED
          BY <1>3, <1>7, <3>2, <4>1
      <3>4. left' = Tail(left) /\ UNCHANGED <<have, got>>
        BY <1>3, <3>2, <3>3, Zenon
      <3>5. Place(j, 0)'
        BY <1>1, <1>2, <1>4, <2>1, <3>4, NextPlace, ZenonT(60)
      <3>6. ReadTo(j)'
        BY <1>2, <1>4, <3>4, ZenonT(60) DEF ReadTo
      <3>7. wrote' # NoMeta => BackTo(j, 0)'
        <4>1. wrote # NoMeta => BackTo(j, 0)
          BY <1>2 DEF BackTo
        <4> QED
          BY <1>4, <3>4, <4>1, Zenon DEF BackTo
      <3> QED
        BY <1>4, <3>5, <3>6, <3>7, ZenonT(60)
    <2>2. CASE o = 0
      <3>1. Place(j, 0) /\ (wrote # NoMeta => BackTo(j, 0)) /\ file' = file /\ wrote' = wrote
        BY <1>2, <1>4, <2>2
      <3>2. j + 1 \in 1..Len(file) /\ left[1] = file[j + 1]
        BY <1>1, <3>1, NextPlace, Zenon
      <3>3. Place(j + 1, 0)' \/ (l = CutPin /\ Place(j + 1, 1)')
        <4>1. CASE left' = Tail(left)
          BY <1>1, <3>1, <4>1, NextPlace, Zenon
        <4>2. CASE l = CutPin /\ \E r \in Remnants : left' = <<r>> \o Tail(left)
          <5>1. PICK r \in Remnants : left' = <<r>> \o Tail(left)
            BY <4>2, Zenon
          <5>2. Place(j + 1, 1)'
            BY <1>1, <3>1, <5>1, NextPlace, ZenonT(60)
          <5> QED
            BY <4>2, <5>2, Zenon
        <4> QED
          BY <1>3, <4>1, <4>2, Zenon
      <3>4. (l = file[j + 1] /\ file[j + 1] # LongPin) \/ (l = CutPin /\ file[j + 1] = LongPin)
        BY <1>3, <3>2
      <3>5. ASSUME wrote' # NoMeta PROVE BackTo(j + 1, 0)' /\ (l = CutPin => BackTo(j + 1, 1)')
        <4>1. wrote \in Meta /\ file = Body(wrote) /\ BackTo(j, 0)
          BY <1>1, <3>1, <3>5, Zenon
        <4>2. l.key # "comment"
          BY <1>1, <1>2, <3>2, <3>4, <4>1, BackLine, ZenonT(60)
        <4>3. Parses(l) /\ got' = Assign(l)
          BY <1>3, <1>7, <4>2
        <4> QED
          BY <1>1, <1>2, <3>1, <3>2, <3>4, <4>1, <4>3, BackLine, ZenonT(60)
      <3>6. ReadTo(j + 1)'
        <4>1. CASE l.key = "comment"
          BY <1>2, <1>3, <1>4, <3>2, <4>1, ReadNone, ZenonT(60)
        <4>2. CASE l.key # "comment"
          <5>1. Parses(l) /\ ~Seen(l.key) /\ have' = have \cup {l.key} /\ got' = Assign(l)
            BY <1>3, <1>7, <4>2
          <5> QED
            BY <1>1, <1>2, <1>3, <1>4, <3>2, <4>2, <5>1, ReadOne, ZenonT(60)
        <4> QED
          BY <4>1, <4>2, Zenon
      <3>7. j + 1 \in 0..Len(file')
        BY <1>4, <3>2
      <3> QED
        BY <3>3, <3>5, <3>6, <3>7, Zenon
    <2> QED
      BY <2>1, <2>2
  <1>8. ASSUME wrote # NoMeta, reader' = "invalid" PROVE ~(wrote.pin_path = "good" /\ wrote.error_rate = "good")
    <2>1. CASE o = 1
      BY <1>2, <1>8, <2>1 DEF BackTo
    <2>2. CASE o = 0
      <3>1. Place(j, 0) /\ BackTo(j, 0) /\ wrote \in Meta /\ file = Body(wrote) /\ file' = file
        BY <1>1, <1>2, <1>4, <1>8, <2>2
      <3>2. j + 1 \in 1..Len(file) /\ left[1] = file[j + 1]
        BY <1>1, <3>1, NextPlace, ZenonT(60)
      <3>3. (l = file[j + 1] /\ file[j + 1] # LongPin) \/ (l = CutPin /\ file[j + 1] = LongPin)
        BY <1>3, <3>2
      <3>4. Parses(l) => Seen(l.key) \/ l.key = "comment"
        BY <1>1, <1>3, <1>8
      <3> QED
        BY <1>1, <1>2, <3>1, <3>2, <3>3, <3>4, BackLine, ZenonT(60)
    <2> QED
      BY <2>1, <2>2
  <1>9. BackIfFits'
    BY <1>4, <1>5, <1>8, Zenon DEF BackIfFits
  <1>10. wrote' # NoMeta => file' = Body(wrote')
    BY <1>1, <1>4, Zenon
  <1> QED
    BY <1>5, <1>6, <1>7, <1>9, <1>10, Zenon DEF MetaInv, NotFlattered, FlagsKept

LEMMA ReadEndInv == ASSUME MetaInv, ReadEnd PROVE MetaInv'
  <1>1. /\ FileTypes /\ reader = "reading" /\ left = <<>> /\ UNCHANGED <<file, wrote, left, have>>
        /\ reader' \in {"ok", "invalid"}
        /\ wrote # NoMeta => wrote \in Meta /\ file = Body(wrote)
    BY Zenon DEF MetaInv, ReadEnd, FileTypes
  <1>2. ReadTo(Len(file)) /\ (wrote # NoMeta => BackTo(Len(file), 0))
    <2>1. PICK j \in 0..Len(file), o \in {0, 1} : Place(j, o) /\ ReadTo(j) /\ (wrote # NoMeta => BackTo(j, o))
      BY <1>1, Zenon DEF MetaInv
    <2>2. j = Len(file) /\ o = 0
      BY <1>1, <2>1 DEF Place, FileTypes
    <2> QED
      BY <2>1, <2>2, Zenon
  <1>3. got \in GotType /\ file \in Seq(Lines)
    BY <1>1, Zenon DEF FileTypes
  <1>4. /\ DefaultClean \in GotType /\ DefaultClean.has_data = got.has_data
        /\ DefaultClean.version = got.version
        /\ "log_clean" \in have => DefaultClean.log_clean = got.log_clean
        /\ "log_clean" \notin have => DefaultClean.log_clean = ~got.has_data
    BY <1>3 DEF DefaultClean, GotType
  <1>5. got' \in GotType
    BY <1>3, <1>4, Zenon DEF ReadEnd
  <1>6. ASSUME reader' = "ok" PROVE NotFlattered'
    <2>1. Required \subseteq have /\ got.version = "1" /\ got.inrange /\ got' = DefaultClean
      BY <1>6 DEF ReadEnd
    <2>2. ASSUME ~got'.has_data PROVE ValuesOf("has_data")' = {"0"}
      <3>1. ~got.has_data /\ "has_data" \in have
        BY <1>2, <1>4, <2>1, <2>2, Zenon DEF ReadTo
      <3>2. \A p \in 1..Len(file) : file[p].key = "has_data" => file[p].val = "0"
        BY <1>2, <3>1, Zenon DEF ReadTo
      <3>3. \E p \in 1..Len(file) : file[p].key = "has_data"
        BY <1>2, <3>1, Zenon DEF ReadTo
      <3> QED
        BY <1>1, <3>2, <3>3, Zenon DEF ValuesOf
    <2>3. ASSUME got'.has_data, got'.log_clean PROVE ValuesOf("log_clean")' = {"1"}
      <3>1. "log_clean" \in have /\ got.log_clean
        BY <1>4, <2>1, <2>3, Zenon
      <3>2. \A p \in 1..Len(file) : file[p].key = "log_clean" => file[p].val = "1"
        BY <1>2, <3>1, Zenon DEF ReadTo
      <3>3. \E p \in 1..Len(file) : file[p].key = "log_clean"
        BY <1>2, <3>1, Zenon DEF ReadTo
      <3> QED
        BY <1>1, <3>2, <3>3, Zenon DEF ValuesOf
    <2>4. ValuesOf("version")' \ {"0"} = {"1"}
      <3>1. \A p \in 1..Len(file) : file[p].key = "version" => file[p].val \in {"0", "1"}
        BY <1>2, <2>1, Zenon DEF ReadTo
      <3>2. \E p \in 1..Len(file) : file[p].key = "version" /\ file[p].val = "1"
        <4>1. got.version # "0"
          BY <2>1
        <4> QED
          BY <1>2, <2>1, <4>1, ZenonT(60) DEF ReadTo
      <3>3. ValuesOf("version")' \subseteq {"0", "1"} /\ "1" \in ValuesOf("version")'
        BY <1>1, <3>1, <3>2, Zenon DEF ValuesOf
      <3> QED
        BY <3>3
    <2>5. ASSUME NEW k \in Values PROVE ValuesOf(k)' = {"good"}
      <3>1. k \in have
        BY <2>1, <2>5 DEF Required
      <3>2. \A p \in 1..Len(file) : file[p].key = k => file[p].val = "good"
        BY <1>2, <2>1, <2>5, ZenonT(60) DEF ReadTo
      <3>3. \E p \in 1..Len(file) : file[p].key = k
        BY <1>2, <3>1, Zenon DEF ReadTo
      <3> QED
        BY <1>1, <3>2, <3>3, Zenon DEF ValuesOf
    <2> QED
      BY <2>2, <2>3, <2>4, <2>5, Zenon DEF NotFlattered
  <1>7. reader' # "reading"
    BY <1>1
  <1>8. ASSUME wrote # NoMeta
        PROVE  /\ reader' = "ok"
               /\ got'.has_data = wrote.has_data /\ got'.log_clean = wrote.log_clean
               /\ got'.pin_path = wrote.pin_path <=> wrote.pin_path = "good" /\ wrote.error_rate = "good"
    <2>1. AsWritten(wrote) /\ wrote \in Meta
      BY <1>1, <1>8, BodyLines, Zenon
    <2>2. Len(file) = 11 /\ ReadTo(11) /\ BackTo(11, 0)
      BY <1>2, <1>8, <2>1, Zenon DEF AsWritten
    <2>3. \A p \in 1..11 : Order[p] # "comment" => Order[p] \in have
      <3>1. \A p \in 1..11 : file[p].key # "comment" => file[p].key \in have
        BY <2>2, Zenon DEF ReadTo
      <3>2. \A p \in 1..11 : file[p].key = Order[p]
        BY <2>1, Zenon DEF AsWritten
      <3> QED
        BY <3>1, <3>2, Zenon
    <2>4. Required \subseteq have /\ "log_clean" \in have
      <3>1. \A p \in 2..11 : p \in 1..11 /\ Order[p] # "comment"
        BY DEF Order
      <3>2. Required \subseteq {Order[p] : p \in 2..11} /\ "log_clean" = Order[10] /\ 10 \in 2..11
        BY DEF Order, Required, Values
      <3> QED
        BY <2>3, <3>1, <3>2, Zenon
    <2>5. got.inrange /\ wrote.error_rate = "good"
      BY <2>2, SMTT(30) DEF BackTo
    <2>6. got.version = "1"
      BY <2>1, <2>2 DEF AsWritten, ReadTo
    <2>7. reader' = "ok" /\ got' = DefaultClean
      BY <2>4, <2>5, <2>6, Zenon DEF ReadEnd
    <2>8. got.pin_path = IF wrote.pin_path = "long" THEN "cut" ELSE "good"
      BY <2>2 DEF BackTo
    <2>9. got'.pin_path = got.pin_path
      BY <1>3, <2>7 DEF DefaultClean, GotType
    <2>10. wrote.pin_path \in {"good", "long"} /\ wrote.has_data \in BOOLEAN /\ wrote.log_clean \in BOOLEAN
      BY <2>1 DEF Meta
    <2>11. got.has_data \in BOOLEAN /\ got.log_clean \in BOOLEAN
      BY <1>3 DEF GotType
    <2>12. /\ (IF got.has_data THEN "1" ELSE "0") = IF wrote.has_data THEN "1" ELSE "0"
           /\ (IF got.log_clean THEN "1" ELSE "0") = IF wrote.log_clean THEN "1" ELSE "0"
      <3>1. 9 \in 1..11 /\ 10 \in 1..11
        OBVIOUS
      <3> QED
        <4>1. /\ file[9].key = "has_data" /\ file[9].val = IF wrote.has_data THEN "1" ELSE "0"
              /\ file[10].key = "log_clean" /\ file[10].val = IF wrote.log_clean THEN "1" ELSE "0"
          BY <2>1, <3>1, ZenonT(60) DEF AsWritten
        <4>2. /\ file[9].key = "has_data" => file[9].val = IF got.has_data THEN "1" ELSE "0"
              /\ file[10].key = "log_clean" => file[10].val = IF got.log_clean THEN "1" ELSE "0"
          BY <2>2, <3>1, Zenon DEF ReadTo
        <4> QED
          BY <4>1, <4>2, Zenon
    <2>13. got.has_data = wrote.has_data /\ got.log_clean = wrote.log_clean
      BY <2>10, <2>11, <2>12
    <2> QED
      BY <1>4, <2>4, <2>5, <2>7, <2>8, <2>9, <2>10, <2>13
  <1>9. BackIfFits'
    <2>1. \A k : k \in Flags \cup {"pin_path"} <=> k = "has_data" \/ k = "log_clean" \/ k = "pin_path"
      BY DEF Flags
    <2>2. reader' = "ok" => reader' # "invalid"
      OBVIOUS
    <2> QED
      BY <1>1, <1>8, <2>1, <2>2, Zenon DEF BackIfFits
  <1>10. FlagsKept'
    <2>1. \A k \in Flags : k = "has_data" \/ k = "log_clean"
      BY DEF Flags
    <2> QED
      BY <1>1, <1>8, <2>1, Zenon DEF FlagsKept
  <1> QED
    BY <1>1, <1>5, <1>6, <1>7, <1>9, <1>10, Zenon DEF MetaInv, FileTypes, NotFlattered

LEMMA EditFile ==
  ASSUME file \in Seq(Lines), Edit
  PROVE  file' \in Seq(Lines)
  <1> DEFINE Before(p) == SubSeq(file, 1, p - 1)
             After(q)  == SubSeq(file, q + 1, Len(file))
  <1>1. PICK p \in 1..(Len(file) + 1), new \in {<<>>} \cup {<<l>> : l \in OtherLines} :
          \E q \in (p - 1)..Len(file) : file' = Before(p) \o new \o After(q)
    BY Zenon DEF Edit
  <1>2. PICK q \in (p - 1)..Len(file) : file' = Before(p) \o new \o After(q)
    BY <1>1, Zenon
  <1>3. Before(p) \in Seq(Lines) /\ After(q) \in Seq(Lines)
    <2>1. /\ Len(file) \in Nat /\ p \in Int /\ q \in Int /\ p - 1 <= Len(file) /\ q + 1 >= 1
          /\ \A x \in 1..Len(file) : file[x] \in Lines
      OBVIOUS
    <2> QED
      BY <2>1
  <1>4. new \in Seq(Lines)
    <2>1. \A l \in OtherLines : <<l>> \in Seq(Lines)
      BY LineTypes
    <2>2. <<>> \in Seq(Lines)
      OBVIOUS
    <2> QED
      BY <2>1, <2>2, Zenon
  <1> HIDE DEF Before, After
  <1> QED
    BY <1>2, <1>3, <1>4

LEMMA MetaStep == ASSUME MetaInv, [FileNext]_fileVars PROVE MetaInv'
  <1>1. FileTypes /\ Blank \in GotType /\ {} \in SUBSET Keys /\ <<>> \in Seq(Lines)
    BY DEF MetaInv, Blank, GotType, Vals
  <1>2. ASSUME NEW m \in Meta, Write(m) PROVE MetaInv'
    <2>1. FileTypes'
      BY <1>1, <1>2, LineTypes, Zenon DEF FileTypes, Write
    <2>2. reader' # "reading" /\ reader' # "ok"
      BY <1>2 DEF Write
    <2>3. reader' # "invalid" /\ (wrote' # NoMeta => file' = Body(wrote'))
      BY <1>2 DEF Write
    <2> QED
      BY <2>1, <2>2, <2>3, Zenon DEF MetaInv, NotFlattered, BackIfFits, FlagsKept
  <1>3. CASE Edit
    <2>1. FileTypes'
      BY <1>1, <1>3, EditFile, ZenonT(60) DEF FileTypes, Edit
    <2>2. reader' # "reading" /\ reader' # "ok"
      BY <1>3, SMTT(30) DEF Edit
    <2>3. wrote' = NoMeta
      BY <1>3 DEF Edit
    <2> QED
      BY <2>1, <2>2, <2>3, Zenon DEF MetaInv, NotFlattered, BackIfFits, FlagsKept
  <1>4. CASE Open
    <2>1. FileTypes'
      BY <1>1, <1>4, Zenon DEF FileTypes, Open
    <2>2. reader' # "ok"
      BY <1>4 DEF Open
    <2>3. left' = file' /\ file' \in Seq(Lines) /\ have' = {} /\ got' = Blank
      BY <1>1, <1>4 DEF Open, FileTypes
    <2>4. Place(0, 0)'
      BY <2>3 DEF Place
    <2>5. ReadTo(0)'
      <3>1. got'.version = "0" /\ got'.has_data
        BY <2>3, Zenon DEF Blank
      <3>2. \A p \in 1..0 : FALSE
        OBVIOUS
      <3> QED
        BY <2>3, <3>1, <3>2, Zenon DEF ReadTo
    <2>6. 0 \in 0..Len(file')
      BY <2>3
    <2>7. BackTo(0, 0)'
      <3>1. got'.version = "0" /\ got'.inrange
        BY <2>3, Zenon DEF Blank
      <3> QED
        BY <3>1 DEF BackTo
    <2>8. reader' # "invalid" /\ (wrote' # NoMeta => file' = Body(wrote'))
      BY <1>4 DEF Open, MetaInv
    <2> QED
      BY <2>1, <2>2, <2>4, <2>5, <2>6, <2>7, <2>8, ZenonT(60) DEF MetaInv, NotFlattered, BackIfFits, FlagsKept
  <1>5. CASE ReadLine
    BY <1>5, ReadLineInv, Zenon
  <1>6. CASE ReadEnd
    BY <1>6, ReadEndInv, Zenon
  <1>7. CASE UNCHANGED fileVars
    <2>1. UNCHANGED <<file, wrote, reader, left, have, got>>
      BY <1>7 DEF fileVars
    <2>2. FileTypes'
      BY <1>1, <2>1, Zenon DEF FileTypes
    <2>3. \A j, o : Place(j, o) => Place(j, o)'
      BY <2>1, Zenon DEF Place
    <2>4. NotFlattered'
      <3>1. \A k : ValuesOf(k)' = ValuesOf(k)
        BY <2>1, Zenon DEF ValuesOf
      <3> QED
        BY <2>1, <3>1, Zenon DEF MetaInv, NotFlattered
    <2>5. (wrote' # NoMeta => file' = Body(wrote')) /\ \A j, o : BackTo(j, o) => BackTo(j, o)'
      BY <2>1, Zenon DEF MetaInv, BackTo
    <2>6. BackIfFits' /\ FlagsKept'
      BY <2>1, Zenon DEF MetaInv, BackIfFits, FlagsKept
    <2> QED
      BY <2>1, <2>2, <2>3, <2>4, <2>5, <2>6, SameRead, ZenonT(60) DEF MetaInv
  <1> QED
    BY <1>2, <1>3, <1>4, <1>5, <1>6, <1>7, ZenonT(60) DEF FileNext

(* What holds all along is about the lines read so far, because the reader *)
(* goes through the file line by line: what they make of *meta (ReadTo),   *)
(* and what it is then if the file is as it was written (BackTo).          *)
THEOREM MetaInvariant == FileSpec => []MetaInv
  <1>1. FileInit => MetaInv
    <2> SUFFICES ASSUME FileInit PROVE MetaInv
      OBVIOUS
    <2>1. FileTypes
      <3>1. Blank \in GotType /\ <<>> \in Seq(Lines)
        BY DEF Blank, GotType, Vals
      <3> QED
        BY <3>1, Zenon DEF FileInit, FileTypes
    <2>2. reader = "idle" /\ wrote = NoMeta
      BY DEF FileInit
    <2> QED
      BY <2>1, <2>2 DEF MetaInv, NotFlattered, BackIfFits, FlagsKept
  <1>2. MetaInv /\ [FileNext]_fileVars => MetaInv'
    BY MetaStep
  <1> QED
    BY <1>1, <1>2, PTL DEF FileSpec

(* Whatever was written, edited and read, and in whatever order: a file    *)
(* that bloomd_meta_read_file accepts does not have its filter look better *)
(* than its lines say.                                                     *)
THEOREM ReaderNotFlattered == FileSpec => []NotFlattered
  <1>1. MetaInv => NotFlattered
    BY DEF MetaInv
  <1> QED
    BY <1>1, MetaInvariant, PTL

(* What bloomd_meta_write_atomic wrote and bloomd_meta_read_file accepts   *)
(* comes back with the has_data and the log_clean it was written with,     *)
(* over any number of writes and edits in between.                         *)
THEOREM FlagsAreKept == FileSpec => []FlagsKept
  <1>1. MetaInv => FlagsKept
    BY DEF MetaInv
  <1> QED
    BY <1>1, MetaInvariant, PTL

(* Which of the files that bloomd_meta_write_atomic writes are lost to the *)
(* next start: ReadsBack fails for those whose pin path does not fit into  *)
(* line[] or whose error rate is subnormal, and for no other.              *)
LostExactly ==
  wrote # NoMeta /\ reader \in {"ok", "invalid"} =>
    (ReadsBack <=> wrote.pin_path = "good" /\ wrote.error_rate = "good")

THEOREM WrittenIsReadBack == FileSpec => []LostExactly
  <1>1. MetaInv => LostExactly
    <2>1. reader = "ok" => reader # "invalid"
      OBVIOUS
    <2> QED
      BY <2>1, ZenonT(60) DEF MetaInv, BackIfFits, LostExactly, ReadsBack
  <1> QED
    BY <1>1, MetaInvariant, PTL

-----------------------------------------------------------------------------
(* The handlers of the requests.  What the fields of a request and of an   *)
(* answer may be.                                                          *)
Words ==
  {"code", "message_len", "message", "PONG", "present", "results", "count", "len", "name_len",
   "backend_len", "digest_len", "zero", "capacity", "error_rate", "hashes", "value_size",
   "add_calls", "check_calls", "batch_add_calls", "batch_check_calls", "pin_len", "state_flags",
   "name", "backend", "digest", "pin_path", "requests", "responses", "errors",
   "accepted_connections", "filters_loaded", "filters_created", "filters_dropped", "orphan_meta",
   "orphan_pin", "filter_count", "metadata_only", "durable", "empty_pool_hits", "empty_pool_misses"}

Fields   == [sz : Nat, is : Words \cup AllNames, n : Int]
Refusals == {"BAD_REQUEST", "NAME", "TOO_LARGE", "NOT_FOUND", "EXISTS"}
Failed   == {"INTERNAL", "PERM", "BPF", "IO"}
Resps    == [status : {"OK"} \cup Refusals \cup Failed, body : Seq(Fields), at : Seq(Nat), len : Nat]

(* Before the handler has anything to answer.                              *)
Early == {"idle", "compose", "dispatch", "scan", "items"}

Reqs ==
  [op : Ops, from : {"bloomctl", "other"}, body_len : Int, name_len : Nat,
   name : AllNames \cup {"unused", "invalid"}, reserved : {0, 1}, range : BOOLEAN,
   payload_len : Nat, count : Nat, lens : Seq(Nat)]

ReqTypes ==
  /\ req \in Reqs
  /\ pc = "compose" => Len(req.lens) < req.count
  /\ pc # "compose" /\ req.count <= MaxBatch => req.count <= Len(req.lens)

RespTypes ==
  /\ filters \in Seq(AllNames) /\ rc \in Nat
  /\ resp \in Resps
  /\ todo \in Seq(Fields)

(* What has been appended and what is still to be appended make up the     *)
(* answer.                                                                 *)
Whole ==
  /\ Len(resp.body) + Len(todo) = Len(Answer)
  /\ \A k \in 1..Len(resp.body) : resp.body[k] = Answer[k]
  /\ \A k \in 1..Len(todo) : todo[k] = Answer[Len(resp.body) + k]

AnswerInv ==
  /\ ReqTypes /\ RespTypes
  /\ pc \in Early => resp.status = "OK" /\ resp.body = <<>> /\ rc = 0
  /\ pc = "append" /\ resp.status = "OK" /\ rc = 0 => Whole
  /\ pc = "fallback" => resp.status # "OK"
  /\ WholeAnswers

LEMMA ReqFields ==
  ASSUME ReqTypes
  PROVE  /\ req.op \in Ops /\ req.name_len \in Nat /\ req.count \in Nat /\ req.body_len \in Int
         /\ req.lens \in Seq(Nat) /\ Len(req.lens) \in Nat
         /\ pc # "compose" /\ req.count <= MaxBatch => \A k \in 1..req.count : req.lens[k] \in Nat
  BY SMTT(30) DEF ReqTypes, Reqs

LEMMA FieldTypes ==
  /\ \A sz \in Nat, is \in Words \cup AllNames : Field(sz, is) \in Fields
  /\ \A sz \in Nat, is \in Words \cup AllNames, n \in Int : Num(sz, is, n) \in Fields
  BY DEF Field, Num, Fields

LEMMA ErrorTypes == ErrorBody \in Seq(Fields)
  <1>1. "code" \in Words \cup AllNames /\ "message_len" \in Words \cup AllNames /\ "message" \in Words \cup AllNames
    BY DEF Words
  <1>2. Field(4, "code") \in Fields /\ Num(4, "message_len", 10) \in Fields /\ Field(10, "message") \in Fields
    BY <1>1, FieldTypes
  <1> QED
    BY <1>2 DEF ErrorBody

LEMMA AnswerTypes == ASSUME ReqTypes, RespTypes PROVE Answer \in Seq(Fields)
  <1>1. \A is \in Words : is \in Words \cup AllNames
    OBVIOUS
  <1>2. <<Field(4, "PONG")>> \in Seq(Fields) /\ Bool \in Seq(Fields) /\ <<>> \in Seq(Fields)
    <2>1. "PONG" \in Words /\ "present" \in Words
      BY DEF Words
    <2> QED
      BY <1>1, <2>1, FieldTypes DEF Bool
  <1>3. CountBytes \in Seq(Fields)
    <2>1. req.count \in Nat /\ req.count \in Int
      BY ReqFields
    <2>2. Num(2, "count", req.count) \in Fields /\ Field(req.count, "results") \in Fields
      <3>1. "count" \in Words /\ "results" \in Words
        BY DEF Words
      <3> QED
        BY <1>1, <2>1, <3>1, FieldTypes
    <2> QED
      BY <2>2 DEF CountBytes
  <1>4. StatsBody \in Seq(Fields)
    <2>1. \A is \in Words : Field(8, is) \in Fields /\ Field(4, is) \in Fields
      BY <1>1, FieldTypes, SMTT(30)
    <2> QED
      BY <2>1 DEF StatsBody, Words
  <1>5. InfoBody \in Seq(Fields)
    <2>1. req.name_len \in Nat /\ req.name_len \in Int
      BY ReqFields
    <2>2. /\ \A is \in Words, sz \in Nat : Field(sz, is) \in Fields
          /\ \A is \in Words, sz \in Nat, n \in Int : Num(sz, is, n) \in Fields
      BY <1>1, FieldTypes, SMTT(30)
    <2> QED
      BY <2>1, <2>2 DEF InfoBody, Words
  <1>6. ListBody \in Seq(Fields)
    <2>1. Len(filters) \in Nat /\ \A k \in 1..Len(filters) : filters[k] \in AllNames
      BY DEF RespTypes
    <2>2. ASSUME NEW k \in 1..(2 * Len(filters))
          PROVE  (LET n == filters[(k + 1) \div 2]
                  IN  IF k % 2 = 1 THEN Num(2, "len", NameLen[n]) ELSE Field(NameLen[n], n)) \in Fields
      <3> DEFINE n == filters[(k + 1) \div 2]
      <3>1. (k + 1) \div 2 \in 1..Len(filters)
        BY <2>1
      <3>2. n \in AllNames /\ NameLen[n] \in Nat /\ NameLen[n] \in Int
        BY <2>1, <3>1, RequestAssumption, SMTT(30) DEF AllNames
      <3>3. Num(2, "len", NameLen[n]) \in Fields /\ Field(NameLen[n], n) \in Fields
        <4>1. "len" \in Words
          BY SMTT(30) DEF Words
        <4> QED
          BY <1>1, <3>2, <4>1, FieldTypes, SMTT(30)
      <3> QED
        BY <3>3
    <2>3. [k \in 1..(2 * Len(filters)) |->
            LET n == filters[(k + 1) \div 2]
            IN  IF k % 2 = 1 THEN Num(2, "len", NameLen[n]) ELSE Field(NameLen[n], n)] \in Seq(Fields)
      <3>1. 2 * Len(filters) \in Nat
        BY <2>1
      <3> QED
        BY <2>2, <3>1, IsASeq
    <2>4. <<Num(4, "count", Len(filters))>> \in Seq(Fields)
      <3>1. "count" \in Words
        BY DEF Words
      <3> QED
        BY <1>1, <2>1, <3>1, FieldTypes
    <2> QED
      BY <2>3, <2>4, SMTT(30) DEF ListBody
  <1> QED
    BY <1>2, <1>3, <1>4, <1>5, <1>6, ZenonT(60) DEF Answer

LEMMA SameAnswer == ASSUME UNCHANGED <<req, filters>> PROVE Answer' = Answer
  <1>1. req' = req /\ filters' = filters
    OBVIOUS
  <1>2. InfoBody' = InfoBody /\ ListBody' = ListBody /\ CountBytes' = CountBytes
    BY <1>1, Zenon DEF InfoBody, ListBody, CountBytes
  <1>3. StatsBody' = StatsBody /\ Bool' = Bool
    BY Zenon DEF StatsBody, Bool
  <1> QED
    BY <1>1, <1>2, <1>3, Zenon DEF Answer

(* Every check of a handler that does not pass refuses the request.        *)
LEMMA ChecksRefuse ==
  ASSUME NEW k \in 1..Len(Checks)
  PROVE  Checks[k] \in Refusals \cup {"pass"}
  <1> DEFINE R == Refusals \cup {"pass"}
  <1>1. \A p, s : If(p, s) \in {s, "pass"}
    BY ZenonT(60) DEF If
  <1>2. /\ Short \in R /\ Reserved \in R /\ Missing \in R /\ \A n : Length(n) \in R
        /\ \A s \in Refusals : BadName(s) \in R
    BY <1>1 DEF Short, Reserved, Missing, Length, BadName, Refusals
  <1>3. "NAME" \in Refusals /\ "BAD_REQUEST" \in Refusals /\ "TOO_LARGE" \in Refusals /\ "EXISTS" \in Refusals
    BY DEF Refusals
  <1>4. \A p : \A s \in Refusals : If(p, s) \in R
    BY <1>1, Zenon
  <1>5. CreateChecks \in Seq(R)
    BY <1>2, <1>3, <1>4, SMTT(30) DEF CreateChecks
  <1>6. NameChecks \in Seq(R) /\ PayloadChecks \in Seq(R)
    BY <1>2, <1>3, SMTT(30) DEF NameChecks, PayloadChecks
  <1>7. BatchChecks \in Seq(R)
    BY <1>2, <1>3, <1>4 DEF BatchChecks
  <1>8. <<If(req.body_len # 0, "BAD_REQUEST")>> \in Seq(R) /\ <<"BAD_REQUEST">> \in Seq(R)
    BY <1>3, <1>4
  <1>9. Checks \in Seq(R)
    BY <1>5, <1>6, <1>7, <1>8, ZenonT(60) DEF Checks
  <1> QED
    BY <1>9

(* What bloomctl sends has the form that the handler expects, except that  *)
(* the values of a CREATE may be out of range.                             *)
Formed ==
  /\ req.reserved = 0 /\ req.op # "unknown"
  /\ req.op \in Plain => req.body_len = 0
  /\ req.op \notin Plain => req.name_len \in 1..MaxName /\ req.name # "invalid"
  /\ req.op \in Named \cup {"CREATE"} => req.body_len = Hdr(req.op) + req.name_len
  /\ req.op \in Single => req.body_len = Hdr(req.op) + req.name_len + req.payload_len
  /\ req.op \in Batch =>
       /\ req.count \in 1..MaxBatch /\ req.body_len <= MaxBody /\ 0 <= ItemsLen
       /\ pc # "compose" => Len(req.lens) = req.count

LEMMA NoneTypes == None \in Reqs /\ None.from = "bloomctl" /\ None.range
  BY SMTT(30) DEF None, Reqs, Ops, Plain

LEMMA LenTypes == \A n : LenOf(n) \subseteq Nat
  <1>1. \A n \in AllNames : NameLen[n] \in Nat
    BY RequestAssumption DEF AllNames
  <1>2. {0, 1, MaxName, MaxName + 1} \subseteq Nat
    BY RequestAssumption
  <1> QED
    BY <1>1, <1>2, Zenon DEF LenOf

LEMMA NameTypes ==
  ASSUME NEW op \in Ops, NEW n \in AllNames \cup {"unused"}, NEW len \in Nat
  PROVE  LET q == NameRequest(op, n, len) IN
         /\ q \in Reqs /\ q.op = op /\ q.from = "bloomctl" /\ q.reserved = 0 /\ q.body_len = Hdr(op) + len
         /\ q.count = 0 /\ q.lens = <<>> /\ q.name = n /\ q.name_len = len
  <1>1. Hdr(op) + len \in Int
    BY DEF Hdr
  <1>2. PICK size \in Int : size = Hdr(op) + len
    BY <1>1
  <1>3. PICK q : q = [None EXCEPT !.op = op, !.name = n, !.name_len = len, !.body_len = size]
    BY Zenon
  <1>4. q \in Reqs
    <2>1. n \in AllNames \cup {"unused", "invalid"}
      OBVIOUS
    <2> QED
      BY <1>3, <2>1, NoneTypes, ZenonT(60) DEF Reqs
  <1>5. /\ q.op = op /\ q.from = "bloomctl" /\ q.reserved = 0 /\ q.body_len = size
        /\ q.count = 0 /\ q.lens = <<>> /\ q.name = n /\ q.name_len = len
    BY <1>3 DEF None
  <1> QED
    BY <1>2, <1>3, <1>4, <1>5, ZenonT(60) DEF NameRequest

(* What bloomctl asks.                                                     *)
LEMMA AskTypes ==
  ASSUME Ask
  PROVE  /\ ReqTypes' /\ Formed' /\ req'.from = "bloomctl"
         /\ req'.op \in Batch => req'.lens = <<>> /\ ItemsLen' = 0
         /\ pc' = IF req'.op \in Batch THEN "compose" ELSE "dispatch"
  <1>1. /\ ItemLens \subseteq Nat /\ MaxBatch \in Nat /\ MaxBody \in Nat /\ MaxName \in Nat
        /\ "invalid" \notin AllNames /\ <<>> \in Seq(Nat) /\ Len(<<>>) = 0
    BY RequestAssumption DEF AllNames
  <1>2. /\ req'.body_len \in 0..MaxBody /\ pc' = (IF req'.op \in Batch THEN "compose" ELSE "dispatch")
        /\ \/ \E op \in Plain : req' = [None EXCEPT !.op = op]
           \/ \E n \in AllNames \cup {"unused"} : \E len \in LenOf(n) \cap 1..MaxName :
                \/ \E range \in BOOLEAN : req' = CreateRequest(n, len, range)
                \/ \E op \in Named : req' = NameRequest(op, n, len)
                \/ \E op \in Single, payload \in ItemLens : req' = PayloadRequest(op, n, len, payload)
                \/ \E op \in Batch, count \in 1..MaxBatch : req' = BatchRequest(op, n, len, count)
    BY Zenon DEF Ask
  <1> DEFINE Good == /\ ReqTypes' /\ Formed' /\ req'.from = "bloomctl"
                     /\ req'.op \in Batch => req'.lens = <<>> /\ ItemsLen' = 0
                     /\ pc' = IF req'.op \in Batch THEN "compose" ELSE "dispatch"
  <1>3. ASSUME NEW op \in Plain, req' = [None EXCEPT !.op = op] PROVE Good
    <2>1. op \in Ops /\ op \notin Batch /\ op # "unknown" /\ op \notin Named \cup {"CREATE"} /\ op \notin Single
      BY DEF Ops, Plain, Named, Single, Batch
    <2>2. req' \in Reqs
      BY <1>3, <2>1, NoneTypes, SMTT(30) DEF Reqs
    <2>3. /\ req'.op = op /\ req'.from = "bloomctl" /\ req'.reserved = 0 /\ req'.body_len = 0
          /\ req'.count = 0 /\ req'.lens = <<>>
      BY <1>3 DEF None
    <2> QED
      BY <1>1, <1>2, <2>1, <2>2, <2>3, SMTT(30) DEF ReqTypes, Formed
  <1>4. ASSUME NEW n \in AllNames \cup {"unused"}, NEW len \in LenOf(n) \cap 1..MaxName,
               NEW range \in BOOLEAN, req' = CreateRequest(n, len, range)
        PROVE  Good
    <2>1. /\ "CREATE" \in Ops /\ "CREATE" \notin Batch /\ "CREATE" \notin Plain /\ "CREATE" \notin Single
          /\ len \in Nat /\ Hdr("CREATE") = 24 /\ n # "invalid"
      BY <1>1 DEF Ops, Plain, Batch, Single, Hdr
    <2>2. PICK q \in Reqs :
            /\ req' = [q EXCEPT !.range = range] /\ q.op = "CREATE" /\ q.from = "bloomctl" /\ q.reserved = 0
            /\ q.body_len = 24 + len /\ q.count = 0 /\ q.lens = <<>> /\ q.name = n /\ q.name_len = len
      BY <1>4, <2>1, NameTypes DEF CreateRequest
    <2>3. req' \in Reqs
      BY <2>2, ZenonT(60) DEF Reqs
    <2>4. /\ req'.op = "CREATE" /\ req'.from = "bloomctl" /\ req'.reserved = 0 /\ req'.body_len = 24 + len
          /\ req'.count = 0 /\ req'.lens = <<>> /\ req'.name = n /\ req'.name_len = len
      BY <2>2 DEF Reqs
    <2> QED
      BY <1>1, <1>2, <2>1, <2>3, <2>4, SMTT(30) DEF ReqTypes, Formed
  <1>5. ASSUME NEW n \in AllNames \cup {"unused"}, NEW len \in LenOf(n) \cap 1..MaxName,
               NEW op \in Named, req' = NameRequest(op, n, len)
        PROVE  Good
    <2>1. /\ op \in Ops /\ op # "unknown" /\ op \notin Batch /\ op \notin Plain /\ op \notin Single
          /\ len \in Nat /\ Hdr(op) = 8 /\ n # "invalid"
      BY <1>1, SMTT(30) DEF Ops, Plain, Batch, Single, Named, Hdr
    <2>2. /\ req' \in Reqs
          /\ req'.op = op /\ req'.from = "bloomctl" /\ req'.reserved = 0 /\ req'.body_len = 8 + len
          /\ req'.count = 0 /\ req'.lens = <<>> /\ req'.name = n /\ req'.name_len = len
      BY <1>5, <2>1, NameTypes, SMTT(30)
    <2> QED
      BY <1>1, <1>2, <2>1, <2>2, SMTT(30) DEF ReqTypes, Formed
  <1>6. ASSUME NEW n \in AllNames \cup {"unused"}, NEW len \in LenOf(n) \cap 1..MaxName,
               NEW op \in Single, NEW payload \in ItemLens, req' = PayloadRequest(op, n, len, payload)
        PROVE  Good
    <2>1. /\ op \in Ops /\ op # "unknown" /\ op \notin Batch /\ op \notin Plain /\ op \notin Named \cup {"CREATE"}
          /\ len \in Nat /\ payload \in Nat /\ Hdr(op) = 8 /\ n # "invalid"
      BY <1>1 DEF Ops, Plain, Batch, Single, Named, Hdr
    <2>2. PICK q \in Reqs :
            /\ q = NameRequest(op, n, len) /\ q.op = op /\ q.from = "bloomctl" /\ q.reserved = 0
            /\ q.body_len = 8 + len /\ q.count = 0 /\ q.lens = <<>> /\ q.name = n /\ q.name_len = len
      BY <2>1, NameTypes, SMTT(30)
    <2>3. PICK size \in Int : size = 8 + len + payload /\ req' = [q EXCEPT !.payload_len = payload, !.body_len = size]
      <3>1. req' = [q EXCEPT !.payload_len = payload, !.body_len = q.body_len + payload]
        BY <1>6, <2>2, ZenonT(60) DEF PayloadRequest
      <3>2. q.body_len + payload = 8 + len + payload /\ q.body_len + payload \in Int
        BY <2>1, <2>2
      <3> QED
        BY <3>1, <3>2, Zenon
    <2>4. req' \in Reqs
      BY <2>1, <2>3, ZenonT(60) DEF Reqs
    <2>5. /\ req'.op = op /\ req'.from = "bloomctl" /\ req'.reserved = 0 /\ req'.body_len = 8 + len + payload
          /\ req'.count = 0 /\ req'.lens = <<>> /\ req'.name = n /\ req'.name_len = len
          /\ req'.payload_len = payload
      BY <2>2, <2>3 DEF Reqs
    <2> QED
      BY <1>1, <1>2, <2>1, <2>4, <2>5 DEF ReqTypes, Formed
  <1>7. ASSUME NEW n \in AllNames \cup {"unused"}, NEW len \in LenOf(n) \cap 1..MaxName,
               NEW op \in Batch, NEW count \in 1..MaxBatch, req' = BatchRequest(op, n, len, count)
        PROVE  Good
    <2>1. /\ op \in Ops /\ op # "unknown" /\ op \notin Single /\ op \notin Plain /\ op \notin Named \cup {"CREATE"}
          /\ len \in Nat /\ count \in Nat /\ 0 < count /\ Hdr(op) = 8 /\ n # "invalid"
      BY <1>1 DEF Ops, Plain, Batch, Single, Named, Hdr
    <2>2. PICK q \in Reqs :
            /\ req' = [q EXCEPT !.count = count] /\ q.op = op /\ q.from = "bloomctl" /\ q.reserved = 0
            /\ q.body_len = 8 + len /\ q.lens = <<>> /\ q.name = n /\ q.name_len = len
      BY <1>7, <2>1, NameTypes, SMTT(30) DEF BatchRequest
    <2>3. req' \in Reqs
      BY <2>1, <2>2, SMTT(30) DEF Reqs
    <2>4. /\ req'.op = op /\ req'.from = "bloomctl" /\ req'.reserved = 0 /\ req'.body_len = 8 + len
          /\ req'.count = count /\ req'.lens = <<>> /\ req'.name = n /\ req'.name_len = len
      BY <2>2, SMTT(30) DEF Reqs
    <2> QED
      BY <1>1, <1>2, <2>1, <2>3, <2>4, SMTT(30) DEF ReqTypes, Formed, ItemsLen
  <1> QED
    BY <1>2, <1>3, <1>4, <1>5, <1>6, <1>7, ZenonT(60)

(* What others send.                                                       *)
LEMMA OtherTypes ==
  ASSUME AskOther
  PROVE  ReqTypes' /\ req'.from = "other" /\ pc' = "dispatch"
  <1> DEFINE Counts(op)  == IF op \in Batch THEN 0..MaxBatch + 1 ELSE {0}
             AllLens(op) == IF op \in Batch THEN [1..MaxBatch -> ItemLens \cup {MaxBody + 1}] ELSE {<<>>}
             Sends(op, n, len, more, d, reserved, count, lens) ==
               LET size == d + (IF op \in Plain THEN 0 ELSE Hdr(op) + len + more + 4 * count) IN
                 /\ size \in 0..MaxBody
                 /\ req' = [None EXCEPT !.op = op, !.from = "other", !.name = n, !.name_len = len,
                                        !.reserved = reserved, !.payload_len = more, !.count = count,
                                        !.lens = lens, !.body_len = size]
  <1>1. PICK op \in Ops, n \in AllNames \cup {"unused", "invalid"} :
          \E len \in LenOf(n) : \E more \in ItemLens, d \in Slack, reserved \in {0, 1} :
            \E count \in Counts(op) : \E lens \in AllLens(op) :
              Sends(op, n, len, more, d, reserved, count, lens)
    BY Zenon DEF AskOther
  <1>2. PICK len \in LenOf(n), more \in ItemLens, d \in Slack, reserved \in {0, 1}, count \in Counts(op),
             lens \in AllLens(op) : Sends(op, n, len, more, d, reserved, count, lens)
    BY <1>1, Zenon
  <1>3. PICK size \in 0..MaxBody :
          req' = [None EXCEPT !.op = op, !.from = "other", !.name = n, !.name_len = len,
                              !.reserved = reserved, !.payload_len = more, !.count = count,
                              !.lens = lens, !.body_len = size]
    BY <1>2, Zenon
  <1>4. /\ count \in Nat /\ size \in Int /\ len \in Nat /\ more \in Nat /\ MaxBatch \in Nat
        /\ pc' = "dispatch"
    BY RequestAssumption, LenTypes, SMTT(30) DEF AskOther
  <1>5. lens \in Seq(Nat) /\ (count <= MaxBatch => count <= Len(lens))
    <2>1. CASE op \in Batch
      <3>1. ItemLens \cup {MaxBody + 1} \subseteq Nat
        BY RequestAssumption
      <3>2. lens \in [1..MaxBatch -> Nat]
        BY <2>1, <3>1
      <3> QED
        BY <1>4, <3>2
    <2>2. CASE op \notin Batch
      BY <2>2
    <2> QED
      BY <2>1, <2>2, SMTT(30)
  <1>6. req'.from = "other" /\ req'.count = count /\ req'.lens = lens
    BY <1>3 DEF None
  <1>7. req' \in Reqs
    BY <1>3, <1>4, <1>5, NoneTypes, ZenonT(60) DEF Reqs
  <1> QED
    BY <1>4, <1>5, <1>6, <1>7 DEF ReqTypes

(* bloomctl goes on to the next item of a batch.                           *)
Composes(len) ==
  /\ req' = [req EXCEPT !.lens = Append(@, len), !.body_len = req.body_len + 4 + len]
  /\ req.body_len + 4 + len <= MaxBody
  /\ pc' = IF Len(req.lens) + 1 = req.count THEN "dispatch" ELSE "compose"

LEMMA ComposeStep ==
  ASSUME ComposeItem
  PROVE  (\E len \in ItemLens : Composes(len)) \/ (req' = None /\ pc' = "idle")
  BY Zenon DEF ComposeItem, Composes

LEMMA ComposeTypes ==
  ASSUME ReqTypes, pc = "compose", NEW len \in ItemLens, Composes(len)
  PROVE  /\ ReqTypes' /\ req'.lens = Append(req.lens, len) /\ req'.body_len = req.body_len + 4 + len
         /\ req'.body_len <= MaxBody /\ pc' \in {"compose", "dispatch"}
         /\ UNCHANGED <<req.op, req.from, req.name_len, req.name, req.reserved, req.count, req.range>>
  <1>1. /\ req.lens \in Seq(Nat) /\ Len(req.lens) < req.count /\ Len(req.lens) \in Nat /\ req.count \in Nat
        /\ req \in Reqs /\ len \in Nat /\ req.body_len \in Int
    BY RequestAssumption DEF ReqTypes, Reqs
  <1>2. Append(req.lens, len) \in Seq(Nat) /\ req.body_len + 4 + len \in Int
    BY <1>1
  <1>3. PICK all \in Seq(Nat), size \in Int :
          /\ all = Append(req.lens, len) /\ size = req.body_len + 4 + len
          /\ req' = [req EXCEPT !.lens = all, !.body_len = size]
    BY <1>2, Zenon DEF Composes
  <1>4. /\ req' \in Reqs /\ req'.lens = Append(req.lens, len) /\ req'.body_len = req.body_len + 4 + len
        /\ UNCHANGED <<req.op, req.from, req.name_len, req.name, req.reserved, req.count, req.range>>
    <2>1. req' \in Reqs
      BY <1>1, <1>3, ZenonT(60) DEF Reqs
    <2>2. req'.lens = all /\ req'.body_len = size
      BY <1>1, <1>3, SMTT(30) DEF Reqs
    <2>3. UNCHANGED <<req.op, req.from, req.name_len, req.name, req.reserved, req.count, req.range>>
      BY <1>1, <1>3, SMTT(30) DEF Reqs
    <2> QED
      BY <1>3, <2>1, <2>2, <2>3, Zenon
  <1>5. Len(req'.lens) = Len(req.lens) + 1
    BY <1>1, <1>4
  <1> QED
    BY <1>1, <1>4, <1>5, SMTT(30) DEF ReqTypes, Composes

(* What an error makes of the answer.                                      *)
LEMMA ErrorStep ==
  ASSUME NEW s \in Refusals \cup Failed, Error(s), UNCHANGED filters, filters \in Seq(AllNames)
  PROVE  RespTypes' /\ resp'.status = s /\ s # "OK"
  <1>1. resp' = Empty(s) /\ todo' = ErrorBody /\ rc' = 0
    BY DEF Error
  <1>2. s # "OK"
    BY SMTT(30) DEF Refusals, Failed
  <1>3. resp' \in Resps /\ resp'.status = s
    BY <1>1 DEF Empty, Resps
  <1> QED
    BY <1>1, <1>2, <1>3, ErrorTypes, ZenonT(60) DEF RespTypes

LEMMA FailureTypes == Failures \subseteq Failed
  <1>1. CreateFailures \subseteq Failed /\ AddFailures \subseteq Failed /\ CheckFailures \subseteq Failed /\ DropFailures \subseteq Failed
    BY DEF CreateFailures, AddFailures, CheckFailures, DropFailures, Failed
  <1> QED
    BY <1>1, Zenon DEF Failures

LEMMA SameReq == ASSUME ReqTypes, UNCHANGED req, pc # "compose", pc' # "compose" PROVE ReqTypes'
  BY Zenon DEF ReqTypes

LEMMA SameResp == ASSUME RespTypes, UNCHANGED <<filters, resp, todo, rc>> PROVE RespTypes'
  BY Zenon DEF RespTypes

(* An error instead of an answer.                                          *)
LEMMA ErrorInv ==
  ASSUME AnswerInv, NEW s \in Refusals \cup Failed, Error(s), UNCHANGED <<filters, req>>,
         pc # "compose", pc' \in {"append", "fallback"}
  PROVE  AnswerInv'
  <1>1. RespTypes' /\ resp'.status # "OK"
    BY ErrorStep, Zenon DEF AnswerInv, RespTypes
  <1>2. ReqTypes'
    <2>1. pc' # "compose"
      OBVIOUS
    <2> QED
      BY <2>1, SameReq, ZenonT(60) DEF AnswerInv
  <1>3. pc' \notin Early
    BY DEF Early
  <1> QED
    BY <1>1, <1>2, <1>3, Zenon DEF AnswerInv, WholeAnswers

(* An answer of which nothing has been appended yet.                       *)
LEMMA AnswerBegins ==
  ASSUME AnswerInv, pc \in {"dispatch", "items"}, todo' = Answer, pc' = "append", UNCHANGED <<filters, req, resp, rc>>
  PROVE  AnswerInv'
  <1>1. ReqTypes /\ RespTypes /\ resp.body = <<>> /\ pc # "compose" /\ pc' # "compose"
    BY DEF AnswerInv, Early
  <1>2. Answer \in Seq(Fields) /\ Answer' = Answer
    BY <1>1, AnswerTypes, SameAnswer, Zenon
  <1>3. ReqTypes'
    BY <1>1, SameReq, Zenon
  <1>4. RespTypes'
    BY <1>1, <1>2, ZenonT(60) DEF RespTypes
  <1>5. Whole'
    <2>1. resp'.body = <<>> /\ todo' = Answer'
      BY <1>1, <1>2, SMTT(30)
    <2>2. Len(resp'.body) = 0 /\ Len(todo') = Len(Answer') /\ Len(todo') \in Nat
      BY <1>2, <2>1
    <2> QED
      BY <2>1, <2>2, SMTT(30) DEF Whole
  <1>6. pc' \notin Early /\ pc' # "fallback" /\ pc' # "reply"
    BY DEF Early
  <1> QED
    BY <1>3, <1>4, <1>5, <1>6, ZenonT(60) DEF AnswerInv, WholeAnswers

(* The handler goes on, and nothing of an answer is there yet.             *)
LEMMA NoAnswerYet ==
  ASSUME AnswerInv, pc \in Early, pc' \in Early,
         ReqTypes', UNCHANGED <<filters, resp, todo, rc>>
  PROVE  AnswerInv'
  <1>1. RespTypes' /\ resp'.status = "OK" /\ resp'.body = <<>> /\ rc' = 0
    BY SameResp, Zenon DEF AnswerInv
  <1>2. pc' # "append" /\ pc' # "fallback" /\ pc' # "reply"
    BY DEF Early
  <1> QED
    BY <1>1, <1>2, Zenon DEF AnswerInv, WholeAnswers

LEMMA AppendInv == ASSUME AnswerInv, AppendField PROVE AnswerInv'
  <1>1. /\ ReqTypes /\ RespTypes /\ pc \in {"append", "fallback"} /\ todo # <<>>
        /\ UNCHANGED <<filters, req>> /\ pc' = pc
    BY Zenon DEF AnswerInv, AppendField
  <1>2. /\ rc \in Nat /\ todo \in Seq(Fields) /\ Len(todo) \in Nat \ {0} /\ Head(todo) \in Fields
        /\ Head(todo) = todo[1] /\ Tail(todo) \in Seq(Fields) /\ Len(Tail(todo)) = Len(todo) - 1
        /\ \A k \in 1..(Len(todo) - 1) : Tail(todo)[k] = todo[k + 1]
    BY <1>1 DEF RespTypes
  <1>3. resp.body \in Seq(Fields) /\ Len(resp.body) \in Nat /\ resp.status \in {"OK"} \cup Refusals \cup Failed
    BY <1>1 DEF RespTypes, Resps
  <1>4. ReqTypes' /\ Answer' = Answer
    <2>1. pc # "compose" /\ pc' # "compose"
      BY <1>1
    <2> QED
      BY <1>1, <2>1, SameReq, SameAnswer, ZenonT(60)
  <1>5. pc' \notin Early /\ pc' # "reply"
    BY <1>1 DEF Early
  <1>6. CASE /\ resp' = [resp EXCEPT !.body = Append(@, Head(todo)), !.at = Append(@, resp.len),
                                     !.len = @ + Head(todo).sz]
             /\ todo' = Tail(todo) /\ rc' = Collect(0)
    <2>1. rc' = rc
      BY <1>2, <1>6 DEF Collect
    <2>2. /\ resp'.status = resp.status /\ resp'.body = Append(resp.body, Head(todo))
          /\ resp' \in Resps
      <3>1. resp \in Resps /\ resp.at \in Seq(Nat) /\ resp.len \in Nat
        BY <1>1, SMTT(30) DEF RespTypes, Resps
      <3>2. Append(resp.body, Head(todo)) \in Seq(Fields) /\ Append(resp.at, resp.len) \in Seq(Nat)
        BY <1>2, <1>3, <3>1, SMTT(30)
      <3>3. resp.len + Head(todo).sz \in Nat
        BY <1>2, <3>1, SMTT(30) DEF Fields
      <3>4. PICK b \in Seq(Fields), a \in Seq(Nat), l \in Nat :
              /\ b = Append(resp.body, Head(todo)) /\ a = Append(resp.at, resp.len) /\ l = resp.len + Head(todo).sz
              /\ resp' = [resp EXCEPT !.body = b, !.at = a, !.len = l]
        BY <1>6, <3>2, <3>3, Zenon
      <3>5. resp' \in Resps /\ resp'.status = resp.status /\ resp'.body = b
        BY <3>1, <3>4, ZenonT(60) DEF Resps
      <3> QED
        BY <3>4, <3>5, ZenonT(60)
    <2>3. RespTypes'
      BY <1>1, <1>2, <1>6, <2>1, <2>2, ZenonT(60) DEF RespTypes
    <2>4. ASSUME Whole PROVE Whole'
      <3>1. /\ Len(resp'.body) = Len(resp.body) + 1
            /\ \A k \in 1..Len(resp.body) : resp'.body[k] = resp.body[k]
            /\ resp'.body[Len(resp.body) + 1] = todo[1]
        BY <1>2, <1>3, <2>2, SMTT(30)
      <3>2. todo[1] = Answer[Len(resp.body) + 1]
        BY <1>2, <2>4, SMTT(30) DEF Whole
      <3>3. \A k \in 1..Len(resp'.body) : resp'.body[k] = Answer[k]
        BY <1>3, <2>4, <3>1, <3>2, SMTT(30) DEF Whole
      <3>4. \A k \in 1..Len(todo') : todo'[k] = Answer[Len(resp'.body) + k]
        <4>1. Len(todo') = Len(todo) - 1
          BY <1>2, <1>6, SMTT(30)
        <4> TAKE k \in 1..Len(todo')
        <4>2. todo'[k] = todo[k + 1] /\ k + 1 \in 1..Len(todo)
          BY <1>2, <1>6, <4>1
        <4>3. todo[k + 1] = Answer[Len(resp.body) + (k + 1)]
          BY <2>4, <4>2, Zenon DEF Whole
        <4>4. Len(resp.body) + (k + 1) = Len(resp'.body) + k
          <5>1. k \in Int
            BY <4>2
          <5>2. Len(resp'.body) = Len(resp.body) + 1 /\ Len(resp.body) \in Nat
            BY <1>3, <3>1, ZenonT(60)
          <5>3. \A a \in Nat, b \in Int : a + (b + 1) = (a + 1) + b
            OBVIOUS
          <5> QED
            BY <5>1, <5>2, <5>3, ZenonT(60)
        <4> QED
          BY <4>2, <4>3, <4>4, Zenon
      <3>5. Len(resp'.body) + Len(todo') = Len(Answer)
        BY <1>2, <1>3, <1>6, <2>4, <3>1, SMTT(30) DEF Whole
      <3> QED
        BY <1>4, <3>3, <3>4, <3>5, ZenonT(60) DEF Whole
    <2> QED
      BY <1>1, <1>4, <1>5, <2>1, <2>2, <2>3, <2>4, ZenonT(60) DEF AnswerInv, WholeAnswers
  <1>7. CASE /\ todo' \in {Tail(todo), <<>>}
             /\ rc' = Collect(1) /\ UNCHANGED resp
    <2>1. rc' \in Nat /\ rc' # 0
      BY <1>2, <1>7 DEF Collect
    <2>2. todo' \in Seq(Fields)
      <3>1. Tail(todo) \in Seq(Fields) /\ <<>> \in Seq(Fields)
        BY <1>2
      <3> QED
        BY <1>7, <3>1, ZenonT(60)
    <2>3. RespTypes'
      BY <1>1, <1>7, <2>1, <2>2, ZenonT(60) DEF RespTypes
    <2> QED
      BY <1>1, <1>4, <1>5, <1>7, <2>1, <2>3, ZenonT(60) DEF AnswerInv, WholeAnswers
  <1> QED
    BY <1>6, <1>7, Zenon DEF AppendField

LEMMA AnsweredInv == ASSUME AnswerInv, Answered PROVE AnswerInv'
  <1>1. /\ ReqTypes /\ RespTypes /\ pc \in {"append", "fallback"} /\ todo = <<>> /\ UNCHANGED <<filters, req>>
        /\ \/ Error("INTERNAL") /\ pc' = "fallback"
           \/ /\ pc = "append" => (rc = 0 \/ resp.status # "OK")
              /\ pc' = (IF pc = "fallback" /\ rc > 0 THEN "closed" ELSE "reply")
              /\ UNCHANGED <<resp, todo, rc>>
    BY Zenon DEF AnswerInv, Answered
  <1>2. CASE Error("INTERNAL") /\ pc' = "fallback"
    <2>1. "INTERNAL" \in Refusals \cup Failed /\ pc # "compose" /\ pc' \in {"append", "fallback"}
      BY <1>1, <1>2 DEF Failed
    <2> QED
      BY <1>1, <1>2, <2>1, ErrorInv, SMTT(30)
  <1>3. CASE /\ pc = "append" => (rc = 0 \/ resp.status # "OK")
             /\ pc' = (IF pc = "fallback" /\ rc > 0 THEN "closed" ELSE "reply")
             /\ UNCHANGED <<resp, todo, rc>>
    <2>1. pc' \in {"closed", "reply"} /\ pc # "compose" /\ pc' # "compose"
      BY <1>1, <1>3
    <2>2. ReqTypes' /\ RespTypes' /\ Answer' = Answer
      BY <1>1, <1>3, <2>1, SameReq, SameResp, SameAnswer, ZenonT(60)
    <2>3. ASSUME resp.status = "OK" PROVE resp.body = Answer
      <3>1. Whole
        BY <1>1, <1>3, <2>3, SMTT(30) DEF AnswerInv
      <3>2. Answer \in Seq(Fields) /\ resp.body \in Seq(Fields)
        BY <1>1, AnswerTypes, SMTT(30) DEF RespTypes, Resps
      <3>3. Len(resp.body) = Len(Answer) /\ \A k \in 1..Len(resp.body) : resp.body[k] = Answer[k]
        BY <1>1, <3>1, <3>2 DEF Whole
      <3> QED
        BY <3>2, <3>3, SeqEqual, SMTT(30)
    <2>4. pc' \notin Early /\ pc' # "append" /\ pc' # "fallback"
      BY <2>1 DEF Early
    <2> QED
      BY <1>3, <2>2, <2>3, <2>4, ZenonT(60) DEF AnswerInv, WholeAnswers
  <1> QED
    BY <1>1, <1>2, <1>3

LEMMA AnswerStep == ASSUME AnswerInv, [ReqNext]_reqVars PROVE AnswerInv'
  <1>1. ReqTypes /\ RespTypes
    BY DEF AnswerInv
  <1>2. "BAD_REQUEST" \in Refusals \cup Failed /\ "IO" \in Refusals \cup Failed /\ Failures \subseteq Refusals \cup Failed
    BY FailureTypes DEF Refusals, Failed
  <1>3. ASSUME Malformed, pc # "compose" PROVE AnswerInv'
    <2>1. Error("BAD_REQUEST") /\ pc' \in {"append", "fallback"} /\ UNCHANGED <<filters, req>>
      BY <1>3 DEF Malformed
    <2> QED
      BY <1>2, <1>3, <2>1, ErrorInv, SMTT(30)
  <1>4. ASSUME NEW s \in Failures, Error(s), pc # "compose", pc' = "append", UNCHANGED <<filters, req>>
        PROVE  AnswerInv'
    <2>1. pc' \in {"append", "fallback"} /\ s \in Refusals \cup Failed
      BY <1>2, <1>4
    <2> QED
      BY <1>4, <2>1, ErrorInv
  <1>5. CASE Ask \/ AskOther
    <2>1. ReqTypes' /\ pc' \in {"compose", "dispatch"}
      BY <1>5, AskTypes, OtherTypes, SMTT(30)
    <2>2. pc = "idle" /\ UNCHANGED <<filters, resp, todo, rc>>
      BY <1>5, Zenon DEF Ask, AskOther
    <2>3. pc \in Early /\ pc' \in Early
      BY <2>1, <2>2 DEF Early
    <2> QED
      BY <2>1, <2>2, <2>3, NoAnswerYet, SMTT(30)
  <1>6. CASE Reject
    <2>1. PICK k \in 1..Len(Checks) : Checks[k] # "pass" /\ Error(Checks[k])
      BY <1>6, Zenon DEF Reject
    <2>2. Checks[k] \in Refusals \cup Failed
      BY <2>1, ChecksRefuse, SMTT(30)
    <2>3. pc # "compose" /\ pc' \in {"append", "fallback"} /\ UNCHANGED <<filters, req>>
      BY <1>6 DEF Reject
    <2> QED
      BY <2>1, <2>2, <2>3, ErrorInv
  <1>7. CASE Handle
    <2>1. pc \in {"dispatch", "items"} /\ pc # "compose" /\ pc' = "append" /\ UNCHANGED <<filters, req>>
      BY <1>7 DEF Handle
    <2>2. CASE todo' = Answer /\ UNCHANGED <<resp, rc>>
      BY <2>1, <2>2, AnswerBegins
    <2>3. CASE \E s \in Failures : Error(s)
      BY <1>4, <2>1, <2>3, ZenonT(60)
    <2> QED
      BY <1>7, <2>2, <2>3, ZenonT(60) DEF Handle
  <1>8. CASE BatchBegin
    <2>1. pc' \in Early /\ pc \in Early /\ pc # "compose" /\ pc' # "compose"
      BY <1>8 DEF BatchBegin, FirstLoop, Early
    <2>2. UNCHANGED <<filters, req, resp, todo, rc>> /\ ReqTypes'
      BY <1>1, <1>8, <2>1, SameReq, ZenonT(60) DEF BatchBegin
    <2> QED
      BY <2>1, <2>2, NoAnswerYet, SMTT(30)
  <1>9. CASE ScanItem \/ Item
    <2>1. pc \in {"scan", "items"} /\ pc # "compose"
      BY <1>9 DEF ScanItem, Item
    <2>2. CASE UNCHANGED <<filters, req, pc, touched, resp, todo, rc, shown>>
      <3>1. pc' \in Early /\ pc \in Early /\ UNCHANGED <<filters, resp, todo, rc>> /\ pc' # "compose"
        BY <2>1, <2>2 DEF Early
      <3>2. ReqTypes'
        BY <1>1, <2>1, <2>2, <3>1, SameReq, ZenonT(60)
      <3> QED
        BY <3>1, <3>2, NoAnswerYet, SMTT(30)
    <2>3. CASE (\E s \in Failures : Error(s)) /\ pc' = "append" /\ UNCHANGED <<filters, req, i, off, touched, shown>>
      BY <1>4, <2>1, <2>3, Zenon
    <2> QED
      BY <1>3, <1>9, <2>1, <2>2, <2>3, ZenonT(60) DEF ScanItem, Item
  <1>10. CASE ScanEnd
    <2>1. CASE pc' = "items" /\ UNCHANGED <<resp, todo, rc>> /\ UNCHANGED <<filters, req, shown>>
      <3>1. pc' \in Early /\ pc \in Early /\ UNCHANGED <<filters, resp, todo, rc>> /\ pc # "compose" /\ pc' # "compose"
        BY <1>10, <2>1 DEF ScanEnd, Early
      <3>2. ReqTypes'
        BY <1>1, <2>1, <3>1, SameReq, ZenonT(60)
      <3> QED
        BY <3>1, <3>2, NoAnswerYet, SMTT(30)
    <2>2. CASE pc' = "append" /\ Error("IO") /\ UNCHANGED <<filters, req, shown>>
      BY <1>2, <1>10, <2>2, ErrorInv, SMTT(30) DEF ScanEnd
    <2> QED
      BY <1>3, <1>10, <2>1, <2>2, ZenonT(60) DEF ScanEnd
  <1>11. CASE ItemsEnd
    <2>1. CASE todo' = Answer /\ pc' = "append" /\ UNCHANGED <<filters, req, i, off, touched, resp, rc, shown>>
      BY <1>11, <2>1, AnswerBegins DEF ItemsEnd
    <2> QED
      BY <1>3, <1>11, <2>1, ZenonT(60) DEF ItemsEnd
  <1>12. CASE AppendField
    BY <1>12, AppendInv
  <1>13. CASE Answered
    BY <1>13, AnsweredInv
  <1>14. CASE Show \/ ShowEntry \/ ShowEnd
    <2>1. pc = "reply" /\ pc' \in {"done", "reply"} /\ UNCHANGED <<filters, req, resp, todo, rc>>
      <3>1. CASE Show
        BY <3>1 DEF Show
      <3>2. CASE ShowEntry
        BY <3>2, ZenonT(60) DEF ShowEntry
      <3>3. CASE ShowEnd
        BY <3>3 DEF ShowEnd
      <3> QED
        BY <1>14, <3>1, <3>2, <3>3, SMTT(30)
    <2>2. ReqTypes' /\ RespTypes' /\ Answer' = Answer
      <3>1. pc # "compose" /\ pc' # "compose"
        BY <2>1
      <3> QED
        BY <1>1, <2>1, <3>1, SameReq, SameResp, SameAnswer, ZenonT(60)
    <2>3. pc' \notin Early /\ pc' # "append" /\ pc' # "fallback"
      BY <2>1 DEF Early
    <2>4. WholeAnswers'
      BY <2>1, <2>2, Zenon DEF AnswerInv, WholeAnswers
    <2> QED
      BY <2>2, <2>3, <2>4, ZenonT(60) DEF AnswerInv
  <1>15. CASE Again
    <2>1. ReqTypes'
      BY <1>15, NoneTypes, SMTT(30) DEF Again, ReqTypes, None
    <2>2. resp' = Empty("OK") /\ todo' = <<>> /\ rc' = 0 /\ pc' = "idle" /\ UNCHANGED filters
      BY <1>15, SMTT(30) DEF Again
    <2>3. RespTypes' /\ resp'.status = "OK" /\ resp'.body = <<>>
      BY <1>1, <2>2 DEF RespTypes, Resps, Empty
    <2>4. pc' # "append" /\ pc' # "fallback" /\ pc' # "reply"
      BY <2>2
    <2> QED
      BY <2>1, <2>2, <2>3, <2>4, ZenonT(60) DEF AnswerInv, WholeAnswers
  <1>16. CASE UNCHANGED reqVars
    <2>1. UNCHANGED <<filters, req, pc, resp, todo, rc>>
      BY <1>16 DEF reqVars
    <2>2. ReqTypes' /\ RespTypes' /\ Answer' = Answer
      <3>1. ReqTypes'
        BY <1>1, <2>1, Zenon DEF ReqTypes
      <3> QED
        BY <1>1, <2>1, <3>1, SameResp, SameAnswer, ZenonT(60)
    <2>3. Whole => Whole'
      BY <2>1, <2>2, ZenonT(60) DEF Whole
    <2> QED
      BY <2>1, <2>2, <2>3, ZenonT(60) DEF AnswerInv, WholeAnswers
  <1>17. CASE ComposeItem
    <2>1. pc = "compose" /\ UNCHANGED <<filters, resp, todo, rc>>
      BY <1>17, Zenon DEF ComposeItem
    <2>2. ReqTypes' /\ pc' \in {"idle", "compose", "dispatch"}
      <3>1. ASSUME NEW len \in ItemLens, Composes(len) PROVE ReqTypes' /\ pc' \in {"compose", "dispatch"}
        BY <1>1, <2>1, <3>1, ComposeTypes, SMTT(30)
      <3>2. ASSUME req' = None, pc' = "idle" PROVE ReqTypes'
        BY <3>2, NoneTypes DEF ReqTypes, None
      <3> QED
        BY <1>17, <3>1, <3>2, ComposeStep, ZenonT(60)
    <2>3. pc \in Early /\ pc' \in Early
      BY <2>1, <2>2, SMTT(30) DEF Early
    <2> QED
      BY <2>1, <2>2, <2>3, NoAnswerYet, SMTT(30)
  <1> QED
    BY <1>5, <1>6, <1>7, <1>8, <1>9, <1>10, <1>11, <1>12, <1>13, <1>14, <1>15, <1>16, <1>17,
       ZenonT(60)
       DEF ReqNext

(* While a handler appends its answer, what has been appended and what is  *)
(* still to be appended make it up, unless an append failed (rc # 0); and  *)
(* before that the response is as bloomd_dispatch made it.                 *)
THEOREM AnswerInvariant == ReqSpec => []AnswerInv
  <1>1. ReqInit => AnswerInv
    <2> SUFFICES ASSUME ReqInit PROVE AnswerInv
      OBVIOUS
    <2>1. ReqTypes
      BY NoneTypes, SMTT(30) DEF ReqInit, ReqTypes, None
    <2>2. resp = Empty("OK") /\ todo = <<>> /\ rc = 0 /\ pc = "idle" /\ filters \in Lists
      BY SMTT(30) DEF ReqInit
    <2>3. RespTypes /\ resp.status = "OK" /\ resp.body = <<>>
      BY <2>2, RequestAssumption, SMTT(30) DEF RespTypes, Resps, Empty, AllNames
    <2>4. pc # "append" /\ pc # "fallback" /\ pc # "reply"
      BY <2>2, SMTT(30)
    <2> QED
      BY <2>1, <2>2, <2>3, <2>4, ZenonT(60) DEF AnswerInv, WholeAnswers
  <1>2. AnswerInv /\ [ReqNext]_reqVars => AnswerInv'
    BY AnswerStep
  <1> QED
    BY <1>1, <1>2, PTL DEF ReqSpec

(* Whatever the daemon is asked, however long its answer is and whichever  *)
(* append fails: what bloomd_dispatch sends with status OK is the answer   *)
(* of the handler, from its first field to its last.                       *)
THEOREM AnswersAreWhole == ReqSpec => []WholeAnswers
  <1>1. AnswerInv => WholeAnswers
    BY DEF AnswerInv
  <1> QED
    BY <1>1, AnswerInvariant, PTL

-----------------------------------------------------------------------------
(* The loops over the items of a batch.  S are the offsets at which the    *)
(* first n - 1 items begin and at which the last of them ends: each was    *)
(* read and found to be in the body.                                       *)
ReadUpTo(S, n) ==
  /\ S \in [1..n -> Int] /\ S[1] = 0
  /\ \A k \in 1..(n - 1) :
       /\ S[k + 1] = S[k] + 4 + req.lens[k]
       /\ ItemsLen - S[k] >= 4 + req.lens[k] /\ req.lens[k] <= MaxBody

(* When a MADD changes the filter it has been through all items once, so   *)
(* going through them again it finds every one of them.                    *)
BatchInv ==
  /\ pc \in {"idle", "compose", "dispatch"} => i = 1 /\ off = 0 /\ ~touched
  /\ pc \in {"scan", "items"} =>
       /\ req.op \in Batch /\ req.count \in 1..MaxBatch /\ i \in 1..(req.count + 1)
       /\ off \in Nat /\ off <= ItemsLen
  /\ pc = "scan" => ~touched /\ \E S : ReadUpTo(S, i) /\ S[i] = off
  /\ pc = "items" /\ touched =>
       \E S : ReadUpTo(S, req.count + 1) /\ S[req.count + 1] = ItemsLen /\ S[i] = off
  /\ resp.status \in Refusals => ~touched
  /\ pc = "append" /\ resp.status = "OK" /\ req.op \in Batch => off = ItemsLen /\ i = req.count + 1

LEMMA SameItems == ASSUME req' = req PROVE ItemsLen' = ItemsLen /\ \A S, n : ReadUpTo(S, n) => ReadUpTo(S, n)'
  <1>1. ItemsLen' = ItemsLen
    BY ZenonT(60) DEF ItemsLen
  <1> QED
    BY <1>1, ZenonT(60) DEF ReadUpTo

(* What the checks of a batch leave to the loops.                          *)
LEMMA PassedBatch ==
  ASSUME ReqTypes, Passes, req.op \in Batch
  PROVE  req.count \in 1..MaxBatch /\ ItemsLen \in Int /\ 0 <= ItemsLen
  <1>1. req.op \notin Plain /\ req.op # "CREATE" /\ req.op \notin Named /\ req.op \notin Single /\ Hdr(req.op) = 8
    BY DEF Batch, Plain, Named, Single, Hdr
  <1>2. Checks = BatchChecks
    BY <1>1, Zenon DEF Checks
  <1>3. \A k \in 1..7 : BatchChecks[k] = "pass"
    <2>1. Len(BatchChecks) = 7
      BY DEF BatchChecks
    <2> QED
      BY <1>2, <2>1, Zenon DEF Passes
  <1>4. /\ If(req.count = 0, "BAD_REQUEST") = "pass" /\ If(req.count > MaxBatch, "TOO_LARGE") = "pass"
        /\ If(req.body_len < Hdr(req.op) + req.name_len, "BAD_REQUEST") = "pass"
    <2>1. BatchChecks[2] = "pass" /\ BatchChecks[3] = "pass" /\ BatchChecks[5] = "pass"
      BY <1>3
    <2> QED
      BY <2>1 DEF BatchChecks
  <1>5. ~(req.count = 0) /\ ~(req.count > MaxBatch) /\ ~(req.body_len < Hdr(req.op) + req.name_len)
    <2>1. "BAD_REQUEST" # "pass" /\ "TOO_LARGE" # "pass"
      OBVIOUS
    <2> QED
      BY <1>4, <2>1, Zenon DEF If
  <1> QED
    BY <1>1, <1>5, ReqFields, RequestAssumption, SMTT(30) DEF ItemsLen

LEMMA BeginBatch == ASSUME AnswerInv, BatchInv, BatchBegin PROVE BatchInv'
  <1>1. ReqTypes /\ pc = "dispatch" /\ Passes /\ req.op \in Batch /\ i = 1 /\ off = 0 /\ resp.status = "OK"
    BY DEF AnswerInv, Early, BatchInv, BatchBegin
  <1>2. req.count \in 1..MaxBatch /\ ItemsLen \in Int /\ 0 <= ItemsLen
    BY <1>1, PassedBatch
  <1>3. req' = req /\ i' = 1 /\ off' = 0 /\ resp'.status = "OK" /\ pc' = FirstLoop /\ touched' = (pc' = "items" /\ Changes)
    BY <1>1, ZenonT(60) DEF BatchBegin
  <1>4. pc' \in {"scan", "items"} /\ ~touched'
    <2>1. CASE req.op = "MADD"
      BY <1>3, <2>1, Zenon DEF FirstLoop
    <2>2. CASE req.op = "MCHECK"
      BY <1>3, <2>2, ZenonT(60) DEF FirstLoop, Changes
    <2> QED
      BY <1>1, <2>1, <2>2 DEF Batch
  <1>5. \E S : ReadUpTo(S, i)' /\ S[i'] = off'
    <2> DEFINE S == [k \in 1..1 |-> 0]
    <2>1. ReadUpTo(S, i)' /\ S[i'] = off'
      BY <1>3, SMTT(30) DEF ReadUpTo
    <2> QED
      BY <2>1, ZenonT(60)
  <1>6. i' \in 1..(req'.count + 1) /\ off' \in Nat /\ off' <= ItemsLen' /\ req'.op \in Batch /\ req'.count \in 1..MaxBatch
    <2>1. ItemsLen' = ItemsLen
      BY <1>3, SameItems, Zenon
    <2> QED
      BY <1>1, <1>2, <1>3, <2>1, RequestAssumption, SMTT(30)
  <1>7. "OK" \notin Refusals
    BY DEF Refusals
  <1>8. pc' \notin {"idle", "compose", "dispatch"} /\ pc' # "append"
    BY <1>4, SMTT(30)
  <1> QED
    BY <1>3, <1>4, <1>5, <1>6, <1>7, <1>8, ZenonT(60) DEF BatchInv

(* The item at off is in the body: the next one begins where it ends.      *)
LEMMA NextOffset ==
  ASSUME ReqTypes, BatchInv, pc \in {"scan", "items"}, i <= req.count, Readable, NextItem, UNCHANGED <<req, pc>>
  PROVE  /\ req.lens[i] \in Nat /\ i' = i + 1 /\ off' = off + 4 + req.lens[i]
         /\ i' \in 1..(req'.count + 1) /\ off' \in Nat /\ off' <= ItemsLen'
         /\ req'.op \in Batch /\ req'.count \in 1..MaxBatch
  <1>1. req.op \in Batch /\ req.count \in 1..MaxBatch /\ i \in 1..(req.count + 1) /\ off \in Nat
    BY SMTT(30) DEF BatchInv
  <1>2. i \in 1..req.count /\ req.count <= MaxBatch
    BY <1>1, ReqFields, RequestAssumption, SMTT(30)
  <1>3. req.lens[i] \in Nat
    BY <1>2, ReqFields, SMTT(30)
  <1>4. ItemsLen \in Int /\ ItemsLen' = ItemsLen
    <2>1. Hdr(req.op) \in Int
      BY SMTT(30) DEF Hdr
    <2> QED
      BY <2>1, ReqFields, SameItems, SMTT(30) DEF ItemsLen
  <1>5. ItemsLen - off >= 4 + req.lens[i] /\ i' = i + 1 /\ off' = off + 4 + req.lens[i]
    BY DEF Readable, NextItem
  <1> QED
    BY <1>1, <1>2, <1>3, <1>4, <1>5, SMTT(30)

(* The handler ends with an error.                                         *)
LEMMA ErrorEnds ==
  ASSUME BatchInv, NEW s \in Refusals \cup Failed, Error(s), pc' \in {"append", "fallback"},
         s \in Refusals => ~touched'
  PROVE  BatchInv'
  <1>1. resp'.status = s /\ s # "OK"
    BY DEF Error, Empty, Refusals, Failed
  <1>2. pc' \notin {"idle", "compose", "dispatch"} /\ pc' \notin {"scan", "items"} /\ pc' # "scan" /\ pc' # "items"
    OBVIOUS
  <1> QED
    BY <1>1, <1>2, ZenonT(60) DEF BatchInv

LEMMA MalformedEnds == ASSUME BatchInv, Malformed, ~touched PROVE BatchInv'
  <1>1. "BAD_REQUEST" \in Refusals \cup Failed
    BY DEF Refusals
  <1>2. Error("BAD_REQUEST") /\ pc' \in {"append", "fallback"} /\ ~touched'
    BY DEF Malformed
  <1> QED
    BY <1>1, <1>2, ErrorEnds

LEMMA ScanInv == ASSUME AnswerInv, BatchInv, ScanItem PROVE BatchInv'
  <1>1. ReqTypes /\ pc = "scan" /\ i <= req.count /\ ~touched /\ resp.status = "OK"
    BY DEF AnswerInv, Early, BatchInv, ScanItem
  <1>2. CASE Malformed
    BY <1>1, <1>2, MalformedEnds, SMTT(30)
  <1>3. CASE Readable /\ NextItem /\ UNCHANGED <<filters, req, pc, touched, resp, todo, rc, shown>>
    <2>1. /\ req.lens[i] \in Nat /\ i' = i + 1 /\ off' = off + 4 + req.lens[i]
          /\ i' \in 1..(req'.count + 1) /\ off' \in Nat /\ off' <= ItemsLen'
          /\ req'.op \in Batch /\ req'.count \in 1..MaxBatch
      BY <1>1, <1>3, NextOffset
    <2>2. PICK S : ReadUpTo(S, i) /\ S[i] = off
      BY <1>1, ZenonT(60) DEF BatchInv
    <2>3. i \in Nat \ {0} /\ off \in Int
      BY <1>1, SMTT(30) DEF BatchInv
    <2>4. req' = req /\ ItemsLen' = ItemsLen /\ pc' = "scan" /\ ~touched' /\ resp'.status = "OK"
      BY <1>1, <1>3, SameItems
    <2>5. PICK T : T = [k \in 1..(i + 1) |-> IF k = i + 1 THEN off + 4 + req.lens[i] ELSE S[k]]
      BY Zenon
    <2>6. /\ S \in [1..i -> Int] /\ S[1] = 0
          /\ \A k \in 1..(i - 1) : /\ S[k + 1] = S[k] + 4 + req.lens[k]
                                   /\ ItemsLen - S[k] >= 4 + req.lens[k] /\ req.lens[k] <= MaxBody
      BY <2>2, ZenonT(60) DEF ReadUpTo
    <2>7. T \in [1..(i + 1) -> Int] /\ T[1] = 0 /\ T[i + 1] = off + 4 + req.lens[i] /\ T[i] = off
      BY <2>1, <2>2, <2>3, <2>5, <2>6, SMTT(30)
    <2>8. ItemsLen - off >= 4 + req.lens[i] /\ req.lens[i] <= MaxBody
      BY <1>3, SMTT(30) DEF Readable
    <2>9. ASSUME NEW k \in 1..i
          PROVE  /\ T[k + 1] = T[k] + 4 + req.lens[k]
                 /\ ItemsLen - T[k] >= 4 + req.lens[k] /\ req.lens[k] <= MaxBody
      <3>1. CASE k = i
        BY <2>3, <2>7, <2>8, <3>1, SMTT(30)
      <3>2. CASE k # i
        <4>1. k \in 1..(i - 1) /\ T[k] = S[k] /\ T[k + 1] = S[k + 1]
          BY <2>3, <2>5, <3>2, SMTT(30)
        <4> QED
          BY <2>6, <4>1, SMTT(30)
      <3> QED
        BY <3>1, <3>2, SMTT(30)
    <2>10. ReadUpTo(T, i)' /\ T[i'] = off'
      <3>1. i' - 1 = i
        BY <2>1, <2>3
      <3> QED
        BY <2>1, <2>4, <2>7, <2>9, <3>1, SMTT(30) DEF ReadUpTo
    <2>11. \E X : ReadUpTo(X, i)' /\ X[i'] = off'
      BY <2>10, ZenonT(60)
    <2>12. "OK" \notin Refusals /\ pc' \notin {"idle", "compose", "dispatch"} /\ pc' # "items" /\ pc' # "append"
      BY <2>4 DEF Refusals
    <2> QED
      BY <2>1, <2>4, <2>11, <2>12, ZenonT(60) DEF BatchInv
  <1> QED
    BY <1>2, <1>3, ZenonT(60) DEF ScanItem

LEMMA ScanEndInv == ASSUME AnswerInv, BatchInv, ScanEnd PROVE BatchInv'
  <1>1. /\ ReqTypes /\ pc = "scan" /\ i > req.count /\ ~touched /\ resp.status = "OK"
        /\ req.op \in Batch /\ req.count \in 1..MaxBatch /\ i \in 1..(req.count + 1)
    BY DEF AnswerInv, Early, BatchInv, ScanEnd
  <1>2. CASE Malformed
    BY <1>1, <1>2, MalformedEnds, SMTT(30)
  <1>3. CASE pc' = "append" /\ Error("IO")
    <2>1. "IO" \in Refusals \cup Failed /\ "IO" \notin Refusals
      BY DEF Failed, Refusals
    <2> QED
      BY <1>3, <2>1, ErrorEnds
  <1>4. CASE /\ off = ItemsLen /\ i' = 1 /\ off' = 0 /\ touched' = TRUE
             /\ pc' = "items" /\ UNCHANGED <<resp, todo, rc>> /\ UNCHANGED <<filters, req, shown>>
    <2>1. i = req.count + 1
      BY <1>1, ReqFields, RequestAssumption, SMTT(30)
    <2>2. PICK S : ReadUpTo(S, req.count + 1) /\ S[req.count + 1] = off
      BY <1>1, <2>1 DEF BatchInv
    <2>3. ItemsLen' = ItemsLen /\ ReadUpTo(S, req.count + 1)' /\ req' = req
      BY <1>4, <2>2, SameItems, ZenonT(60)
    <2>4. S[1] = 0
      BY <2>2, Zenon DEF ReadUpTo
    <2>5. \E X : ReadUpTo(X, req.count + 1)' /\ X[req'.count + 1] = ItemsLen' /\ X[i'] = off'
      BY <1>4, <2>2, <2>3, <2>4, ZenonT(60)
    <2>6. off' \in Nat /\ off' <= ItemsLen' /\ i' \in 1..(req'.count + 1)
      <3>1. off <= ItemsLen /\ off \in Nat
        BY <1>1, SMTT(30) DEF BatchInv
      <3> QED
        BY <1>1, <1>4, <2>3, <3>1, ReqFields, SMTT(30)
    <2>7. "OK" \notin Refusals /\ pc' \notin {"idle", "compose", "dispatch"} /\ pc' # "scan" /\ pc' # "append" /\ resp'.status = "OK"
      BY <1>1, <1>4 DEF Refusals
    <2> QED
      BY <1>1, <1>4, <2>3, <2>5, <2>6, <2>7, ZenonT(60) DEF BatchInv
  <1> QED
    BY <1>2, <1>3, <1>4, ZenonT(60) DEF ScanEnd

LEMMA ItemInv == ASSUME AnswerInv, BatchInv, Item PROVE BatchInv'
  <1>1. ReqTypes /\ pc = "items" /\ i <= req.count /\ resp.status = "OK"
    BY SMTT(30) DEF AnswerInv, Early, BatchInv, Item
  <1>2. i \in Nat \ {0} /\ req.count \in Nat /\ off \in Nat
    BY <1>1, ReqFields, SMTT(30) DEF BatchInv
  <1>3. ASSUME touched PROVE Readable
    <2>1. PICK S : ReadUpTo(S, req.count + 1) /\ S[i] = off
      BY <1>1, <1>3, ZenonT(60) DEF BatchInv
    <2>2. i \in 1..((req.count + 1) - 1)
      BY <1>1, <1>2, SMTT(30)
    <2>3. ItemsLen - off >= 4 + req.lens[i] /\ req.lens[i] <= MaxBody
      <3>1. ItemsLen - S[i] >= 4 + req.lens[i] /\ req.lens[i] <= MaxBody
        BY <2>1, <2>2, ZenonT(60) DEF ReadUpTo
      <3> QED
        BY <2>1, <3>1
    <2>4. req.lens[i] \in Nat /\ ItemsLen \in Int
      <3>1. req.count <= MaxBatch /\ Hdr(req.op) \in Int
        BY <1>1, RequestAssumption DEF BatchInv, Hdr
      <3> QED
        BY <1>1, <1>2, <2>2, <3>1, ReqFields, SMTT(30) DEF ItemsLen
    <2> QED
      BY <1>2, <2>3, <2>4 DEF Readable
  <1>4. CASE ~Readable /\ Malformed
    BY <1>3, <1>4, MalformedEnds, SMTT(30)
  <1>5. CASE (\E s \in Failures : Error(s)) /\ pc' = "append"
    <2>1. PICK s \in Failures : Error(s)
      BY <1>5, Zenon
    <2>2. s \in Refusals \cup Failed /\ s \notin Refusals
      BY FailureTypes DEF Failed, Refusals
    <2> QED
      BY <1>5, <2>1, <2>2, ErrorEnds, SMTT(30)
  <1>6. CASE Readable /\ NextItem /\ UNCHANGED <<filters, req, pc, touched, resp, todo, rc, shown>>
    <2>1. /\ req.lens[i] \in Nat /\ i' = i + 1 /\ off' = off + 4 + req.lens[i]
          /\ i' \in 1..(req'.count + 1) /\ off' \in Nat /\ off' <= ItemsLen'
          /\ req'.op \in Batch /\ req'.count \in 1..MaxBatch
      BY <1>1, <1>6, NextOffset, SMTT(30)
    <2>2. req' = req /\ ItemsLen' = ItemsLen /\ pc' = "items" /\ touched' = touched /\ resp'.status = "OK"
      BY <1>1, <1>6, SameItems
    <2>3. ASSUME touched
          PROVE  \E S : ReadUpTo(S, req.count + 1)' /\ S[req'.count + 1] = ItemsLen' /\ S[i'] = off'
      <3>1. PICK S : ReadUpTo(S, req.count + 1) /\ S[req.count + 1] = ItemsLen /\ S[i] = off
        BY <1>1, <2>3, ZenonT(60) DEF BatchInv
      <3>2. i \in 1..((req.count + 1) - 1)
        BY <1>1, <1>2
      <3>3. S[i'] = off'
        <4>1. S[i + 1] = S[i] + 4 + req.lens[i]
          BY <3>1, <3>2, ZenonT(60) DEF ReadUpTo
        <4> QED
          BY <2>1, <3>1, <4>1, SMTT(30)
      <3>4. ReadUpTo(S, req.count + 1)'
        BY <2>2, <3>1, SameItems, ZenonT(60)
      <3> QED
        BY <2>2, <3>1, <3>3, <3>4, ZenonT(60)
    <2>4. "OK" \notin Refusals /\ pc' \notin {"idle", "compose", "dispatch"} /\ pc' # "scan" /\ pc' # "append"
      BY <2>2 DEF Refusals
    <2> QED
      BY <2>1, <2>2, <2>3, <2>4, ZenonT(60) DEF BatchInv
  <1> QED
    BY <1>4, <1>5, <1>6, ZenonT(60) DEF Item

LEMMA ItemsEndInv == ASSUME AnswerInv, BatchInv, ItemsEnd PROVE BatchInv'
  <1>1. ReqTypes /\ pc = "items" /\ i > req.count /\ resp.status = "OK"
    BY SMTT(30) DEF AnswerInv, Early, BatchInv, ItemsEnd
  <1>2. i = req.count + 1
    BY <1>1, ReqFields DEF BatchInv
  <1>3. CASE off # ItemsLen /\ Malformed
    <2>1. ~touched
      BY <1>1, <1>2, <1>3 DEF BatchInv
    <2> QED
      BY <1>3, <2>1, MalformedEnds, SMTT(30)
  <1>4. CASE /\ off = ItemsLen /\ pc' = "append"
             /\ UNCHANGED <<filters, req, i, off, touched, resp, rc, shown>>
    <2>1. ItemsLen' = ItemsLen
      BY <1>4, SameItems, ZenonT(60)
    <2>2. "OK" \notin Refusals /\ pc' \notin {"idle", "compose", "dispatch"} /\ pc' \notin {"scan", "items"} /\ pc' # "scan" /\ pc' # "items"
      BY <1>4 DEF Refusals
    <2> QED
      BY <1>1, <1>2, <1>4, <2>1, <2>2, ZenonT(60) DEF BatchInv
  <1> QED
    BY <1>3, <1>4, ZenonT(60) DEF ItemsEnd

LEMMA BatchStep == ASSUME AnswerInv, BatchInv, [ReqNext]_reqVars PROVE BatchInv'
  <1>1. "OK" \notin Refusals
    BY DEF Refusals
  <1>2. CASE Ask \/ ComposeItem \/ AskOther
    <2>1. /\ pc \in {"idle", "compose", "dispatch"} /\ pc' \in {"idle", "compose", "dispatch"}
          /\ UNCHANGED <<i, off, touched, resp>>
      BY <1>2, ZenonT(60) DEF Ask, ComposeItem, AskOther
    <2>2. i' = 1 /\ off' = 0 /\ ~touched'
      BY <2>1 DEF BatchInv
    <2>3. pc' \notin {"scan", "items"} /\ pc' # "scan" /\ pc' # "items" /\ pc' # "append"
      BY <2>1
    <2> QED
      BY <2>2, <2>3, ZenonT(60) DEF BatchInv
  <1>3. CASE Reject
    <2>1. PICK k \in 1..Len(Checks) : Checks[k] # "pass" /\ Error(Checks[k])
      BY <1>3, Zenon DEF Reject
    <2>2. Checks[k] \in Refusals \cup Failed
      BY <2>1, ChecksRefuse, SMTT(30)
    <2>3. pc' \in {"append", "fallback"} /\ ~touched'
      BY <1>3 DEF Reject, BatchInv
    <2> QED
      BY <2>1, <2>2, <2>3, ErrorEnds
  <1>4. CASE Handle
    <2>1. pc = "dispatch" /\ pc' = "append" /\ req.op \notin Batch /\ UNCHANGED <<filters, req, i, off, shown>>
      BY <1>4 DEF Handle
    <2>2. CASE todo' = Answer /\ UNCHANGED <<resp, rc>>
      <3>1. resp'.status = "OK"
        BY <2>1, <2>2 DEF AnswerInv, Early
      <3>2. pc' \notin {"idle", "compose", "dispatch"} /\ pc' \notin {"scan", "items"} /\ pc' # "scan" /\ pc' # "items"
        BY <2>1
      <3> QED
        BY <1>1, <2>1, <3>1, <3>2, ZenonT(60) DEF BatchInv
    <2>3. CASE \E s \in Failures : Error(s)
      <3>1. PICK s \in Failures : Error(s)
        BY <2>3, ZenonT(60)
      <3>2. s \in Refusals \cup Failed /\ s \notin Refusals /\ pc' \in {"append", "fallback"}
        BY <2>1, FailureTypes DEF Failed, Refusals
      <3> QED
        BY <3>1, <3>2, ErrorEnds
    <2> QED
      BY <1>4, <2>2, <2>3, ZenonT(60) DEF Handle
  <1>5. CASE BatchBegin
    BY <1>5, BeginBatch
  <1>6. CASE ScanItem
    BY <1>6, ScanInv, SMTT(30)
  <1>7. CASE ScanEnd
    BY <1>7, ScanEndInv
  <1>8. CASE Item
    BY <1>8, ItemInv
  <1>9. CASE ItemsEnd
    BY <1>9, ItemsEndInv
  <1>10. CASE AppendField
    <2>1. pc \in {"append", "fallback"} /\ UNCHANGED <<filters, req, pc, i, off, touched, shown>>
      BY <1>10, Zenon DEF AppendField
    <2>2. resp'.status = resp.status
      <3>1. CASE UNCHANGED resp
        BY <3>1
      <3>2. CASE resp' = [resp EXCEPT !.body = Append(@, Head(todo)), !.at = Append(@, resp.len),
                                      !.len = @ + Head(todo).sz]
        BY <3>2 DEF AnswerInv, RespTypes, Resps
      <3> QED
        BY <1>10, <3>1, <3>2, ZenonT(60) DEF AppendField
    <2>3. pc' \notin {"idle", "compose", "dispatch"} /\ pc' \notin {"scan", "items"} /\ pc' # "scan" /\ pc' # "items"
      BY <2>1
    <2>4. ItemsLen' = ItemsLen
      BY <2>1, SameItems, Zenon
    <2> QED
      BY <2>1, <2>2, <2>3, <2>4, ZenonT(60) DEF BatchInv
  <1>11. CASE Answered
    <2>1. CASE Error("INTERNAL") /\ pc' = "fallback"
      <3>1. "INTERNAL" \in Refusals \cup Failed /\ "INTERNAL" \notin Refusals /\ pc' \in {"append", "fallback"}
        BY <2>1 DEF Refusals, Failed
      <3> QED
        BY <2>1, <3>1, ErrorEnds, SMTT(30)
    <2>2. CASE pc' = (IF pc = "fallback" /\ rc > 0 THEN "closed" ELSE "reply") /\ UNCHANGED <<resp, todo, rc>>
      <3>1. /\ pc' \notin {"idle", "compose", "dispatch"} /\ pc' \notin {"scan", "items"} /\ pc' # "scan" /\ pc' # "items"
            /\ pc' # "append"
        BY <2>2, SMTT(30)
      <3>2. resp' = resp /\ touched' = touched
        BY <1>11, <2>2 DEF Answered
      <3> QED
        BY <3>1, <3>2, ZenonT(60) DEF BatchInv
    <2> QED
      BY <1>11, <2>1, <2>2, ZenonT(60) DEF Answered
  <1>12. CASE Show \/ ShowEntry \/ ShowEnd
    <2>1. pc = "reply" /\ pc' \in {"done", "reply"} /\ UNCHANGED <<touched, resp>>
      <3>1. CASE Show
        BY <3>1 DEF Show
      <3>2. CASE ShowEntry
        BY <3>2, ZenonT(60) DEF ShowEntry
      <3>3. CASE ShowEnd
        BY <3>3 DEF ShowEnd
      <3> QED
        BY <1>12, <3>1, <3>2, <3>3, SMTT(30)
    <2>2. /\ pc' \notin {"idle", "compose", "dispatch"} /\ pc' \notin {"scan", "items"} /\ pc' # "scan" /\ pc' # "items"
          /\ pc' # "append"
      BY <2>1
    <2> QED
      BY <2>1, <2>2, ZenonT(60) DEF BatchInv
  <1>13. CASE Again
    <2>1. pc' = "idle" /\ i' = 1 /\ off' = 0 /\ ~touched' /\ resp'.status = "OK"
      BY <1>13 DEF Again, Empty
    <2>2. pc' \notin {"scan", "items"} /\ pc' # "scan" /\ pc' # "items" /\ pc' # "append"
      BY <2>1
    <2> QED
      BY <2>1, <2>2, ZenonT(60) DEF BatchInv
  <1>14. CASE UNCHANGED reqVars
    <2>1. UNCHANGED <<req, pc, i, off, touched, resp>>
      BY <1>14 DEF reqVars
    <2>2. ItemsLen' = ItemsLen /\ \A S, n : ReadUpTo(S, n) => ReadUpTo(S, n)'
      BY <2>1, SameItems, ZenonT(60)
    <2>3. pc = "scan" => \E S : ReadUpTo(S, i)' /\ S[i'] = off'
      BY <2>1, <2>2, ZenonT(60) DEF BatchInv
    <2>4. pc = "items" /\ touched => \E S : ReadUpTo(S, req.count + 1)' /\ S[req'.count + 1] = ItemsLen' /\ S[i'] = off'
      BY <2>1, <2>2, ZenonT(60) DEF BatchInv
    <2> QED
      BY <2>1, <2>2, <2>3, <2>4, ZenonT(60) DEF BatchInv
  <1> QED
    BY <1>2, <1>3, <1>4, <1>5, <1>6, <1>7, <1>8, <1>9, <1>10, <1>11, <1>12, <1>13, <1>14, ZenonT(60)
       DEF ReqNext

(* The offsets of the items that bloomd_handle_batch has read.             *)
THEOREM BatchInvariant == ReqSpec => []BatchInv
  <1>1. ReqInit => BatchInv
    BY DEF ReqInit, Empty, BatchInv, Refusals
  <1>2. AnswerInv /\ BatchInv /\ [ReqNext]_reqVars => BatchInv'
    BY BatchStep, SMTT(30)
  <1> QED
    BY <1>1, <1>2, AnswerInvariant, PTL DEF ReqSpec

(* Whatever lengths and counts stand in a request: one that is refused has *)
(* not touched the state of a filter.  For a MADD this is what the first   *)
(* loop is for, and it needs the second to find exactly the items the      *)
(* first one found.                                                        *)
THEOREM RefusedIsUntouched == ReqSpec => []RejectedUntouched
  <1>1. BatchInv => RejectedUntouched
    BY SMTT(30) DEF BatchInv, RejectedUntouched, Refusals
  <1> QED
    BY <1>1, BatchInvariant, PTL

(* Nor is a batch ever read past its end, and one that is answered was     *)
(* read to its last byte.                                                  *)
THEOREM BatchStaysInside == ReqSpec => []BatchInBounds
  <1>1. BatchInv => BatchInBounds
    BY SMTT(30) DEF BatchInv, BatchInBounds
  <1> QED
    BY <1>1, BatchInvariant, PTL
=============================================================================
