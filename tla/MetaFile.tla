------------------------------ MODULE MetaFile ------------------------------
(***************************************************************************)
(* The text of a metadata file: what bloomd_meta_write_atomic writes and   *)
(* what bloomd_meta_read_file makes of a file, line by line (meta.c).      *)
(*                                                                         *)
(* A line is a key and a value.  Of most values only this matters: it is   *)
(* one that bloomd accepts ("good"), it parses but is refused in the end   *)
(* ("range"), or it does not parse ("junk").  An error rate may also be    *)
(* subnormal, a number for which strtod sets ERANGE.  A pin path is good,  *)
(* or it is long: with its key it does not fit into line[1024] (one that   *)
(* does not fit into body[2048] is never written), and fgets returns its   *)
(* line in two pieces, of which the first has the path cut short.  Pin     *)
(* paths are taken to have no "=" in them.                                 *)
(***************************************************************************)
EXTENDS Naturals, Sequences

CONSTANT MaxEdits   \* bound on the edits of one file

VARIABLES
  file,       \* the lines of the file
  edits,      \* how often somebody edited it since it was written
  wrote,      \* the metadata last written, NoMeta once somebody edited it
  reader,     \* "idle", "reading", or the result, "ok" or "invalid"
  left,       \* the lines that are still to be read
  have,       \* the have_ flags
  got         \* *meta, as far as it was read

fileVars == <<file, edits, wrote, reader, left, have, got>>

Values   == {"name", "backend", "digest", "capacity", "error_rate", "hashes", "value_size"}
Flags    == {"has_data", "log_clean"}
Required == Values \cup {"pin_path"}
Order    == <<"version", "name", "backend", "digest", "capacity", "error_rate", "hashes",
              "value_size", "has_data", "log_clean", "pin_path">>

(* What bloomd writes: has_data=0 only with log_clean=1.                   *)
Meta   == {m \in [has_data : BOOLEAN, log_clean : BOOLEAN,
                  pin_path : {"good", "long"}, error_rate : {"good", "subnormal"}] :
             m.has_data \/ m.log_clean}
NoMeta == <<>>

(* What read_file starts from, and that all values are in their ranges.    *)
Blank == [version |-> "0", has_data |-> TRUE, log_clean |-> FALSE, pin_path |-> "", inrange |-> TRUE]

Line(k, v) == [key |-> k, val |-> v]

(* bloomd_meta_write_atomic: the lines, in the order of the format string. *)
BugValueOf(m, k) ==
  CASE k = "version"   -> "1"
    [] k = "has_data"  -> IF m.log_clean THEN "1" ELSE "0"
    [] k = "log_clean" -> IF m.has_data THEN "1" ELSE "0"
    [] k \in {"pin_path", "error_rate"} -> m[k]
    [] OTHER           -> "good"

ValueOf(m, k) ==
  CASE k = "version" -> "1"
    [] k \in Flags   -> IF m[k] THEN "1" ELSE "0"
    [] k \in {"pin_path", "error_rate"} -> m[k]
    [] OTHER         -> "good"

Body(m) == [i \in 1..Len(Order) |-> Line(Order[i], ValueOf(m, Order[i]))]

FileInit ==
  /\ file = <<>> /\ edits = 0 /\ wrote = NoMeta
  /\ reader = "idle" /\ left = <<>> /\ have = {} /\ got = Blank

Write(m) ==
  /\ reader # "reading"
  /\ file' = Body(m) /\ edits' = 0 /\ wrote' = m
  /\ reader' = "idle" /\ left' = <<>> /\ have' = {} /\ got' = Blank

-----------------------------------------------------------------------------
(* Somebody edits the file: any stretch of its lines goes, and a line may  *)
(* come in its place.                                                      *)
OtherLines ==
  {Line(k, v) : k \in Values, v \in {"good", "range", "junk"}}
    \cup {Line(k, v) : k \in Flags \cup {"version"}, v \in {"0", "1", "2", "junk"}}
    \cup {Line("pin_path", v) : v \in {"good", "long"}}
    \cup {Line(k, "junk") : k \in {"comment", "unknown"}}

Edit ==
  /\ reader # "reading" /\ edits < MaxEdits
  /\ \E i \in 1..(Len(file) + 1), new \in {<<>>} \cup {<<l>> : l \in OtherLines} :
       \E j \in (i - 1)..Len(file) :
         file' = SubSeq(file, 1, i - 1) \o new \o SubSeq(file, j + 1, Len(file))
  /\ edits' = edits + 1 /\ wrote' = NoMeta
  /\ reader' = "idle" /\ left' = <<>> /\ have' = {} /\ got' = Blank

-----------------------------------------------------------------------------
(* bloomd_meta_read_file.                                                  *)

Open ==
  /\ reader = "idle" /\ file # <<>>
  /\ reader' = "reading" /\ left' = file /\ have' = {} /\ got' = Blank
  /\ UNCHANGED <<file, edits, wrote>>

(* What fgets makes of a line: of a long one a piece is left over that is  *)
(* then read as if it were a line.                                         *)
Pieces(l) ==
  IF l = Line("pin_path", "long")
  THEN {<<Line("pin_path", "cut"), Line(k, "junk")>> : k \in {"unknown", "comment"}}
  ELSE {<<l>>}

(* The conversions of the values, strtod and ERANGE included.              *)
Parses(l) ==
  CASE l.key = "version"  -> l.val # "junk"
    [] l.key \in Values   -> l.val \in {"good", "range"}
    [] l.key \in Flags    -> l.val \in {"0", "1"}
    [] l.key = "pin_path" -> TRUE
    [] OTHER              -> FALSE

(* A second line of the same key is an error; a version counts as seen     *)
(* once it is not 0.                                                       *)
Seen(k) == IF k = "version" THEN got.version # "0" ELSE k \in have

Assign(l) ==
  CASE l.key \in Flags -> [got EXCEPT ![l.key] = (l.val = "1")]
    [] l.key \in {"version", "pin_path"} -> [got EXCEPT ![l.key] = l.val]
    [] OTHER -> [got EXCEPT !.inrange = @ /\ l.val = "good"]

ReadLine ==
  /\ reader = "reading" /\ left # <<>>
  /\ \E pieces \in Pieces(Head(left)) :
       LET l == Head(pieces) IN
       /\ left' = Tail(pieces) \o Tail(left)
       /\ \/ l.key = "comment" /\ UNCHANGED <<reader, have, got>>
          \/ /\ l.key # "comment" /\ Parses(l) /\ ~Seen(l.key)
             /\ have' = have \cup {l.key} /\ got' = Assign(l)
             /\ UNCHANGED reader
          \/ /\ l.key # "comment" /\ (Parses(l) => Seen(l.key))
             /\ reader' = "invalid" /\ UNCHANGED <<have, got>>
  /\ UNCHANGED <<file, edits, wrote>>

(* The checks after the last line.  Metadata without log_clean is from a   *)
(* version that did not write it.                                          *)
BugDefaultClean == [got EXCEPT !.log_clean = @ \/ "log_clean" \notin have]

DefaultClean == [got EXCEPT !.log_clean = IF "log_clean" \in have THEN @ ELSE ~got.has_data]

ReadEnd ==
  /\ reader = "reading" /\ left = <<>>
  /\ IF Required \subseteq have /\ got.version = "1" /\ got.inrange
       THEN reader' = "ok" /\ got' = DefaultClean
       ELSE reader' = "invalid" /\ UNCHANGED got
  /\ UNCHANGED <<file, edits, wrote, left, have>>

FileNext == (\E m \in Meta : Write(m)) \/ Edit \/ Open \/ ReadLine \/ ReadEnd

FileSpec == FileInit /\ [][FileNext]_fileVars

-----------------------------------------------------------------------------
(* "keeps filter state on disk so filters can survive restarts"            *)
(* (README.md): the metadata that bloomd_meta_write_atomic wrote, and      *)
(* nobody touched, bloomd_meta_read_file accepts, as the metadata of the   *)
(* same pin and with the same flags.                                       *)
ReadsBack ==
  wrote # NoMeta =>
    /\ reader # "invalid"
    /\ reader = "ok" => \A k \in Flags \cup {"pin_path"} : got[k] = wrote[k]

(* Metadata that bloomd wrote and a start accepts has the has_data and     *)
(* log_clean that were written, so that a start neither takes a filter     *)
(* with digests for empty nor trusts a log that lags behind.               *)
FlagsKept ==
  wrote # NoMeta /\ reader = "ok" => \A k \in Flags : got[k] = wrote[k]

(* The values that the lines of a key have.                                *)
ValuesOf(k) == {file[i].val : i \in {j \in 1..Len(file) : file[j].key = k}}

(* Whatever lines a file lacks or has twice, bloomd_meta_read_file does    *)
(* not make the state of the filter look better than the file says: no     *)
(* file, not one without either flag, counts as that of an empty filter    *)
(* without has_data=0 in it, nor its log as clean without log_clean=1; and *)
(* what is accepted has one version, which is 1, and a good line for       *)
(* everything else.                                                        *)
NotFlattered ==
  reader = "ok" =>
    /\ ~got.has_data => ValuesOf("has_data") = {"0"}
    /\ got.has_data /\ got.log_clean => ValuesOf("log_clean") = {"1"}
    /\ ValuesOf("version") \ {"0"} = {"1"}
    /\ \A k \in Values : ValuesOf(k) = {"good"}
=============================================================================
