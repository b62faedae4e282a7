------------------------------ MODULE Requests ------------------------------
(***************************************************************************)
(* One request and its answer, as bytes: how a handler of the daemon reads *)
(* the body of a request (daemon.c), how it appends its answer to a buffer *)
(* that may run full or out of memory (protocol.c), and how bloomctl       *)
(* writes the one and reads the other (bloomctl.c).                        *)
(*                                                                         *)
(* A request is its opcode, the length of its body, and what its handler   *)
(* finds where it looks: the fields of the fixed header, whether the       *)
(* name_len bytes after it make up a valid name and the name of a filter,  *)
(* and, for a batch, the lengths it reads in front of the items.  An       *)
(* answer is a sequence of fields, each of a size in bytes; what a field   *)
(* is about is a word, and only lengths and counts have a number.  What an *)
(* operation does to a filter is the subject of FilterStore: here it       *)
(* succeeds or fails.                                                      *)
(***************************************************************************)
EXTENDS Integers, Sequences, Functions

CONSTANTS
  Lists,        \* the sequences of filters the daemon may have
  NameLen,      \* the lengths of their names
  MaxName,      \* BLOOMD_MAX_NAME_LEN
  MaxBatch,     \* BLOOMD_MAX_BATCH_ITEMS
  MaxBody,      \* BLOOMD_MAX_FRAME_BODY
  ItemLens,     \* lengths of payloads
  Slack,        \* how far the length of a body may be off
  MaxNoMem      \* how many appends of an answer may fail for want of memory

ASSUME RequestAssumption ==
  /\ NameLen \in [DOMAIN NameLen -> 1..MaxName] /\ "invalid" \notin DOMAIN NameLen
  /\ Lists \subseteq Seq(DOMAIN NameLen)
  /\ MaxName \in Nat /\ MaxBatch \in Nat /\ MaxBody \in Nat /\ MaxNoMem \in Nat
  /\ ItemLens \subseteq Nat /\ Slack \subseteq Int

VARIABLES
  filters,      \* the filter set, in its order
  req,          \* the request
  pc,           \* what comes next
  i, off,       \* of the loop that is running: the item and its offset
  touched,      \* the handler went on to the state of a filter
  resp,         \* resp->header.status and resp->body: its fields, where each begins, len
  todo,         \* the fields still to be appended
  rc,           \* how many appends have failed; in the code, rc # 0
  shown         \* what bloomctl printed: values with their labels, or an error

reqVars == <<filters, req, pc, i, off, touched, resp, todo, rc, shown>>

Plain  == {"PING", "LIST", "STATS"}
Named  == {"INFO", "DROP"}
Single == {"ADD", "CHECK"}
Batch  == {"MADD", "MCHECK"}
Ops    == Plain \cup Named \cup Single \cup Batch \cup {"CREATE", "unknown"}

Hdr(op) == IF op = "CREATE" THEN 24 ELSE 8

None == [op |-> "PING", from |-> "bloomctl", body_len |-> 0, name_len |-> 0, name |-> "invalid",
         reserved |-> 0, range |-> TRUE, payload_len |-> 0, count |-> 0, lens |-> <<>>]

Printed(v) == [result |-> "values", values |-> v]
Failure(e) == [result |-> e, values |-> <<>>]

(* The name_len bytes are the name of a filter, a valid name that no       *)
(* filter has, or no valid name.                                           *)
AllNames == DOMAIN NameLen
LenOf(n) == IF n \in AllNames THEN {NameLen[n]} ELSE {0, 1, MaxName, MaxName + 1}

(* A response without a body.                                              *)
Empty(status) == [status |-> status, body |-> <<>>, at |-> <<>>, len |-> 0]

ReqInit ==
  /\ filters \in Lists
  /\ req = None /\ pc = "idle" /\ i = 1 /\ off = 0 /\ touched = FALSE
  /\ resp = Empty("OK") /\ todo = <<>> /\ rc = 0
  /\ shown = Printed(<<>>)

-----------------------------------------------------------------------------
(* What bloomctl sends: the lengths follow from the arguments, and a name  *)
(* that is not valid, a batch that is too large or a body that does not    *)
(* fit makes it stop before.                                               *)

NameRequest(op, n, len) ==
  [None EXCEPT !.op = op, !.name = n, !.name_len = len, !.body_len = Hdr(op) + len]

CreateRequest(n, len, range) == [NameRequest("CREATE", n, len) EXCEPT !.range = range]

PayloadRequest(op, n, len, payload) ==
  [NameRequest(op, n, len) EXCEPT !.payload_len = payload, !.body_len = @ + payload]

BatchRequest(op, n, len, count) == [NameRequest(op, n, len) EXCEPT !.count = count]

Ask ==
  /\ pc = "idle"
  /\ \/ \E op \in Plain : req' = [None EXCEPT !.op = op]
     \/ \E n \in AllNames \cup {"unused"} : \E len \in LenOf(n) \cap 1..MaxName :
          \/ \E range \in BOOLEAN : req' = CreateRequest(n, len, range)
          \/ \E op \in Named : req' = NameRequest(op, n, len)
          \/ \E op \in Single, payload \in ItemLens : req' = PayloadRequest(op, n, len, payload)
          \/ \E op \in Batch, count \in 1..MaxBatch : req' = BatchRequest(op, n, len, count)
  /\ req'.body_len \in 0..MaxBody
  /\ pc' = IF req'.op \in Batch THEN "compose" ELSE "dispatch"
  /\ UNCHANGED <<filters, i, off, touched, resp, todo, rc, shown>>

(* The loop of bloomctl_command_batch, which gives up when the body is     *)
(* full.                                                                   *)
ComposeItem ==
  /\ pc = "compose"
  /\ \E len \in ItemLens :
       LET size == req.body_len + 4 + len IN
       \/ /\ size <= MaxBody
          /\ req' = [req EXCEPT !.lens = Append(@, len), !.body_len = size]
          /\ pc' = IF Len(req.lens) + 1 = req.count THEN "dispatch" ELSE "compose"
       \/ size > MaxBody /\ req' = None /\ pc' = "idle"
  /\ UNCHANGED <<filters, i, off, touched, resp, todo, rc, shown>>

(* What anybody else may send, with a body of about the right length.      *)
AskOther ==
  /\ pc = "idle"
  /\ \E op \in Ops, n \in AllNames \cup {"unused", "invalid"} : \E len \in LenOf(n) :
     \E more \in ItemLens, d \in Slack, reserved \in {0, 1} :
     \E count \in (IF op \in Batch THEN 0..MaxBatch + 1 ELSE {0}) :
     \E lens \in (IF op \in Batch THEN [1..MaxBatch -> ItemLens \cup {MaxBody + 1}] ELSE {<<>>}) :
     LET size == d + (IF op \in Plain THEN 0 ELSE Hdr(op) + len + more + 4 * count) IN
       /\ size \in 0..MaxBody
       /\ req' = [None EXCEPT !.op = op, !.from = "other", !.name = n, !.name_len = len,
                              !.reserved = reserved, !.payload_len = more, !.count = count,
                              !.lens = lens, !.body_len = size]
  /\ pc' = "dispatch"
  /\ UNCHANGED <<filters, i, off, touched, resp, todo, rc, shown>>

-----------------------------------------------------------------------------
(* Appending an answer.                                                    *)

Field(sz, is)   == [sz |-> sz, is |-> is, n |-> 0]
Num(sz, is, n)  == [sz |-> sz, is |-> is, n |-> n]

ErrorBody == <<Field(4, "code"), Num(4, "message_len", 10), Field(10, "message")>>

Error(status) ==
  /\ resp' = Empty(status)
  /\ todo' = ErrorBody /\ rc' = 0

InfoBody ==
  <<Num(2, "name_len", req.name_len), Num(2, "backend_len", 3), Num(2, "digest_len", 2),
    Field(2, "zero"), Field(8, "capacity"), Field(8, "error_rate"), Field(4, "hashes"),
    Field(4, "value_size"), Field(8, "add_calls"), Field(8, "check_calls"),
    Field(8, "batch_add_calls"), Field(8, "batch_check_calls"), Num(4, "pin_len", 1),
    Field(4, "state_flags"), Field(req.name_len, "name"), Field(3, "backend"),
    Field(2, "digest"), Field(1, "pin_path")>>

StatsBody ==
  <<Field(8, "requests"), Field(8, "responses"), Field(8, "errors"),
    Field(8, "accepted_connections"), Field(8, "filters_loaded"), Field(8, "filters_created"),
    Field(8, "filters_dropped"), Field(8, "orphan_meta"), Field(8, "orphan_pin"),
    Field(4, "filter_count"), Field(4, "metadata_only"), Field(4, "durable"),
    Field(8, "empty_pool_hits"), Field(8, "empty_pool_misses")>>

ListBody ==
  <<Num(4, "count", Len(filters))>>
    \o [k \in 1..(2 * Len(filters)) |->
          LET n == filters[(k + 1) \div 2]
          IN  IF k % 2 = 1 THEN Num(2, "len", NameLen[n]) ELSE Field(NameLen[n], n)]

Bool       == <<Field(1, "present")>>
CountBytes == <<Num(2, "count", req.count), Field(req.count, "results")>>

Answer ==
  CASE req.op = "PING"     -> <<Field(4, "PONG")>>
    [] req.op \in Single   -> Bool
    [] req.op \in Batch    -> CountBytes
    [] req.op = "INFO"     -> InfoBody
    [] req.op = "STATS"    -> StatsBody
    [] req.op = "LIST"     -> ListBody
    [] OTHER               -> <<>>

-----------------------------------------------------------------------------
(* The handlers.                                                           *)

(* The checks of each handler in its order: each is passed, or refuses the *)
(* request with its status.                                                *)
If(refused, status) == IF refused THEN status ELSE "pass"

Short      == If(req.body_len < Hdr(req.op), "BAD_REQUEST")
Length(n)  == If(req.body_len # Hdr(req.op) + n, "BAD_REQUEST")
Reserved   == If(req.reserved # 0, "BAD_REQUEST")
BadName(s) == If(req.name_len \notin 1..MaxName \/ req.name = "invalid", s)
Known      == req.name \in Range(filters)
Missing    == If(~Known, "NOT_FOUND")

CreateChecks ==
  <<Short, Length(req.name_len), Reserved, BadName("NAME"),
    If(~req.range, "BAD_REQUEST"), If(Known, "EXISTS")>>

NameChecks == <<Short, Length(req.name_len), Reserved, BadName("NAME"), Missing>>

PayloadChecks ==
  <<Short, Length(req.name_len + req.payload_len), Reserved, BadName("BAD_REQUEST"), Missing>>

BatchChecks ==
  <<Short, If(req.count = 0, "BAD_REQUEST"), If(req.count > MaxBatch, "TOO_LARGE"), Reserved,
    If(req.body_len < Hdr(req.op) + req.name_len, "BAD_REQUEST"),
    BadName("BAD_REQUEST"), Missing>>

Checks ==
  CASE req.op \in Plain  -> <<If(req.body_len # 0, "BAD_REQUEST")>>
    [] req.op = "CREATE" -> CreateChecks
    [] req.op \in Named  -> NameChecks
    [] req.op \in Single -> PayloadChecks
    [] req.op \in Batch  -> BatchChecks
    [] OTHER             -> <<"BAD_REQUEST">>

Passes == \A k \in 1..Len(Checks) : Checks[k] = "pass"

Reject ==
  /\ pc = "dispatch"
  /\ \E k \in 1..Len(Checks) :
       /\ Checks[k] # "pass" /\ \A j \in 1..(k - 1) : Checks[j] = "pass"
       /\ Error(Checks[k])
  /\ pc' = "append"
  /\ UNCHANGED <<filters, req, i, off, touched, shown>>

(* The statuses an operation that has started may still end with.          *)
CreateFailures == {"INTERNAL", "PERM", "BPF", "IO"}
AddFailures    == {"BPF", "IO"}
CheckFailures  == {"BPF"}
DropFailures   == {"BPF", "IO"}

Failures ==
  CASE req.op = "CREATE"              -> CreateFailures
    [] req.op \in {"ADD", "MADD"}     -> AddFailures
    [] req.op \in {"CHECK", "MCHECK"} -> CheckFailures
    [] req.op = "DROP"                -> DropFailures
    [] OTHER                          -> {}

Changes == req.op \in {"CREATE", "ADD", "MADD", "DROP"}

Handle ==
  /\ pc = "dispatch" /\ Passes /\ req.op \notin Batch
  /\ touched' = Changes
  /\ \/ todo' = Answer /\ UNCHANGED <<resp, rc>>
     \/ \E s \in Failures : Error(s)
  /\ pc' = "append"
  /\ UNCHANGED <<filters, req, i, off, shown>>

(* A MADD looks at all items before it changes anything.                   *)
BugFirstLoop == "items"

FirstLoop == IF req.op = "MADD" THEN "scan" ELSE "items"

BatchBegin ==
  /\ pc = "dispatch" /\ Passes /\ req.op \in Batch
  /\ pc' = FirstLoop /\ touched' = (pc' = "items" /\ Changes)
  /\ UNCHANGED <<filters, req, i, off, resp, todo, rc, shown>>

ItemsLen == req.body_len - Hdr(req.op) - req.name_len

(* bloomd_protocol_read_payload: what is left holds the length, the length *)
(* is not too large, and what is left holds the payload.                   *)
BugReadable == ItemsLen - off >= 4 /\ req.lens[i] <= MaxBody

Readable == ItemsLen - off >= 4 /\ req.lens[i] <= MaxBody /\ ItemsLen - off >= 4 + req.lens[i]

Malformed ==
  /\ Error("BAD_REQUEST")
  /\ pc' = "append"
  /\ UNCHANGED <<filters, req, i, off, touched, shown>>

NextItem == i' = i + 1 /\ off' = off + 4 + req.lens[i]

ScanItem ==
  /\ pc = "scan" /\ i <= req.count
  /\ \/ ~Readable /\ Malformed
     \/ Readable /\ NextItem /\ UNCHANGED <<filters, req, pc, touched, resp, todo, rc, shown>>

(* Then the filter is made durable and its log marked.                     *)
ScanEnd ==
  /\ pc = "scan" /\ i > req.count
  /\ \/ off # ItemsLen /\ Malformed
     \/ /\ off = ItemsLen
        /\ i' = 1 /\ off' = 0 /\ touched' = TRUE
        /\ \/ pc' = "items" /\ UNCHANGED <<resp, todo, rc>>
           \/ pc' = "append" /\ Error("IO")
        /\ UNCHANGED <<filters, req, shown>>

Item ==
  /\ pc = "items" /\ i <= req.count
  /\ \/ ~Readable /\ Malformed
     \/ Readable /\ NextItem /\ UNCHANGED <<filters, req, pc, touched, resp, todo, rc, shown>>
     \/ /\ Readable /\ \E s \in Failures : Error(s)
        /\ pc' = "append" /\ UNCHANGED <<filters, req, i, off, touched, shown>>

ItemsEnd ==
  /\ pc = "items" /\ i > req.count
  /\ \/ off # ItemsLen /\ Malformed
     \/ /\ off = ItemsLen
        /\ todo' = Answer /\ pc' = "append"
        /\ UNCHANGED <<filters, req, i, off, touched, resp, rc, shown>>

-----------------------------------------------------------------------------
(* bloomd_buffer_append, field by field.  One that fails, for want of room *)
(* or of memory, is the last, except in INFO and STATS, which collect what *)
(* their appends return.  (That realloc is not called when the buffer is   *)
(* already large enough is left out: any append may fail.)                 *)

BugCollect(failed) == failed

Collect(failed) == rc + failed

AppendField ==
  /\ pc \in {"append", "fallback"} /\ todo # <<>>
  /\ LET f == Head(todo) IN
       \/ /\ resp.len + f.sz <= MaxBody
          /\ resp' = [resp EXCEPT !.body = Append(@, f), !.at = Append(@, resp.len), !.len = @ + f.sz]
          /\ todo' = Tail(todo) /\ rc' = Collect(0)
       \/ /\ resp.len + f.sz > MaxBody \/ rc < MaxNoMem
          /\ todo' = IF req.op \in {"INFO", "STATS"} /\ resp.status = "OK" THEN Tail(todo) ELSE <<>>
          /\ rc' = Collect(1) /\ UNCHANGED resp
  /\ UNCHANGED <<filters, req, pc, i, off, touched, shown>>

(* The end of bloomd_dispatch: an answer that could not be completed       *)
(* becomes an error; if not even that one can be appended the connection   *)
(* is closed.  An error that a handler reported goes out as far as it got. *)
Answered ==
  /\ pc \in {"append", "fallback"} /\ todo = <<>>
  /\ \/ /\ pc = "append" /\ rc > 0 /\ resp.status = "OK"
        /\ Error("INTERNAL") /\ pc' = "fallback"
     \/ /\ pc = "append" => (rc = 0 \/ resp.status # "OK")
        /\ pc' = (IF pc = "fallback" /\ rc > 0 THEN "closed" ELSE "reply")
        /\ UNCHANGED <<resp, todo, rc>>
  /\ i' = 1 /\ off' = 4
  /\ UNCHANGED <<filters, req, touched, shown>>

-----------------------------------------------------------------------------
(* What bloomctl makes of the answer.                                      *)

(* The field of size sz at offset o of the body.                           *)
At(o, sz) ==
  LET hits == {k \in 1..Len(resp.body) : resp.at[k] = o /\ resp.body[k].sz = sz}
  IN  IF hits = {} THEN Field(sz, "garbage") ELSE resp.body[CHOOSE k \in hits : TRUE]

Row(label, o, sz) == <<label, At(o, sz)>>

ErrorShown ==
  IF resp.len < 8 \/ 8 + At(4, 4).n > resp.len THEN Failure("malformed") ELSE Failure("error")

BatchShown ==
  IF resp.len < 2 \/ resp.len # 2 + At(0, 2).n THEN Failure("malformed")
  ELSE Printed(<<Row("results", 2, At(0, 2).n)>>)

BugInfoShown ==
  LET n == At(0, 2).n  b == At(2, 2).n  d == At(4, 2).n  p == At(64, 4).n IN
  IF resp.len < 72 \/ 72 + n + b + d + p # resp.len THEN Failure("malformed")
  ELSE Printed(<<Row("capacity", 8, 8), Row("error_rate", 16, 8), Row("hashes", 24, 4),
                Row("value_size", 28, 4), Row("add_calls", 32, 8), Row("check_calls", 40, 8),
                Row("batch_add_calls", 48, 8), Row("batch_check_calls", 56, 8),
                Row("state_flags", 68, 4), Row("name", 72, n), Row("backend", 72 + n, b),
                Row("digest", 72 + b, d), Row("pin_path", 72 + n + b + d, p)>>)

InfoShown ==
  LET n == At(0, 2).n  b == At(2, 2).n  d == At(4, 2).n  p == At(64, 4).n IN
  IF resp.len < 72 \/ 72 + n + b + d + p # resp.len THEN Failure("malformed")
  ELSE Printed(<<Row("capacity", 8, 8), Row("error_rate", 16, 8), Row("hashes", 24, 4),
                Row("value_size", 28, 4), Row("add_calls", 32, 8), Row("check_calls", 40, 8),
                Row("batch_add_calls", 48, 8), Row("batch_check_calls", 56, 8),
                Row("state_flags", 68, 4), Row("name", 72, n), Row("backend", 72 + n, b),
                Row("digest", 72 + n + b, d), Row("pin_path", 72 + n + b + d, p)>>)

StatsShown ==
  IF resp.len # 100 THEN Failure("malformed")
  ELSE Printed(<<Row("requests", 0, 8), Row("responses", 8, 8), Row("errors", 16, 8),
                Row("accepted_connections", 24, 8), Row("filters_loaded", 32, 8),
                Row("filters_created", 40, 8), Row("filters_dropped", 48, 8),
                Row("orphan_meta", 56, 8), Row("orphan_pin", 64, 8), Row("filter_count", 72, 4),
                Row("metadata_only", 76, 4), Row("durable", 80, 4),
                Row("empty_pool_hits", 84, 8), Row("empty_pool_misses", 92, 8)>>)

Show ==
  /\ pc = "reply" /\ req.from = "bloomctl"
  /\ (resp.status = "OK" /\ req.op = "LIST") => resp.len < 4
  /\ shown' = CASE resp.status # "OK" -> ErrorShown
                [] req.op = "LIST"    -> Failure("malformed")
                [] req.op = "PING"    -> Printed(<<Row("PONG", 0, resp.len)>>)
                [] req.op \in Single  -> IF resp.len = 1 THEN Printed(<<Row("present", 0, 1)>>)
                                         ELSE Failure("malformed")
                [] req.op \in Batch   -> BatchShown
                [] req.op = "INFO"    -> InfoShown
                [] req.op = "STATS"   -> StatsShown
                [] OTHER              -> shown
  /\ pc' = "done"
  /\ UNCHANGED <<filters, req, i, off, touched, resp, todo, rc>>

(* The loop over the entries of a LIST.                                    *)
ShowEntry ==
  LET len == At(off, 2).n IN
  /\ pc = "reply" /\ req.from = "bloomctl" /\ resp.status = "OK" /\ req.op = "LIST"
  /\ resp.len >= 4 /\ i <= At(0, 4).n
  /\ IF off + 2 > resp.len \/ off + 2 + len > resp.len
       THEN pc' = "done" /\ shown' = Failure("malformed") /\ UNCHANGED <<i, off>>
       ELSE /\ shown' = [shown EXCEPT !.values = Append(@, Row("entry", off + 2, len))]
            /\ i' = i + 1 /\ off' = off + 2 + len
            /\ UNCHANGED pc
  /\ UNCHANGED <<filters, req, touched, resp, todo, rc>>

ShowEnd ==
  /\ pc = "reply" /\ req.from = "bloomctl" /\ resp.status = "OK" /\ req.op = "LIST"
  /\ resp.len >= 4 /\ i > At(0, 4).n
  /\ pc' = "done"
  /\ shown' = IF off = resp.len THEN shown ELSE Failure("malformed")
  /\ UNCHANGED <<filters, req, i, off, touched, resp, todo, rc>>

(* The next request, with response and locals reset.                       *)
Again ==
  /\ pc \in {"done", "closed"} \/ (pc = "reply" /\ req.from = "other")
  /\ req' = None /\ pc' = "idle" /\ i' = 1 /\ off' = 0 /\ touched' = FALSE
  /\ resp' = Empty("OK") /\ todo' = <<>> /\ rc' = 0
  /\ shown' = Printed(<<>>)
  /\ UNCHANGED filters

ReqNext ==
  \/ Ask \/ ComposeItem \/ AskOther \/ Reject \/ Handle
  \/ BatchBegin \/ ScanItem \/ ScanEnd \/ Item \/ ItemsEnd
  \/ AppendField \/ Answered \/ Show \/ ShowEntry \/ ShowEnd \/ Again

ReqSpec == ReqInit /\ [][ReqNext]_reqVars

-----------------------------------------------------------------------------
(* An answer with status OK is the whole answer: a buffer that runs full   *)
(* (a LIST of too many filters) or out of memory in the middle of it never *)
(* leaves a part of it that looks like all of it.                          *)
WholeAnswers == pc = "reply" /\ resp.status = "OK" => resp.body = Answer

(* A request that is refused for what it says, or for a filter that is not *)
(* or already there, has not touched the state of any filter: a MADD whose *)
(* last item is malformed adds none of the others.                         *)
RejectedUntouched ==
  pc = "reply" /\ resp.status \in {"BAD_REQUEST", "NAME", "TOO_LARGE", "NOT_FOUND", "EXISTS"}
    => ~touched

(* No handler reads a batch past its end, whatever lengths stand in it,    *)
(* and one that is answered was read to its last byte.                     *)
BatchInBounds ==
  /\ pc \in {"scan", "items"} => off <= ItemsLen
  /\ pc = "append" /\ resp.status = "OK" /\ req.op \in Batch => off = ItemsLen /\ i = req.count + 1

(* bloomctl and bloomd understand each other: a request of bloomctl is not *)
(* refused for its form, bloomctl finds a complete answer well-formed, and *)
(* what it prints under a label is what the daemon put there; LIST prints  *)
(* the filters and a batch one result for each item.                       *)
Understood ==
  /\ pc = "reply" /\ req.from = "bloomctl" /\ req.range
       => resp.status \notin {"BAD_REQUEST", "NAME", "TOO_LARGE"}
  /\ pc = "done" /\ resp.status = "OK" =>
       /\ shown.result = "values"
       /\ IF req.op = "LIST"
            THEN [k \in DOMAIN shown.values |-> shown.values[k][2].is] = filters
            ELSE \A k \in DOMAIN shown.values : shown.values[k][2].is = shown.values[k][1]
       /\ req.op \in Batch => shown.values[1][2].sz = Len(req.lens)
=============================================================================
