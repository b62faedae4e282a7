---------------------------- MODULE BloomctlProofs ----------------------------
(***************************************************************************)
(* That bloomctl and bloomd understand each other, for every instance of   *)
(* Requests: where the fields of a response lie, how bloomctl composes a   *)
(* request, and what it prints of the answer.                              *)
(***************************************************************************)
EXTENDS FormatsProofs

-----------------------------------------------------------------------------
(* What bloomctl makes of the answers.  The fields of an answer lie one    *)
(* after the other, from its first byte to its last.                       *)
Layout ==
  /\ Len(resp.at) = Len(resp.body)
  /\ resp.body = <<>> => resp.len = 0
  /\ \A k \in 1..Len(resp.body) :
       /\ k = 1 => resp.at[k] = 0
       /\ k < Len(resp.body) => resp.at[k + 1] = resp.at[k] + resp.body[k].sz
       /\ k = Len(resp.body) => resp.len = resp.at[k] + resp.body[k].sz
  /\ \A j, k \in 1..Len(resp.body) : j < k => resp.at[j] + resp.body[j].sz <= resp.at[k]

(* One more field at the end.                                              *)
Appends(f) ==
  /\ resp'.status = resp.status /\ resp'.body = Append(resp.body, f)
  /\ resp'.at = Append(resp.at, resp.len) /\ resp'.len = resp.len + f.sz

LEMMA RespParts ==
  ASSUME RespTypes
  PROVE  /\ resp.body \in Seq(Fields) /\ resp.at \in Seq(Nat) /\ resp.len \in Nat
         /\ Len(resp.body) \in Nat /\ Len(resp.at) \in Nat
         /\ \A k \in 1..Len(resp.body) : resp.body[k] \in Fields /\ resp.body[k].sz \in Nat
         /\ \A k \in 1..Len(resp.at) : resp.at[k] \in Nat
  <1>1. resp.body \in Seq(Fields) /\ resp.at \in Seq(Nat) /\ resp.len \in Nat
    BY DEF RespTypes, Resps
  <1>2. \A k \in 1..Len(resp.body) : resp.body[k] \in Fields
    BY <1>1
  <1>3. \A f \in Fields : f.sz \in Nat
    BY DEF Fields
  <1> QED
    BY <1>1, <1>2, <1>3, SMTT(30)

(* What a step does to the answer.                                         *)
LEMMA RespStep ==
  ASSUME RespTypes, [ReqNext]_reqVars
  PROVE  \/ UNCHANGED resp
         \/ \E s : resp' = Empty(s)
         \/ pc \in {"append", "fallback"} /\ \E f \in Fields : Appends(f)
  <1>1. ASSUME NEW s, Error(s) PROVE \E t : resp' = Empty(t)
    BY <1>1, Zenon DEF Error
  <1>2. ASSUME Malformed PROVE \E t : resp' = Empty(t)
    BY <1>1, <1>2, Zenon DEF Malformed
  <1>3. CASE Ask \/ ComposeItem \/ AskOther \/ BatchBegin
    BY <1>3, Zenon DEF Ask, ComposeItem, AskOther, BatchBegin
  <1>4. CASE Reject
    BY <1>1, <1>4, Zenon DEF Reject
  <1>5. CASE Handle
    BY <1>1, <1>5, Zenon DEF Handle
  <1>6. CASE ScanItem \/ Item
    BY <1>1, <1>2, <1>6, ZenonT(60) DEF ScanItem, Item
  <1>7. CASE ScanEnd \/ ItemsEnd
    BY <1>1, <1>2, <1>7, ZenonT(60) DEF ScanEnd, ItemsEnd
  <1>8. CASE AppendField
    <2>1. CASE UNCHANGED resp
      BY <2>1
    <2>2. CASE resp' = [resp EXCEPT !.body = Append(@, Head(todo)), !.at = Append(@, resp.len),
                                    !.len = @ + Head(todo).sz]
      <3>1. pc \in {"append", "fallback"} /\ todo # <<>> /\ todo \in Seq(Fields) /\ resp \in Resps
        BY <1>8, Zenon DEF AppendField, RespTypes
      <3>2. Head(todo) \in Fields
        BY <3>1
      <3>3. Appends(Head(todo))
        BY <2>2, <3>1, ZenonT(60) DEF Appends, Resps
      <3> QED
        BY <3>1, <3>2, <3>3, ZenonT(60)
    <2> QED
      BY <1>8, <2>1, <2>2, ZenonT(60) DEF AppendField
  <1>9. CASE Answered
    BY <1>1, <1>9, Zenon DEF Answered
  <1>10. CASE Show \/ ShowEntry \/ ShowEnd
    <2>1. Show => UNCHANGED resp
      BY DEF Show
    <2> QED
      BY <1>10, <2>1, ZenonT(60) DEF ShowEntry, ShowEnd
  <1>11. CASE Again
    BY <1>11, Zenon DEF Again
  <1>12. CASE UNCHANGED reqVars
    BY <1>12, Zenon DEF reqVars
  <1> QED
    BY <1>3, <1>4, <1>5, <1>6, <1>7, <1>8, <1>9, <1>10, <1>11, <1>12, ZenonT(60) DEF ReqNext

LEMMA EmptyLayout == ASSUME NEW s, resp = Empty(s) PROVE Layout
  <1>1. resp.body = <<>> /\ resp.at = <<>> /\ resp.len = 0
    BY DEF Empty
  <1> QED
    BY <1>1 DEF Layout

LEMMA LayoutStep == ASSUME RespTypes, Layout, [ReqNext]_reqVars PROVE Layout'
  <1>1. CASE UNCHANGED resp
    BY <1>1, Zenon DEF Layout
  <1>2. CASE \E s : resp' = Empty(s)
    <2>1. PICK s : resp' = Empty(s)
      BY <1>2, Zenon
    <2>2. resp'.body = <<>> /\ resp'.at = <<>> /\ resp'.len = 0
      BY <2>1, SMTT(30) DEF Empty
    <2> QED
      BY <2>2 DEF Layout
  <1>3. ASSUME NEW f \in Fields, Appends(f) PROVE Layout'
    <2> DEFINE n == Len(resp.body)
    <2>1. /\ n \in Nat /\ Len(resp.at) = n /\ resp.len \in Nat /\ f.sz \in Nat
          /\ \A k \in 1..n : resp.at[k] \in Nat /\ resp.body[k].sz \in Nat
      BY RespParts, SMTT(30) DEF Layout, Fields
    <2>2. /\ Len(resp'.body) = n + 1 /\ Len(resp'.at) = n + 1 /\ resp'.len = resp.len + f.sz
          /\ resp'.body[n + 1] = f /\ resp'.at[n + 1] = resp.len
          /\ \A k \in 1..n : resp'.body[k] = resp.body[k] /\ resp'.at[k] = resp.at[k]
      BY <1>3, <2>1, RespParts, SMTT(30) DEF Appends
    <2>3. \A k \in 1..n : resp.at[k] + resp.body[k].sz <= resp.len
      <3> TAKE k \in 1..n
      <3>1. n \in 1..n /\ resp.len = resp.at[n] + resp.body[n].sz
        BY <2>1, SMTT(30) DEF Layout
      <3>2. CASE k = n
        BY <2>1, <3>1, <3>2
      <3>3. CASE k < n
        <4>1. resp.at[k] + resp.body[k].sz <= resp.at[n]
          BY <3>1, <3>3, SMTT(30) DEF Layout
        <4>2. resp.at[n] \in Nat /\ resp.body[n].sz \in Nat /\ resp.at[k] \in Nat /\ resp.body[k].sz \in Nat
          BY <2>1, <3>1
        <4> QED
          BY <3>1, <4>1, <4>2, SMTT(30)
      <3> QED
        BY <2>1, <3>2, <3>3
    <2>4. n = 0 => resp.len = 0
      <3>1. n = 0 => resp.body = <<>>
        BY RespParts
      <3> QED
        BY <3>1 DEF Layout
    <2>5. resp'.body # <<>>
      BY <2>1, <2>2, SMTT(30)
    <2>6. ASSUME NEW k \in 1..(n + 1)
          PROVE  /\ k = 1 => resp'.at[k] = 0
                 /\ k < n + 1 => resp'.at[k + 1] = resp'.at[k] + resp'.body[k].sz
                 /\ k = n + 1 => resp'.len = resp'.at[k] + resp'.body[k].sz
      <3>1. CASE k = n + 1
        BY <2>1, <2>2, <2>4, <3>1, SMTT(30)
      <3>2. CASE k \in 1..n /\ k + 1 \in 1..n
        <4>1. (k = 1 => resp.at[k] = 0) /\ resp.at[k + 1] = resp.at[k] + resp.body[k].sz
          <5>1. k \in 1..n /\ k < n
            BY <2>1, <3>2
          <5> QED
            BY <5>1, Zenon DEF Layout
        <4> QED
          BY <2>1, <2>2, <3>2, <4>1, Zenon
      <3>3. CASE k = n
        <4>1. k \in 1..n /\ (k = 1 => resp.at[k] = 0) /\ resp.len = resp.at[k] + resp.body[k].sz
          BY <2>1, <3>3, SMTT(30) DEF Layout
        <4> QED
          BY <2>1, <2>2, <3>3, <4>1, ZenonT(60)
      <3> QED
        BY <2>1, <3>1, <3>2, <3>3, SMTT(30)
    <2>7. ASSUME NEW j \in 1..(n + 1), NEW k \in 1..(n + 1), j < k
          PROVE  resp'.at[j] + resp'.body[j].sz <= resp'.at[k]
      <3>1. j \in 1..n
        BY <2>1, <2>7, SMTT(30)
      <3>2. CASE k = n + 1
        BY <2>2, <2>3, <3>1, <3>2, SMTT(30)
      <3>3. CASE k \in 1..n
        <4>1. resp.at[j] + resp.body[j].sz <= resp.at[k]
          BY <2>7, <3>1, <3>3, SMTT(30) DEF Layout
        <4> QED
          BY <2>2, <3>1, <3>3, <4>1, SMTT(30)
      <3> QED
        BY <2>1, <3>2, <3>3, SMTT(30)
    <2> QED
      BY <2>2, <2>5, <2>6, <2>7, SMTT(30) DEF Layout
  <1> QED
    BY <1>1, <1>2, <1>3, RespStep, ZenonT(60)

(* Where a field ends, and where the next one begins.                      *)
LEMMA FieldEnd ==
  ASSUME RespTypes, Layout, NEW k \in 1..Len(resp.body)
  PROVE  /\ resp.at[k] \in Nat /\ resp.body[k].sz \in Nat /\ (k = 1 => resp.at[k] = 0)
         /\ resp.at[k] + resp.body[k].sz <= resp.len
         /\ IF k = Len(resp.body) THEN resp.len = resp.at[k] + resp.body[k].sz
                                  ELSE resp.at[k + 1] = resp.at[k] + resp.body[k].sz
  <1> DEFINE n == Len(resp.body)
  <1>1. /\ n \in 1..n /\ resp.at[k] \in Nat /\ resp.body[k].sz \in Nat /\ resp.at[n] \in Nat
        /\ resp.body[n].sz \in Nat /\ resp.len = resp.at[n] + resp.body[n].sz
    BY RespParts, SMTT(30) DEF Layout
  <1>2. (k = 1 => resp.at[k] = 0) /\ (k < n => resp.at[k + 1] = resp.at[k] + resp.body[k].sz /\ resp.at[k] + resp.body[k].sz <= resp.at[n])
    BY <1>1, Zenon DEF Layout
  <1>3. k = n \/ k < n
    BY <1>1
  <1> QED
    BY <1>1, <1>2, <1>3, SMTT(30)

(* bloomctl finds a field where it begins, when it looks for one of its    *)
(* size: no other field of that size begins there.                         *)
LEMMA FieldAt ==
  ASSUME RespTypes, Layout, NEW k \in 1..Len(resp.body), NEW o, NEW sz,
         resp.at[k] = o, resp.body[k].sz = sz, sz > 0
  PROVE  At(o, sz) = resp.body[k]
  <1> DEFINE hits == {h \in 1..Len(resp.body) : resp.at[h] = o /\ resp.body[h].sz = sz}
  <1>1. \A h \in hits : h = k
    <2> TAKE h \in hits
    <2>1. /\ h \in 1..Len(resp.body) /\ resp.at[h] = o /\ resp.body[h].sz = sz /\ o \in Nat /\ sz \in Nat
          /\ h \in Int /\ k \in Int
      BY FieldEnd
    <2>2. h < k => o + sz <= o
      BY <2>1, SMTT(30) DEF Layout
    <2>3. k < h => o + sz <= o
      BY <2>1 DEF Layout
    <2>4. ~(o + sz <= o)
      BY <2>1
    <2> QED
      BY <2>1, <2>2, <2>3, <2>4, SMTT(30)
  <1>2. k \in hits
    OBVIOUS
  <1>3. (CHOOSE h \in hits : TRUE) \in hits
    BY <1>2, Zenon
  <1>4. (CHOOSE h \in hits : TRUE) = k
    BY <1>1, <1>3, Zenon
  <1>5. At(o, sz) = IF hits = {} THEN Field(sz, "garbage") ELSE resp.body[CHOOSE h \in hits : TRUE]
    BY Zenon DEF At
  <1>6. hits # {}
    BY <1>2, Zenon
  <1> QED
    BY <1>4, <1>5, <1>6, ZenonT(60)

-----------------------------------------------------------------------------
(* The requests of bloomctl.  A batch ends where its last item ends, and   *)
(* bloomd_handle_batch is at the beginning of an item.                     *)
Composed(S) ==
  /\ ReadUpTo(S, Len(req.lens) + 1) /\ S[Len(req.lens) + 1] = ItemsLen
  /\ pc \in {"scan", "items"} => S[i] = off

FormErrors == {"BAD_REQUEST", "NAME", "TOO_LARGE"}

AskedInv ==
  req.from = "bloomctl" =>
    /\ pc # "idle" => Formed
    /\ pc = "compose" => req.op \in Batch
    /\ pc # "idle" /\ req.op \in Batch => \E S : Composed(S)
    /\ req.range => resp.status \notin FormErrors

(* The checks that a request of bloomctl may fail.                         *)
LEMMA FormedChecks ==
  ASSUME ReqTypes, Formed, req.range, pc = "dispatch", NEW k \in 1..Len(Checks)
  PROVE  Checks[k] \notin FormErrors
  <1> DEFINE R == {"pass", "NOT_FOUND", "EXISTS"}
  <1>1. /\ req.op \in Ops /\ req.op # "unknown" /\ req.name_len \in Nat /\ req.body_len \in Int
        /\ req.reserved = 0 /\ req.count \in Nat /\ req.payload_len \in Nat
    BY DEF ReqTypes, Reqs, Formed
  <1>2. \A p, s : (~p => If(p, s) = "pass") /\ (s \in R => If(p, s) \in R)
    BY ZenonT(60) DEF If
  <1>3. Reserved \in R /\ Missing \in R /\ If(Known, "EXISTS") \in R
    BY <1>1, <1>2, Zenon DEF Reserved, Missing
  <1>4. ASSUME req.op \notin Plain PROVE \A s : BadName(s) \in R
    BY <1>2, <1>4, Zenon DEF BadName, Formed
  <1>5. Hdr(req.op) \in Nat
    BY DEF Hdr
  <1>6. ASSUME req.op \notin Plain PROVE Short \in R
    <2>1. ~(req.body_len < Hdr(req.op))
      <3>1. CASE req.op \in Named \cup {"CREATE"}
        BY <1>1, <1>5, <3>1, SMTT(30) DEF Formed
      <3>2. CASE req.op \in Single
        BY <1>1, <1>5, <3>2, SMTT(30) DEF Formed
      <3>3. CASE req.op \in Batch
        BY <1>1, <1>5, <3>3, SMTT(30) DEF Formed, ItemsLen
      <3> QED
        BY <1>1, <1>6, <3>1, <3>2, <3>3, SMTT(30) DEF Ops
    <2> QED
      BY <1>2, <2>1, ZenonT(60) DEF Short
  <1>7. CASE req.op \in Plain
    <2>1. Checks = <<If(req.body_len # 0, "BAD_REQUEST")>>
      <3>1. req.op # "CREATE" /\ req.op \notin Named /\ req.op \notin Single /\ req.op \notin Batch
        BY <1>7 DEF Plain, Named, Single, Batch
      <3> QED
        BY <1>7, <3>1, ZenonT(60) DEF Checks
    <2>2. ~(req.body_len # 0)
      BY <1>7 DEF Formed
    <2>3. If(req.body_len # 0, "BAD_REQUEST") = "pass"
      BY <1>2, <2>2, ZenonT(60)
    <2> QED
      BY <2>1, <2>3 DEF FormErrors
  <1>8. CASE req.op = "CREATE"
    <2>1. /\ req.op \notin Plain /\ req.op \notin Named /\ req.op \notin Single /\ req.op \notin Batch
          /\ req.op \in Named \cup {"CREATE"}
      BY <1>8 DEF Plain, Named, Single, Batch
    <2>2. Checks = CreateChecks
      BY <1>8, <2>1, ZenonT(60) DEF Checks
    <2>3. Length(req.name_len) \in R /\ If(~req.range, "BAD_REQUEST") \in R
      BY <1>2, <2>1, ZenonT(60) DEF Formed, Length
    <2>4. CreateChecks \in Seq(R)
      BY <1>3, <1>4, <1>6, <2>1, <2>3, SMTT(30) DEF CreateChecks
    <2> QED
      BY <2>2, <2>4 DEF FormErrors
  <1>9. CASE req.op \in Named
    <2>1. /\ req.op \notin Plain /\ req.op # "CREATE" /\ req.op \notin Single /\ req.op \notin Batch
          /\ req.op \in Named \cup {"CREATE"}
      BY <1>9 DEF Plain, Named, Single, Batch
    <2>2. Checks = NameChecks
      BY <1>9, <2>1, ZenonT(60) DEF Checks
    <2>3. Length(req.name_len) \in R
      BY <1>2, <2>1, ZenonT(60) DEF Formed, Length
    <2>4. NameChecks \in Seq(R)
      BY <1>3, <1>4, <1>6, <2>1, <2>3, SMTT(30) DEF NameChecks
    <2> QED
      BY <2>2, <2>4 DEF FormErrors
  <1>10. CASE req.op \in Single
    <2>1. req.op \notin Plain /\ req.op # "CREATE" /\ req.op \notin Named /\ req.op \notin Batch
      BY <1>10 DEF Plain, Named, Single, Batch
    <2>2. Checks = PayloadChecks
      BY <1>10, <2>1, Zenon DEF Checks
    <2>3. Length(req.name_len + req.payload_len) \in R
      <3>1. req.body_len = Hdr(req.op) + (req.name_len + req.payload_len)
        BY <1>1, <1>5, <1>10, SMTT(30) DEF Formed
      <3> QED
        BY <1>2, <3>1, ZenonT(60) DEF Length
    <2>4. PayloadChecks \in Seq(R)
      BY <1>3, <1>4, <1>6, <2>1, <2>3, SMTT(30) DEF PayloadChecks
    <2> QED
      BY <2>2, <2>4 DEF FormErrors
  <1>11. CASE req.op \in Batch
    <2>1. req.op \notin Plain /\ req.op # "CREATE" /\ req.op \notin Named /\ req.op \notin Single
      BY <1>11 DEF Plain, Named, Single, Batch
    <2>2. Checks = BatchChecks
      BY <1>11, <2>1, ZenonT(60) DEF Checks
    <2>3. ~(req.count = 0) /\ ~(req.count > MaxBatch) /\ ~(req.body_len < Hdr(req.op) + req.name_len)
      <3>1. req.count \in 1..MaxBatch /\ 0 <= ItemsLen
        BY <1>11 DEF Formed
      <3>2. \A b, h, n \in Int : 0 <= b - h - n => ~(b < h + n)
        OBVIOUS
      <3>3. ~(req.count = 0) /\ ~(req.count > MaxBatch) /\ Hdr(req.op) \in Int /\ req.name_len \in Int
        BY <1>1, <1>5, <3>1, RequestAssumption, SMTT(30)
      <3> QED
        BY <1>1, <1>5, <3>1, <3>2, <3>3, ZenonT(60) DEF ItemsLen
    <2>4. /\ If(req.count = 0, "BAD_REQUEST") \in R /\ If(req.count > MaxBatch, "TOO_LARGE") \in R
          /\ If(req.body_len < Hdr(req.op) + req.name_len, "BAD_REQUEST") \in R
      BY <1>2, <2>3, Zenon
    <2>5. BatchChecks \in Seq(R)
      BY <1>3, <1>4, <1>6, <2>1, <2>4, SMTT(30) DEF BatchChecks
    <2> QED
      BY <2>2, <2>5 DEF FormErrors
  <1> QED
    BY <1>1, <1>7, <1>8, <1>9, <1>10, <1>11, SMTT(30) DEF Ops

(* Every item of a batch of bloomctl can be read.                          *)
LEMMA ComposedItem ==
  ASSUME ReqTypes, Formed, req.op \in Batch, pc \in {"scan", "items"}, NEW S, Composed(S),
         off \in Nat, i \in 1..req.count
  PROVE  Readable /\ S[i + 1] = off + 4 + req.lens[i]
  <1>1. req.count \in 1..MaxBatch /\ Len(req.lens) = req.count
    BY DEF Formed
  <1>2. req.lens[i] \in Nat /\ ItemsLen \in Int
    <2>1. Hdr(req.op) \in Int
      BY DEF Hdr
    <2>2. req.lens \in Seq(Nat) /\ i \in 1..Len(req.lens) /\ req.body_len \in Int /\ req.name_len \in Nat
      BY <1>1, ReqFields
    <2>3. req.lens[i] \in Nat
      BY <2>2
    <2>4. \A b, h, n \in Int : b - h - n \in Int
      OBVIOUS
    <2>5. ItemsLen \in Int
      BY <2>1, <2>2, <2>4, SMTT(30) DEF ItemsLen
    <2> QED
      BY <2>3, <2>5
  <1>3. i \in 1..((Len(req.lens) + 1) - 1)
    BY <1>1, RequestAssumption
  <1>4. S[i] = off /\ S[i + 1] = S[i] + 4 + req.lens[i] /\ ItemsLen - S[i] >= 4 + req.lens[i] /\ req.lens[i] <= MaxBody
    BY <1>3, Zenon DEF Composed, ReadUpTo
  <1> QED
    BY <1>2, <1>4 DEF Readable

(* The offsets still fit when one more item has been read.                 *)
LEMMA ComposedOn ==
  ASSUME NEW S, Composed(S), UNCHANGED req, pc' \in {"scan", "items"} => S[i'] = off'
  PROVE  Composed(S)'
  <1>1. ItemsLen' = ItemsLen /\ \A n : ReadUpTo(S, n) => ReadUpTo(S, n)'
    BY SameItems, Zenon
  <1> QED
    BY <1>1, ZenonT(60) DEF Composed

(* One more item.                                                          *)
LEMMA ComposedNext ==
  ASSUME ReqTypes, Formed, req.op \in Batch, pc = "compose", NEW S, Composed(S),
         NEW len \in ItemLens, Composes(len)
  PROVE  Formed' /\ \E T : Composed(T)'
  <1> DEFINE n == Len(req.lens) + 1
  <1>1. /\ ReqTypes' /\ req'.lens = Append(req.lens, len) /\ req'.body_len = req.body_len + 4 + len
        /\ req'.body_len <= MaxBody /\ pc' \in {"compose", "dispatch"}
        /\ UNCHANGED <<req.op, req.from, req.name_len, req.name, req.reserved, req.count, req.range>>
    BY ComposeTypes
  <1>2. /\ req.lens \in Seq(Nat) /\ Len(req.lens) \in Nat /\ n \in Nat \ {0} /\ len \in Nat /\ MaxBody \in Nat
        /\ req.name_len \in Nat /\ req.body_len \in Int /\ req.count \in Nat
    BY ReqFields, RequestAssumption, SMTT(30)
  <1>3. /\ Len(req'.lens) = n /\ req'.lens[n] = len
        /\ \A k \in 1..(n - 1) : req'.lens[k] = req.lens[k] /\ req.lens[k] \in Nat
    <2>1. \A q \in Seq(Nat), e \in Nat : /\ Len(Append(q, e)) = Len(q) + 1 /\ Append(q, e)[Len(q) + 1] = e
                                        /\ \A k \in 1..Len(q) : Append(q, e)[k] = q[k] /\ q[k] \in Nat
      OBVIOUS
    <2>2. n - 1 = Len(req.lens)
      BY <1>2
    <2>3. /\ Len(Append(req.lens, len)) = n /\ Append(req.lens, len)[n] = len
          /\ \A k \in 1..Len(req.lens) : Append(req.lens, len)[k] = req.lens[k] /\ req.lens[k] \in Nat
      BY <1>2, <2>1, SMTT(30)
    <2> QED
      BY <1>1, <2>2, <2>3, ZenonT(60)
  <1>4. Hdr(req.op) = 8 /\ Hdr(req'.op) = 8
    BY <1>1 DEF Hdr, Batch
  <1>5. ItemsLen \in Int /\ 0 <= ItemsLen /\ ItemsLen' = ItemsLen + 4 + len /\ len <= MaxBody
    <2>1. 0 <= ItemsLen
      BY DEF Formed
    <2>2. ItemsLen = req.body_len - 8 - req.name_len /\ ItemsLen' = (req.body_len + 4 + len) - 8 - req.name_len
      BY <1>1, <1>4, ZenonT(60) DEF ItemsLen
    <2>3. req.body_len + 4 + len <= MaxBody
      BY <1>1, ZenonT(60)
    <2>4. \A b \in Int, a, l \in Nat : /\ b - 8 - a \in Int /\ (b + 4 + l) - 8 - a = (b - 8 - a) + 4 + l
                                       /\ 0 <= b - 8 - a /\ b + 4 + l <= MaxBody => l <= MaxBody
      BY <1>2
    <2> QED
      BY <1>2, <2>1, <2>2, <2>3, <2>4, ZenonT(60)
  <1>6. Formed'
    <2>1. pc' # "compose" => Len(req'.lens) = req'.count
      BY <1>1, <1>2, <1>3, SMTT(30) DEF Composes
    <2>2. 0 <= ItemsLen'
      BY <1>2, <1>5
    <2>3. req.op \notin Plain /\ req.op \notin Named \cup {"CREATE"} /\ req.op \notin Single
      BY DEF Batch, Plain, Named, Single
    <2> QED
      BY <1>1, <2>1, <2>2, <2>3, ZenonT(60) DEF Formed
  <1>7. /\ S \in [1..n -> Int] /\ S[1] = 0 /\ S[n] = ItemsLen
        /\ \A k \in 1..(n - 1) : /\ S[k + 1] = S[k] + 4 + req.lens[k]
                                 /\ ItemsLen - S[k] >= 4 + req.lens[k] /\ req.lens[k] <= MaxBody
    BY Zenon DEF Composed, ReadUpTo
  <1>8. PICK T : T = [k \in 1..(n + 1) |-> IF k = n + 1 THEN ItemsLen + 4 + len ELSE S[k]]
    BY Zenon
  <1>9. /\ T \in [1..(n + 1) -> Int] /\ T[1] = 0 /\ T[n + 1] = ItemsLen' /\ T[n] = ItemsLen
        /\ \A k \in 1..n : T[k] = S[k]
    <2>1. \A k \in 1..n : k \in 1..(n + 1) /\ k # n + 1 /\ S[k] \in Int
      <3>1. \A m \in Nat : \A k \in 1..m : k \in 1..(m + 1) /\ k # m + 1
        OBVIOUS
      <3>2. n \in Nat
        BY <1>2
      <3> QED
        BY <1>7, <3>1, <3>2, ZenonT(60)
    <2>2. \A k \in 1..n : T[k] = S[k]
      BY <1>8, <2>1, Zenon
    <2>3. 1 \in 1..n /\ n \in 1..n /\ n + 1 \in 1..(n + 1)
      BY <1>2
    <2>4. T[n + 1] = ItemsLen + 4 + len
      BY <1>8, <2>3, ZenonT(60)
    <2>5. T \in [1..(n + 1) -> Int]
      BY <1>2, <1>5, <1>8, <2>1, SMTT(30)
    <2> QED
      BY <1>5, <1>7, <2>2, <2>3, <2>4, <2>5, ZenonT(60)
  <1>10. ASSUME NEW k \in 1..n
         PROVE  /\ T[k + 1] = T[k] + 4 + req'.lens[k]
                /\ ItemsLen' - T[k] >= 4 + req'.lens[k] /\ req'.lens[k] <= MaxBody
    <2>1. CASE k = n
      BY <1>2, <1>3, <1>5, <1>9, <2>1, SMTT(30)
    <2>2. CASE k # n
      <3>1. k \in 1..(n - 1) /\ k + 1 \in 1..n /\ k \in 1..n
        BY <1>2, <2>2, SMTT(30)
      <3>2. T[k] = S[k] /\ T[k + 1] = S[k + 1] /\ req'.lens[k] = req.lens[k] /\ S[k] \in Int /\ req.lens[k] \in Nat
        BY <1>3, <1>7, <1>9, <3>1, ZenonT(60)
      <3>3. /\ S[k + 1] = S[k] + 4 + req.lens[k]
            /\ ItemsLen - S[k] >= 4 + req.lens[k] /\ req.lens[k] <= MaxBody
        BY <1>7, <3>1, Zenon
      <3>4. \A a, b, c \in Int, l \in Nat : c - a >= b => (c + 4 + l) - a >= b
        OBVIOUS
      <3>5. ItemsLen' - S[k] >= 4 + req.lens[k]
        <4>1. 4 + req.lens[k] \in Int
          BY <3>2
        <4> QED
          BY <1>2, <1>5, <3>2, <3>3, <3>4, <4>1, ZenonT(60)
      <3> QED
        BY <3>2, <3>3, <3>5, Zenon
    <2> QED
      BY <2>1, <2>2, SMTT(30)
  <1>11. PICK m \in Nat : m = n + 1
    BY <1>2
  <1>12. ReadUpTo(T, m)'
    <2>1. m - 1 = n
      BY <1>2, <1>11
    <2> QED
      BY <1>9, <1>10, <1>11, <2>1, ZenonT(60) DEF ReadUpTo
  <1>13. Composed(T)'
    <2>1. pc' \notin {"scan", "items"}
      BY <1>1
    <2>2. Len(req'.lens) + 1 = m
      BY <1>3, <1>11, ZenonT(60)
    <2> QED
      BY <1>9, <1>11, <1>12, <2>1, <2>2, ZenonT(60) DEF Composed
  <1> QED
    BY <1>6, <1>13, ZenonT(60)

(* The handler has what it needs of the request.                           *)
LEMMA AskedKept ==
  ASSUME AskedInv, UNCHANGED req, pc \notin {"idle", "compose"}, pc' \notin {"idle", "compose", "scan", "items"},
         (req.from = "bloomctl" /\ req.range) => resp'.status \notin FormErrors
  PROVE  AskedInv'
  <1>1. ASSUME req.from = "bloomctl" PROVE Formed' /\ (req.op \in Batch => \E S : Composed(S)')
    <2>1. Formed /\ (req.op \in Batch => \E S : Composed(S)) /\ pc # "compose"
      BY <1>1, Zenon DEF AskedInv
    <2>2. Formed'
      <3>1. ItemsLen' = ItemsLen
        BY SameItems, Zenon
      <3> QED
        BY <2>1, <3>1, ZenonT(60) DEF Formed
    <2>3. pc' \notin {"scan", "items"}
      BY Zenon
    <2> QED
      BY <2>1, <2>2, <2>3, ComposedOn, ZenonT(60)
  <1> QED
    BY <1>1, ZenonT(60) DEF AskedInv

(* The same while the loops over a batch are running.                      *)
LEMMA AskedLoop ==
  ASSUME AskedInv, UNCHANGED <<req, resp>>, req.op \in Batch,
         pc \in {"dispatch", "scan", "items"}, pc' \in {"scan", "items"},
         \A S : Composed(S) /\ Formed /\ req.from = "bloomctl" => S[i'] = off'
  PROVE  AskedInv'
  <1>1. ASSUME req.from = "bloomctl" PROVE Formed' /\ \E S : Composed(S)'
    <2>1. pc # "idle" /\ pc # "compose"
      OBVIOUS
    <2>2. Formed /\ \E S : Composed(S)
      BY <1>1, <2>1, Zenon DEF AskedInv
    <2>3. Formed'
      <3>1. ItemsLen' = ItemsLen
        BY SameItems, Zenon
      <3> QED
        BY <2>1, <2>2, <3>1, ZenonT(60) DEF Formed
    <2>4. PICK S : Composed(S)
      BY <2>2, Zenon
    <2>5. S[i'] = off'
      BY <1>1, <2>2, <2>4, ZenonT(60)
    <2>6. Composed(S)'
      BY <2>4, <2>5, ComposedOn, ZenonT(60)
    <2> QED
      BY <2>3, <2>6, ZenonT(60)
  <1> QED
    BY <1>1, ZenonT(60) DEF AskedInv

(* The handler ends with an error that is not about the form.              *)
LEMMA AskedError ==
  ASSUME AskedInv, NEW s, s \notin FormErrors, Error(s), UNCHANGED req, pc \notin {"idle", "compose"},
         pc' \in {"append", "fallback"}
  PROVE  AskedInv'
  <1>1. resp'.status \notin FormErrors
    BY DEF Error, Empty
  <1>2. pc' \notin {"idle", "compose", "scan", "items"}
    OBVIOUS
  <1> QED
    BY <1>1, <1>2, AskedKept, SMTT(30)

LEMMA AskedAsk == ASSUME AnswerInv, Ask PROVE AskedInv'
  <1>1. /\ Formed' /\ req'.from = "bloomctl" /\ pc' = IF req'.op \in Batch THEN "compose" ELSE "dispatch"
        /\ req'.op \in Batch => req'.lens = <<>> /\ ItemsLen' = 0
    BY AskTypes
  <1>2. resp'.status = "OK"
    <2>1. pc = "idle" /\ UNCHANGED resp
      BY Zenon DEF Ask
    <2> QED
      BY <2>1 DEF AnswerInv, Early
  <1>3. ASSUME req'.op \in Batch PROVE \E S : Composed(S)'
    <2> DEFINE S == [k \in 1..1 |-> 0]
    <2>1. req'.lens = <<>> /\ ItemsLen' = 0 /\ pc' = "compose"
      BY <1>1, <1>3, SMTT(30)
    <2>2. Len(req'.lens) + 1 = 1 /\ pc' \notin {"scan", "items"}
      BY <2>1
    <2>3. PICK m : m = 1
      OBVIOUS
    <2>4. ReadUpTo(S, m)' /\ S[1] = 0
      BY <2>3 DEF ReadUpTo
    <2>5. Composed(S)'
      BY <2>1, <2>2, <2>3, <2>4, ZenonT(60) DEF Composed
    <2> QED
      BY <2>5, ZenonT(60)
  <1> QED
    BY <1>1, <1>2, <1>3, SMTT(30) DEF AskedInv, FormErrors

LEMMA AskedCompose == ASSUME AnswerInv, AskedInv, ComposeItem PROVE AskedInv'
  <1>1. pc = "compose" /\ resp'.status = "OK" /\ ReqTypes
    BY DEF ComposeItem, AnswerInv, Early
  <1>2. "OK" \notin FormErrors
    BY SMTT(30) DEF FormErrors
  <1>3. ASSUME NEW len \in ItemLens, Composes(len) PROVE AskedInv'
    <2>1. /\ pc' \in {"compose", "dispatch"}
          /\ UNCHANGED <<req.op, req.from, req.name_len, req.name, req.reserved, req.count, req.range>>
      BY <1>1, <1>3, ComposeTypes
    <2>2. ASSUME req.from = "bloomctl" PROVE Formed' /\ req.op \in Batch /\ \E T : Composed(T)'
      <3>1. Formed /\ req.op \in Batch /\ \E S : Composed(S)
        BY <1>1, <2>2 DEF AskedInv
      <3> QED
        BY <1>1, <1>3, <2>2, <3>1, ComposedNext, ZenonT(60)
    <2> QED
      BY <1>1, <1>2, <2>1, <2>2, SMTT(30) DEF AskedInv
  <1>4. ASSUME req' = None, pc' = "idle" PROVE AskedInv'
    BY <1>1, <1>2, <1>4, ZenonT(60) DEF AskedInv
  <1> QED
    BY <1>3, <1>4, ComposeStep, ZenonT(60)

(* Where the loops over the items of a batch are.                          *)
LEMMA LoopFacts ==
  ASSUME BatchInv, pc \in {"scan", "items"}
  PROVE  req.op \in Batch /\ req.count \in Nat /\ i \in 1..(req.count + 1) /\ off \in Nat
  BY RequestAssumption DEF BatchInv

(* An item of a batch.                                                     *)
LEMMA AskedItem ==
  ASSUME AnswerInv, BatchInv, AskedInv, ScanItem \/ Item
  PROVE  AskedInv'
  <1>1. pc \in {"scan", "items"} /\ i <= req.count /\ UNCHANGED req /\ ReqTypes
    <2>1. ScanItem => pc = "scan" /\ i <= req.count /\ UNCHANGED req
      BY Zenon DEF ScanItem, Malformed
    <2>2. Item => pc = "items" /\ i <= req.count /\ UNCHANGED req
      BY Zenon DEF Item, Malformed
    <2> QED
      BY <2>1, <2>2 DEF AnswerInv
  <1>2. req.op \in Batch /\ req.count \in Nat /\ i \in 1..(req.count + 1) /\ off \in Nat /\ i \in 1..req.count
    BY <1>1, LoopFacts
  <1>3. pc \notin {"idle", "compose"}
    BY <1>1, SMTT(30)
  <1>4. \A S : Composed(S) /\ Formed => Readable /\ S[i + 1] = off + 4 + req.lens[i]
    BY <1>1, <1>2, ComposedItem, SMTT(30)
  <1>5. CASE ~Readable /\ Malformed
    <2>1. ~(req.from = "bloomctl")
      BY <1>2, <1>3, <1>4, <1>5, ZenonT(60) DEF AskedInv
    <2>2. pc' \notin {"idle", "compose", "scan", "items"}
      BY <1>5 DEF Malformed
    <2> QED
      BY <1>1, <1>3, <2>1, <2>2, AskedKept, SMTT(30)
  <1>6. CASE Readable /\ NextItem /\ UNCHANGED <<filters, req, pc, touched, resp, todo, rc, shown>>
    <2>1. UNCHANGED <<req, resp>> /\ pc \in {"dispatch", "scan", "items"} /\ pc' \in {"scan", "items"}
      BY <1>1, <1>6
    <2>2. \A S : Composed(S) /\ Formed => S[i'] = off'
      BY <1>4, <1>6, ZenonT(60) DEF NextItem
    <2> QED
      BY <1>2, <2>1, <2>2, AskedLoop, SMTT(30)
  <1>7. CASE (\E s \in Failures : Error(s)) /\ pc' = "append"
    <2>1. PICK s \in Failures : Error(s)
      BY <1>7, ZenonT(60)
    <2>2. s \notin FormErrors /\ pc' \in {"append", "fallback"}
      BY <1>7, FailureTypes DEF Failed, FormErrors
    <2> QED
      BY <1>1, <1>3, <2>1, <2>2, AskedError, SMTT(30)
  <1> QED
    BY <1>5, <1>6, <1>7, ZenonT(60) DEF ScanItem, Item

(* The end of a loop.                                                      *)
LEMMA AskedLoopEnd ==
  ASSUME AnswerInv, BatchInv, AskedInv, ScanEnd \/ ItemsEnd
  PROVE  AskedInv'
  <1>1. pc \in {"scan", "items"} /\ i > req.count /\ UNCHANGED req /\ ReqTypes
    <2>1. ScanEnd => pc = "scan" /\ i > req.count /\ UNCHANGED req
      BY Zenon DEF ScanEnd, Malformed
    <2>2. ItemsEnd => pc = "items" /\ i > req.count /\ UNCHANGED req
      BY Zenon DEF ItemsEnd, Malformed
    <2> QED
      BY <2>1, <2>2 DEF AnswerInv
  <1>2. req.op \in Batch /\ i = req.count + 1 /\ pc \notin {"idle", "compose"} /\ pc # "compose" /\ pc # "idle"
    BY <1>1, LoopFacts
  <1>3. \A S : Composed(S) /\ Formed => off = ItemsLen
    BY <1>1, <1>2, ZenonT(60) DEF Composed, Formed
  <1>4. CASE off # ItemsLen /\ Malformed
    <2>1. ~(req.from = "bloomctl")
      BY <1>2, <1>3, <1>4, ZenonT(60) DEF AskedInv
    <2>2. pc' \notin {"idle", "compose", "scan", "items"}
      BY <1>4 DEF Malformed
    <2> QED
      BY <1>1, <1>2, <2>1, <2>2, AskedKept, SMTT(30)
  <1>5. CASE i' = 1 /\ off' = 0 /\ pc' = "items" /\ UNCHANGED <<resp, todo, rc>>
    <2>1. UNCHANGED <<req, resp>> /\ pc \in {"dispatch", "scan", "items"} /\ pc' \in {"scan", "items"}
      BY <1>1, <1>5
    <2>2. \A S : Composed(S) => S[i'] = off'
      BY <1>5, ZenonT(60) DEF Composed, ReadUpTo
    <2> QED
      BY <1>2, <2>1, <2>2, AskedLoop, SMTT(30)
  <1>6. CASE pc' = "append" /\ Error("IO")
    <2>1. "IO" \notin FormErrors /\ pc' \in {"append", "fallback"}
      BY <1>6 DEF FormErrors
    <2> QED
      BY <1>1, <1>2, <1>6, <2>1, AskedError, SMTT(30)
  <1>7. CASE pc' = "append" /\ UNCHANGED resp
    <2>1. (req.from = "bloomctl" /\ req.range) => resp'.status \notin FormErrors
      BY <1>7, Zenon DEF AskedInv
    <2>2. pc' \notin {"idle", "compose", "scan", "items"}
      BY <1>7
    <2> QED
      BY <1>1, <1>2, <2>1, <2>2, AskedKept, SMTT(30)
  <1> QED
    BY <1>4, <1>5, <1>6, <1>7, ZenonT(60) DEF ScanEnd, ItemsEnd

LEMMA AskedStep == ASSUME AnswerInv, BatchInv, AskedInv, [ReqNext]_reqVars PROVE AskedInv'
  <1>1. ReqTypes /\ RespTypes
    BY DEF AnswerInv
  <1>2. (req.from = "bloomctl" /\ req.range) => resp.status \notin FormErrors
    BY Zenon DEF AskedInv
  <1>3. CASE Ask
    BY <1>3, AskedAsk
  <1>4. CASE ComposeItem
    BY <1>4, AskedCompose
  <1>5. CASE AskOther
    <2>1. req'.from # "bloomctl"
      BY <1>5, OtherTypes, SMTT(30)
    <2> QED
      BY <2>1, ZenonT(60) DEF AskedInv
  <1>6. CASE Reject
    <2>1. PICK k \in 1..Len(Checks) : Error(Checks[k])
      BY <1>6, ZenonT(60) DEF Reject
    <2>2. /\ pc = "dispatch" /\ UNCHANGED req /\ pc \notin {"idle", "compose"}
          /\ pc' \notin {"idle", "compose", "scan", "items"}
      BY <1>6 DEF Reject
    <2>3. (req.from = "bloomctl" /\ req.range) => Checks[k] \notin FormErrors
      <3>1. req.from = "bloomctl" => Formed
        BY <2>2, ZenonT(60) DEF AskedInv
      <3> QED
        BY <1>1, <2>1, <2>2, <3>1, FormedChecks, SMTT(30)
    <2>4. resp'.status = Checks[k]
      BY <2>1 DEF Error, Empty
    <2> QED
      BY <2>2, <2>3, <2>4, AskedKept, SMTT(30)
  <1>7. CASE Handle
    <2>1. /\ pc \notin {"idle", "compose"} /\ pc' \in {"append", "fallback"} /\ UNCHANGED req
          /\ pc' \notin {"idle", "compose", "scan", "items"}
      BY <1>7 DEF Handle
    <2>2. CASE UNCHANGED resp
      BY <1>2, <2>1, <2>2, AskedKept, SMTT(30)
    <2>3. ASSUME NEW s \in Failures, Error(s) PROVE AskedInv'
      <3>1. s \notin FormErrors
        BY <2>3, FailureTypes, SMTT(30) DEF Failed, FormErrors
      <3> QED
        BY <2>1, <2>3, <3>1, AskedError, SMTT(30)
    <2> QED
      BY <1>7, <2>2, <2>3, ZenonT(60) DEF Handle
  <1>8. CASE BatchBegin
    <2>1. /\ UNCHANGED <<req, resp>> /\ pc = "dispatch" /\ req.op \in Batch /\ i' = i /\ off' = off
          /\ pc \in {"dispatch", "scan", "items"} /\ pc' = FirstLoop
      BY <1>8, ZenonT(60) DEF BatchBegin
    <2>2. i' = 1 /\ off' = 0
      BY <2>1 DEF BatchInv
    <2>3. pc' \in {"scan", "items"}
      BY <2>1 DEF FirstLoop
    <2>4. \A S : Composed(S) => S[i'] = off'
      BY <2>2, ZenonT(60) DEF Composed, ReadUpTo
    <2> QED
      BY <2>1, <2>3, <2>4, AskedLoop, SMTT(30)
  <1>9. CASE ScanItem \/ Item
    BY <1>9, AskedItem
  <1>10. CASE ScanEnd \/ ItemsEnd
    BY <1>10, AskedLoopEnd, SMTT(30)
  <1>11. CASE AppendField
    <2>1. /\ pc \notin {"idle", "compose"} /\ UNCHANGED req /\ pc \in {"append", "fallback"} /\ pc' = pc
          /\ pc' \notin {"idle", "compose", "scan", "items"}
      BY <1>11 DEF AppendField
    <2>2. resp'.status = resp.status
      <3>1. CASE UNCHANGED resp
        BY <3>1
      <3>2. CASE resp' = [resp EXCEPT !.body = Append(@, Head(todo)), !.at = Append(@, resp.len),
                                      !.len = @ + Head(todo).sz]
        BY <1>1, <3>2 DEF RespTypes, Resps
      <3> QED
        BY <1>11, <3>1, <3>2, ZenonT(60) DEF AppendField
    <2> QED
      BY <1>2, <2>1, <2>2, AskedKept, SMTT(30)
  <1>12. CASE Answered
    <2>1. pc \notin {"idle", "compose"} /\ UNCHANGED req
      BY <1>12 DEF Answered
    <2>2. CASE Error("INTERNAL") /\ pc' = "fallback"
      <3>1. "INTERNAL" \notin FormErrors /\ pc' \in {"append", "fallback"}
        BY <2>2 DEF FormErrors
      <3> QED
        BY <2>1, <2>2, <3>1, AskedError, SMTT(30)
    <2>3. CASE pc' = (IF pc = "fallback" /\ rc > 0 THEN "closed" ELSE "reply") /\ UNCHANGED <<resp, todo, rc>>
      <3>1. pc' \notin {"idle", "compose", "scan", "items"}
        BY <2>3
      <3> QED
        BY <1>2, <2>1, <2>3, <3>1, AskedKept, SMTT(30)
    <2> QED
      BY <1>12, <2>2, <2>3, ZenonT(60) DEF Answered
  <1>13. CASE Show \/ ShowEntry \/ ShowEnd
    <2>1. pc = "reply" /\ pc' \in {"done", "reply"} /\ UNCHANGED <<req, resp>>
      <3>1. CASE Show
        BY <3>1 DEF Show
      <3>2. CASE ShowEntry
        BY <3>2, ZenonT(60) DEF ShowEntry
      <3>3. CASE ShowEnd
        BY <3>3 DEF ShowEnd
      <3> QED
        BY <1>13, <3>1, <3>2, <3>3, SMTT(30)
    <2>2. pc \notin {"idle", "compose"} /\ pc' \notin {"idle", "compose", "scan", "items"}
      BY <2>1
    <2> QED
      BY <1>2, <2>1, <2>2, AskedKept, SMTT(30)
  <1>14. CASE Again
    <2>1. pc' = "idle" /\ resp'.status = "OK"
      BY <1>14 DEF Again, Empty
    <2>2. "OK" \notin FormErrors /\ pc' # "compose"
      BY <2>1 DEF FormErrors
    <2> QED
      BY <2>1, <2>2, ZenonT(60) DEF AskedInv
  <1>15. CASE UNCHANGED reqVars
    <2>1. UNCHANGED <<req, pc, i, off, resp>>
      BY <1>15 DEF reqVars
    <2>2. \A S : Composed(S) => Composed(S)'
      <3> SUFFICES ASSUME NEW S, Composed(S) PROVE Composed(S)'
        OBVIOUS
      <3>1. pc' \in {"scan", "items"} => S[i'] = off'
        BY <2>1, Zenon DEF Composed
      <3> QED
        BY <2>1, <3>1, ComposedOn
    <2>3. Formed => Formed'
      <3>1. ItemsLen' = ItemsLen
        BY <2>1, SameItems, Zenon
      <3> QED
        BY <2>1, <3>1, ZenonT(60) DEF Formed
    <2> QED
      BY <2>1, <2>2, <2>3, ZenonT(60) DEF AskedInv
  <1> QED
    BY <1>3, <1>4, <1>5, <1>6, <1>7, <1>8, <1>9, <1>10, <1>11, <1>12, <1>13, <1>14, <1>15,
       ZenonT(60)
       DEF ReqNext

(* A request of bloomctl has the form that bloomd_dispatch and the         *)
(* handlers check, its batches end with an item, and none of them is       *)
(* refused for its form.                                                   *)
THEOREM AskedInvariant == ReqSpec => []AskedInv
  <1>1. ReqInit => AskedInv
    BY DEF ReqInit, Empty, AskedInv, FormErrors
  <1>2. AnswerInv /\ BatchInv /\ AskedInv /\ [ReqNext]_reqVars => AskedInv'
    BY AskedStep
  <1> QED
    BY <1>1, <1>2, AnswerInvariant, BatchInvariant, PTL DEF ReqSpec

-----------------------------------------------------------------------------
(* What bloomctl prints.                                                   *)
Labelled(v) == \A k \in DOMAIN v : v[k][2].is = v[k][1]

LEMMA BoolShown ==
  ASSUME RespTypes, Layout, resp.body = Bool
  PROVE  resp.len = 1 /\ At(0, 1).is = "present"
  <1>1. Len(resp.body) = 1 /\ resp.body[1] = Field(1, "present")
    BY SMTT(30) DEF Bool
  <1>2. resp.body[1].sz = 1 /\ resp.body[1].is = "present"
    BY <1>1, SMTT(30) DEF Field
  <1>3. 1 \in 1..Len(resp.body) /\ resp.at[1] = 0 /\ resp.len = 1
    BY <1>1, <1>2, FieldEnd, SMTT(30)
  <1> QED
    BY <1>2, <1>3, FieldAt, SMTT(30)

LEMMA PongShown ==
  ASSUME RespTypes, Layout, resp.body = <<Field(4, "PONG")>>
  PROVE  At(0, resp.len).is = "PONG"
  <1>1. Len(resp.body) = 1 /\ resp.body[1] = Field(4, "PONG")
    OBVIOUS
  <1>2. resp.body[1].sz = 4 /\ resp.body[1].is = "PONG"
    BY <1>1, SMTT(30) DEF Field
  <1>3. 1 \in 1..Len(resp.body) /\ resp.at[1] = 0 /\ resp.len = 4
    BY <1>1, <1>2, FieldEnd, SMTT(30)
  <1> QED
    BY <1>2, <1>3, FieldAt, SMTT(30)

LEMMA ResultsShown ==
  ASSUME RespTypes, Layout, resp.body = CountBytes, req.count \in Nat \ {0}
  PROVE  /\ resp.len = 2 + req.count /\ At(0, 2).n = req.count
         /\ At(2, req.count).is = "results" /\ At(2, req.count).sz = req.count
  <1>1. Len(resp.body) = 2 /\ resp.body[1] = Num(2, "count", req.count) /\ resp.body[2] = Field(req.count, "results")
    BY SMTT(30) DEF CountBytes
  <1>2. resp.body[1].sz = 2 /\ resp.body[1].n = req.count /\ resp.body[2].sz = req.count /\ resp.body[2].is = "results"
    BY <1>1, SMTT(30) DEF Field, Num
  <1>3. 1 \in 1..Len(resp.body) /\ resp.at[1] = 0 /\ resp.at[2] = 2
    BY <1>1, <1>2, FieldEnd, SMTT(30)
  <1>4. 2 \in 1..Len(resp.body) /\ resp.len = 2 + req.count
    BY <1>1, <1>2, <1>3, FieldEnd, SMTT(30)
  <1>5. At(0, 2) = resp.body[1]
    BY <1>2, <1>3, FieldAt, SMTT(30)
  <1>6. At(2, req.count) = resp.body[2]
    BY <1>2, <1>3, <1>4, FieldAt, SMTT(30)
  <1> QED
    BY <1>2, <1>4, <1>5, <1>6, SMTT(30)

(* Where bloomctl looks in the answer to STATS.                            *)
LEMMA StatsAt ==
  ASSUME RespTypes, Layout, resp.body = StatsBody
  PROVE  /\ resp.len = 100
         /\ At(0, 8).is = "requests" /\ At(8, 8).is = "responses" /\ At(16, 8).is = "errors"
         /\ At(24, 8).is = "accepted_connections" /\ At(32, 8).is = "filters_loaded"
         /\ At(40, 8).is = "filters_created" /\ At(48, 8).is = "filters_dropped"
         /\ At(56, 8).is = "orphan_meta" /\ At(64, 8).is = "orphan_pin" /\ At(72, 4).is = "filter_count"
         /\ At(76, 4).is = "metadata_only" /\ At(80, 4).is = "durable"
         /\ At(84, 8).is = "empty_pool_hits" /\ At(92, 8).is = "empty_pool_misses"
  <1>1. Len(resp.body) = 14
    BY SMTT(30) DEF StatsBody
  <1>2. /\ \A k \in 1..9 : resp.body[k].sz = 8
        /\ \A k \in 10..12 : resp.body[k].sz = 4
        /\ resp.body[13].sz = 8 /\ resp.body[14].sz = 8
    BY SMTT(30) DEF StatsBody, Field
  <1>3. \A k \in 1..13 : resp.at[k + 1] = resp.at[k] + resp.body[k].sz
    BY <1>1, FieldEnd, SMTT(30)
  <1>4. resp.at[1] = 0 /\ resp.len = resp.at[14] + resp.body[14].sz
    BY <1>1, FieldEnd, SMTT(30)
  <1>5. /\ resp.at[2] = 8 /\ resp.at[3] = 16 /\ resp.at[4] = 24 /\ resp.at[5] = 32 /\ resp.at[6] = 40
        /\ resp.at[7] = 48 /\ resp.at[8] = 56 /\ resp.at[9] = 64 /\ resp.at[10] = 72
    BY <1>2, <1>3, <1>4, SMTT(30)
  <1>6. resp.at[11] = 76 /\ resp.at[12] = 80 /\ resp.at[13] = 84 /\ resp.at[14] = 92 /\ resp.len = 100
    BY <1>2, <1>3, <1>4, <1>5, SMTT(30)
  <1>7. \A k \in 1..14 : At(resp.at[k], resp.body[k].sz) = resp.body[k]
    BY <1>1, <1>2, FieldAt, SMTT(30)
  <1>8. /\ At(0, 8) = resp.body[1] /\ At(8, 8) = resp.body[2] /\ At(16, 8) = resp.body[3]
        /\ At(24, 8) = resp.body[4] /\ At(32, 8) = resp.body[5] /\ At(40, 8) = resp.body[6]
        /\ At(48, 8) = resp.body[7] /\ At(56, 8) = resp.body[8] /\ At(64, 8) = resp.body[9]
    BY <1>2, <1>4, <1>5, <1>7, SMTT(30)
  <1>9. /\ At(72, 4) = resp.body[10] /\ At(76, 4) = resp.body[11] /\ At(80, 4) = resp.body[12]
        /\ At(84, 8) = resp.body[13] /\ At(92, 8) = resp.body[14]
    BY <1>2, <1>5, <1>6, <1>7, SMTT(30)
  <1>10. /\ resp.body[1].is = "requests" /\ resp.body[2].is = "responses" /\ resp.body[3].is = "errors"
         /\ resp.body[4].is = "accepted_connections" /\ resp.body[5].is = "filters_loaded"
         /\ resp.body[6].is = "filters_created" /\ resp.body[7].is = "filters_dropped"
         /\ resp.body[8].is = "orphan_meta" /\ resp.body[9].is = "orphan_pin"
         /\ resp.body[10].is = "filter_count" /\ resp.body[11].is = "metadata_only"
         /\ resp.body[12].is = "durable" /\ resp.body[13].is = "empty_pool_hits"
         /\ resp.body[14].is = "empty_pool_misses"
    BY SMTT(30) DEF StatsBody, Field
  <1> QED
    BY <1>6, <1>8, <1>9, <1>10, SMTT(30)

(* Where bloomctl looks in the answer to INFO: the fixed part has 72       *)
(* bytes, and the four strings follow it.                                  *)
LEMMA InfoAt ==
  ASSUME RespTypes, Layout, resp.body = InfoBody, NEW n \in Nat, n = req.name_len, n > 0
  PROVE  /\ resp.len = 78 + n
         /\ At(0, 2).n = n /\ At(2, 2).n = 3 /\ At(4, 2).n = 2 /\ At(64, 4).n = 1
         /\ At(8, 8).is = "capacity" /\ At(16, 8).is = "error_rate" /\ At(24, 4).is = "hashes"
         /\ At(28, 4).is = "value_size" /\ At(32, 8).is = "add_calls" /\ At(40, 8).is = "check_calls"
         /\ At(48, 8).is = "batch_add_calls" /\ At(56, 8).is = "batch_check_calls"
         /\ At(68, 4).is = "state_flags" /\ At(72, n).is = "name" /\ At(72 + n, 3).is = "backend"
         /\ At((72 + n) + 3, 2).is = "digest" /\ At(((72 + n) + 3) + 2, 1).is = "pin_path"
  <1>1. Len(resp.body) = 18
    BY SMTT(30) DEF InfoBody
  <1>2. /\ \A k \in 1..4 : resp.body[k].sz = 2
        /\ resp.body[5].sz = 8 /\ resp.body[6].sz = 8 /\ resp.body[7].sz = 4 /\ resp.body[8].sz = 4
        /\ \A k \in 9..12 : resp.body[k].sz = 8
        /\ resp.body[13].sz = 4 /\ resp.body[14].sz = 4
        /\ resp.body[15].sz = n /\ resp.body[16].sz = 3 /\ resp.body[17].sz = 2 /\ resp.body[18].sz = 1
    BY SMTT(30) DEF InfoBody, Field, Num
  <1>3. \A k \in 1..17 : resp.at[k + 1] = resp.at[k] + resp.body[k].sz
    BY <1>1, FieldEnd, SMTT(30)
  <1>4. resp.at[1] = 0 /\ resp.len = resp.at[18] + resp.body[18].sz
    BY <1>1, FieldEnd, SMTT(30)
  <1>5. /\ resp.at[2] = 2 /\ resp.at[3] = 4 /\ resp.at[4] = 6 /\ resp.at[5] = 8 /\ resp.at[6] = 16
        /\ resp.at[7] = 24 /\ resp.at[8] = 28 /\ resp.at[9] = 32
    BY <1>2, <1>3, <1>4, SMTT(30)
  <1>6. /\ resp.at[10] = 40 /\ resp.at[11] = 48 /\ resp.at[12] = 56 /\ resp.at[13] = 64
        /\ resp.at[14] = 68 /\ resp.at[15] = 72
    BY <1>2, <1>3, <1>5, SMTT(30)
  <1>7. /\ resp.at[16] = 72 + n /\ resp.at[17] = (72 + n) + 3 /\ resp.at[18] = ((72 + n) + 3) + 2
        /\ resp.len = 78 + n
    BY <1>2, <1>3, <1>4, <1>6, SMTT(30)
  <1>8. \A k \in 1..18 : At(resp.at[k], resp.body[k].sz) = resp.body[k]
    BY <1>1, <1>2, FieldAt, SMTT(30)
  <1>9. /\ At(0, 2) = resp.body[1] /\ At(2, 2) = resp.body[2] /\ At(4, 2) = resp.body[3]
        /\ At(8, 8) = resp.body[5] /\ At(16, 8) = resp.body[6] /\ At(24, 4) = resp.body[7]
        /\ At(28, 4) = resp.body[8] /\ At(32, 8) = resp.body[9]
    BY <1>2, <1>4, <1>5, <1>8, SMTT(30)
  <1>10. /\ At(40, 8) = resp.body[10] /\ At(48, 8) = resp.body[11] /\ At(56, 8) = resp.body[12]
         /\ At(64, 4) = resp.body[13] /\ At(68, 4) = resp.body[14] /\ At(72, n) = resp.body[15]
    BY <1>2, <1>6, <1>8, SMTT(30)
  <1>11. /\ At(72 + n, 3) = resp.body[16] /\ At((72 + n) + 3, 2) = resp.body[17]
         /\ At(((72 + n) + 3) + 2, 1) = resp.body[18]
    BY <1>2, <1>7, <1>8, SMTT(30)
  <1>12. /\ resp.body[1].n = n /\ resp.body[2].n = 3 /\ resp.body[3].n = 2 /\ resp.body[13].n = 1
         /\ resp.body[5].is = "capacity" /\ resp.body[6].is = "error_rate" /\ resp.body[7].is = "hashes"
         /\ resp.body[8].is = "value_size" /\ resp.body[9].is = "add_calls"
         /\ resp.body[10].is = "check_calls" /\ resp.body[11].is = "batch_add_calls"
         /\ resp.body[12].is = "batch_check_calls" /\ resp.body[14].is = "state_flags"
         /\ resp.body[15].is = "name" /\ resp.body[16].is = "backend" /\ resp.body[17].is = "digest"
         /\ resp.body[18].is = "pin_path"
    BY DEF InfoBody, Field, Num
  <1> QED
    BY <1>7, <1>9, <1>10, <1>11, <1>12, SMTT(30)

LEMMA StatsLabelled ==
  ASSUME RespTypes, Layout, resp.body = StatsBody
  PROVE  StatsShown.result = "values" /\ Labelled(StatsShown.values)
  <1>1. /\ resp.len = 100
        /\ At(0, 8).is = "requests" /\ At(8, 8).is = "responses" /\ At(16, 8).is = "errors"
        /\ At(24, 8).is = "accepted_connections" /\ At(32, 8).is = "filters_loaded"
        /\ At(40, 8).is = "filters_created" /\ At(48, 8).is = "filters_dropped"
        /\ At(56, 8).is = "orphan_meta" /\ At(64, 8).is = "orphan_pin" /\ At(72, 4).is = "filter_count"
        /\ At(76, 4).is = "metadata_only" /\ At(80, 4).is = "durable"
        /\ At(84, 8).is = "empty_pool_hits" /\ At(92, 8).is = "empty_pool_misses"
    BY StatsAt
  <1>2. PICK v :
          v = <<Row("requests", 0, 8), Row("responses", 8, 8), Row("errors", 16, 8),
                Row("accepted_connections", 24, 8), Row("filters_loaded", 32, 8),
                Row("filters_created", 40, 8), Row("filters_dropped", 48, 8),
                Row("orphan_meta", 56, 8), Row("orphan_pin", 64, 8), Row("filter_count", 72, 4),
                Row("metadata_only", 76, 4), Row("durable", 80, 4),
                Row("empty_pool_hits", 84, 8), Row("empty_pool_misses", 92, 8)>>
    BY ZenonT(60)
  <1>3. StatsShown = Printed(v)
    BY <1>1, <1>2, SMTT(30) DEF StatsShown
  <1>4. Labelled(v)
    <2>1. DOMAIN v = 1..14
      BY <1>2, SMTT(30)
    <2>2. \A k \in 1..14 : v[k][2].is = v[k][1]
      BY <1>1, <1>2, SMTT(30) DEF Row
    <2> QED
      BY <2>1, <2>2, ZenonT(60) DEF Labelled
  <1> QED
    BY <1>3, <1>4, SMTT(30) DEF Printed

LEMMA InfoLabelled ==
  ASSUME RespTypes, Layout, resp.body = InfoBody, req.name_len \in Nat \ {0}
  PROVE  InfoShown.result = "values" /\ Labelled(InfoShown.values)
  <1>1. PICK n \in Nat : n = req.name_len /\ n > 0
    BY SMTT(30)
  <1>2. /\ resp.len = 78 + n
        /\ At(0, 2).n = n /\ At(2, 2).n = 3 /\ At(4, 2).n = 2 /\ At(64, 4).n = 1
        /\ At(8, 8).is = "capacity" /\ At(16, 8).is = "error_rate" /\ At(24, 4).is = "hashes"
        /\ At(28, 4).is = "value_size" /\ At(32, 8).is = "add_calls" /\ At(40, 8).is = "check_calls"
        /\ At(48, 8).is = "batch_add_calls" /\ At(56, 8).is = "batch_check_calls"
        /\ At(68, 4).is = "state_flags" /\ At(72, n).is = "name" /\ At(72 + n, 3).is = "backend"
        /\ At((72 + n) + 3, 2).is = "digest" /\ At(((72 + n) + 3) + 2, 1).is = "pin_path"
    BY <1>1, InfoAt, SMTT(30)
  <1>3. PICK v :
          v = <<Row("capacity", 8, 8), Row("error_rate", 16, 8), Row("hashes", 24, 4),
                Row("value_size", 28, 4), Row("add_calls", 32, 8), Row("check_calls", 40, 8),
                Row("batch_add_calls", 48, 8), Row("batch_check_calls", 56, 8),
                Row("state_flags", 68, 4), Row("name", 72, n), Row("backend", 72 + n, 3),
                Row("digest", 72 + n + 3, 2), Row("pin_path", 72 + n + 3 + 2, 1)>>
    BY ZenonT(60)
  <1>4. InfoShown = Printed(v)
    <2>1. ~(resp.len < 72) /\ 72 + n + 3 + 2 + 1 = resp.len
      BY <1>2
    <2> QED
      BY <1>2, <1>3, <2>1, SMTT(30) DEF InfoShown
  <1>5. Labelled(v)
    <2>1. DOMAIN v = 1..13
      BY <1>3, SMTT(30)
    <2>2. \A k \in 1..13 : v[k][2].is = v[k][1]
      BY <1>2, <1>3, SMTT(30) DEF Row
    <2> QED
      BY <2>1, <2>2, ZenonT(60) DEF Labelled
  <1> QED
    BY <1>4, <1>5, SMTT(30) DEF Printed

(* The answer to a LIST: the number of filters, and for each the length of *)
(* its name and the name.                                                  *)
LEMMA ListParts ==
  ASSUME RespTypes, resp.body = ListBody
  PROVE  /\ Len(resp.body) = 2 * Len(filters) + 1 /\ resp.body[1] = Num(4, "count", Len(filters))
         /\ \A k \in 1..Len(filters) :
              /\ resp.body[2 * k] = Num(2, "len", NameLen[filters[k]])
              /\ resp.body[2 * k + 1] = Field(NameLen[filters[k]], filters[k])
  <1> DEFINE L == Len(filters)
  <1>1. L \in Nat /\ 2 * L \in Nat
    BY DEF RespTypes
  <1>2. PICK F : F = [k \in 1..(2 * L) |->
                        LET n == filters[(k + 1) \div 2]
                        IN  IF k % 2 = 1 THEN Num(2, "len", NameLen[n]) ELSE Field(NameLen[n], n)]
    BY Zenon
  <1>3. resp.body = <<Num(4, "count", L)>> \o F
    BY <1>2, ZenonT(60) DEF ListBody
  <1>4. PICK V : F \in Seq(V) /\ Num(4, "count", L) \in V
    <2> DEFINE V == {F[k] : k \in 1..(2 * L)} \cup {Num(4, "count", L)}
    <2>1. F \in [1..(2 * L) -> V]
      BY <1>2, ZenonT(60)
    <2>2. F \in Seq(V)
      BY <1>1, <2>1, SMTT(30)
    <2> QED
      BY <2>2, ZenonT(60)
  <1>5. Len(F) = 2 * L /\ DOMAIN F = 1..(2 * L)
    BY <1>1, <1>2, <1>4, SMTT(30)
  <1>6. /\ Len(resp.body) = 2 * L + 1 /\ resp.body[1] = Num(4, "count", L)
        /\ \A k \in 1..(2 * L) : resp.body[k + 1] = F[k]
    <2>1. PICK e \in V : e = Num(4, "count", L)
      BY <1>4, ZenonT(60)
    <2>2. \A q \in Seq(V) : /\ Len(<<e>> \o q) = 1 + Len(q) /\ (<<e>> \o q)[1] = e
                           /\ \A k \in 1..Len(q) : (<<e>> \o q)[k + 1] = q[k]
      OBVIOUS
    <2>3. /\ Len(<<e>> \o F) = 1 + Len(F) /\ (<<e>> \o F)[1] = e
          /\ \A k \in 1..Len(F) : (<<e>> \o F)[k + 1] = F[k]
      BY <1>4, <2>2, ZenonT(60)
    <2>4. 1 + 2 * L = 2 * L + 1
      BY <1>1
    <2> QED
      BY <1>3, <1>5, <2>1, <2>3, <2>4, ZenonT(60)
  <1>7. ASSUME NEW k \in 1..L
        PROVE  resp.body[2 * k] = Num(2, "len", NameLen[filters[k]]) /\ resp.body[2 * k + 1] = Field(NameLen[filters[k]], filters[k])
    <2>1. /\ 2 * k - 1 \in 1..(2 * L) /\ (2 * k - 1) + 1 = 2 * k /\ (2 * k - 1) % 2 = 1
          /\ ((2 * k - 1) + 1) \div 2 = k
      BY <1>1, SMTT(30)
    <2>2. 2 * k \in 1..(2 * L) /\ (2 * k) % 2 # 1 /\ (2 * k + 1) \div 2 = k
      BY <1>1
    <2>3. F[2 * k - 1] = Num(2, "len", NameLen[filters[k]])
      BY <1>2, <2>1, ZenonT(60)
    <2>4. F[2 * k] = Field(NameLen[filters[k]], filters[k])
      BY <1>2, <2>2, ZenonT(60)
    <2> QED
      BY <1>6, <2>1, <2>2, <2>3, <2>4, ZenonT(60)
  <1> QED
    BY <1>6, <1>7, SMTT(30)

(* Where bloomctl finds the number of filters in a LIST, and the name of   *)
(* each.                                                                   *)
LEMMA ListFirst ==
  ASSUME RespTypes, Layout, resp.body = ListBody
  PROVE  /\ Len(filters) \in Nat /\ At(0, 4).n = Len(filters) /\ resp.len \in Nat /\ resp.len >= 4
         /\ IF Len(filters) = 0 THEN resp.len = 4 ELSE resp.at[2] = 4
  <1>1. Len(filters) \in Nat /\ Len(resp.body) = 2 * Len(filters) + 1 /\ resp.body[1] = Num(4, "count", Len(filters))
    BY ListParts, SMTT(30) DEF RespTypes
  <1>2. resp.body[1].sz = 4 /\ resp.body[1].n = Len(filters)
    BY <1>1, SMTT(30) DEF Num
  <1>3. 1 \in 1..Len(resp.body) /\ (Len(filters) = 0 => Len(resp.body) = 1) /\ (Len(filters) # 0 => Len(resp.body) # 1)
    BY <1>1
  <1>4. /\ resp.at[1] = 0 /\ resp.at[1] + resp.body[1].sz <= resp.len
        /\ IF 1 = Len(resp.body) THEN resp.len = resp.at[1] + resp.body[1].sz
                                 ELSE resp.at[1 + 1] = resp.at[1] + resp.body[1].sz
    BY <1>3, FieldEnd, ZenonT(60)
  <1>5. At(0, 4) = resp.body[1]
    <2>1. 1 \in 1..Len(resp.body) /\ resp.at[1] = 0 /\ resp.body[1].sz = 4 /\ 4 > 0
      BY <1>2, <1>3, <1>4, SMTT(30)
    <2> QED
      BY <2>1, FieldAt, ZenonT(60)
  <1>6. resp.len \in Nat /\ 0 + 4 = 4 /\ 1 + 1 = 2
    BY RespParts, SMTT(30)
  <1>7. resp.len >= 4
    BY <1>2, <1>4, <1>6, SMTT(30)
  <1> QED
    BY <1>1, <1>2, <1>3, <1>4, <1>5, <1>6, <1>7, ZenonT(60)

LEMMA ListEntry ==
  ASSUME RespTypes, Layout, resp.body = ListBody, NEW k \in 1..Len(filters), NEW l, l = NameLen[filters[k]],
         NEW o, o = resp.at[2 * k]
  PROVE  /\ l \in Nat /\ o \in Nat /\ At(o, 2).n = l /\ At(o + 2, l) = resp.body[2 * k + 1]
         /\ resp.body[2 * k + 1].is = filters[k]
         /\ o + 2 <= resp.len /\ (o + 2) + l <= resp.len
         /\ (o + 2) + l = IF k + 1 <= Len(filters) THEN resp.at[2 * (k + 1)] ELSE resp.len
  <1> DEFINE L == Len(filters)
  <1>1. /\ L \in Nat /\ Len(resp.body) = 2 * L + 1
        /\ resp.body[2 * k] = Num(2, "len", l) /\ resp.body[2 * k + 1] = Field(l, filters[k])
    BY ListParts, SMTT(30) DEF RespTypes
  <1>2. l \in 1..MaxName
    BY RequestAssumption, SMTT(30) DEF RespTypes, AllNames
  <1>3. /\ 2 * k \in 1..Len(resp.body) /\ 2 * k + 1 \in 1..Len(resp.body) /\ 2 * k # Len(resp.body)
        /\ (2 * k + 1) + 1 = 2 * (k + 1) /\ ((2 * k + 1 = Len(resp.body)) <=> ~(k + 1 <= L))
    BY <1>1, SMTT(30)
  <1>4. resp.body[2 * k].sz = 2 /\ resp.body[2 * k].n = l /\ resp.body[2 * k + 1].sz = l /\ resp.body[2 * k + 1].is = filters[k]
    BY <1>1 DEF Num, Field
  <1>5. o \in Nat /\ resp.at[2 * k + 1] = o + 2 /\ o + 2 <= resp.len
    BY <1>3, <1>4, FieldEnd, ZenonT(60)
  <1>6. /\ (o + 2) + l <= resp.len
        /\ IF 2 * k + 1 = Len(resp.body) THEN resp.len = (o + 2) + l ELSE resp.at[(2 * k + 1) + 1] = (o + 2) + l
    BY <1>3, <1>4, <1>5, FieldEnd, ZenonT(60)
  <1>7. At(o, 2) = resp.body[2 * k]
    BY <1>3, <1>4, FieldAt, SMTT(30)
  <1>8. At(o + 2, l) = resp.body[2 * k + 1]
    <2>1. /\ 2 * k + 1 \in 1..Len(resp.body) /\ resp.at[2 * k + 1] = o + 2
          /\ resp.body[2 * k + 1].sz = l /\ l > 0
      <3>1. l > 0
        BY <1>2, RequestAssumption, SMTT(30)
      <3> QED
        BY <1>3, <1>4, <1>5, <3>1, ZenonT(60)
    <2> QED
      BY <2>1, FieldAt, ZenonT(60)
  <1>9. l \in Nat
    BY <1>2, RequestAssumption, SMTT(30)
  <1> QED
    BY <1>3, <1>4, <1>5, <1>6, <1>7, <1>8, <1>9, ZenonT(60)

Listing == req.op = "LIST" /\ req.from = "bloomctl" /\ resp.status = "OK"

(* The first n names of a LIST, and: the loop of main over a LIST is at    *)
(* entry i and has printed the names before it.                            *)
Entries(n) == [k \in 1..n |-> <<"entry", resp.body[2 * k + 1]>>]

Listed ==
  /\ i \in 1..(Len(filters) + 1)
  /\ off = IF i <= Len(filters) THEN resp.at[2 * i] ELSE resp.len
  /\ shown = Printed(Entries(i - 1))

ShownOK ==
  /\ shown.result = "values"
  /\ IF req.op = "LIST"
       THEN [k \in DOMAIN shown.values |-> shown.values[k][2].is] = filters
       ELSE \A k \in DOMAIN shown.values : shown.values[k][2].is = shown.values[k][1]
  /\ req.op \in Batch => shown.values[1][2].sz = Len(req.lens)

ShownInv ==
  /\ pc \notin {"reply", "done"} => shown = Printed(<<>>)
  /\ pc = "reply" /\ ~Listing => shown = Printed(<<>>)
  /\ pc = "reply" /\ Listing => Listed
  /\ pc = "done" /\ resp.status = "OK" => ShownOK

LEMMA AnswerIsList == ASSUME req.op = "LIST" PROVE Answer = ListBody
  <1>1. req.op # "PING" /\ req.op \notin Single /\ req.op \notin Batch /\ req.op # "INFO" /\ req.op # "STATS"
    BY DEF Single, Batch
  <1> QED
    BY <1>1, ZenonT(60) DEF Answer

(* Until the answer is there nothing is printed.                           *)
LEMMA NotShownYet ==
  ASSUME ShownInv, pc \notin {"reply", "done"}, pc' \notin {"reply", "done"}, UNCHANGED shown
  PROVE  ShownInv'
  <1>1. shown' = Printed(<<>>)
    BY Zenon DEF ShownInv
  <1>2. pc' # "reply" /\ pc' # "done"
    OBVIOUS
  <1> QED
    BY <1>1, <1>2, ZenonT(60) DEF ShownInv

LEMMA AnsweredShown == ASSUME AnswerInv, Layout, ShownInv, Answered PROVE ShownInv'
  <1>1. /\ pc \in {"append", "fallback"} /\ shown' = shown /\ i' = 1 /\ off' = 4 /\ UNCHANGED <<filters, req>>
        /\ pc \notin {"reply", "done"}
    BY DEF Answered
  <1>2. shown' = Printed(<<>>)
    BY <1>1, ZenonT(60) DEF ShownInv
  <1>3. CASE pc' = "fallback"
    BY <1>1, <1>3, NotShownYet, SMTT(30)
  <1>4. CASE /\ pc' = (IF pc = "fallback" /\ rc > 0 THEN "closed" ELSE "reply")
             /\ UNCHANGED <<resp, todo, rc>>
    <2>1. pc' # "done" /\ resp' = resp /\ filters' = filters
      BY <1>1, <1>4, SMTT(30)
    <2>2. ASSUME pc' = "reply", Listing' PROVE Listed'
      <3>1. resp.body = ListBody
        <4>1. WholeAnswers'
          BY AnsweredInv DEF AnswerInv
        <4>2. resp'.body = Answer' /\ Answer' = Answer
          BY <1>1, <2>2, <4>1, SameAnswer, ZenonT(60) DEF WholeAnswers, Listing
        <4>3. req.op = "LIST"
          BY <1>1, <2>2, ZenonT(60) DEF Listing
        <4> QED
          BY <2>1, <4>2, <4>3, AnswerIsList, ZenonT(60)
      <3>2. /\ Len(filters) \in Nat /\ resp.len \in Nat
            /\ IF Len(filters) = 0 THEN resp.len = 4 ELSE resp.at[2] = 4
        BY <3>1, ListFirst, SMTT(30) DEF AnswerInv
      <3>3. i' \in 1..(Len(filters') + 1) /\ off' = IF i' <= Len(filters') THEN resp'.at[2 * i'] ELSE resp'.len
        BY <1>1, <2>1, <3>2, SMTT(30)
      <3>4. shown' = Printed(Entries(i - 1))'
        <4>1. 1..(1 - 1) = {} /\ <<>> = [k \in {} |-> <<"entry", resp'.body[2 * k + 1]>>]
          OBVIOUS
        <4>2. Entries(i - 1)' = <<>>
          BY <1>1, <4>1, ZenonT(60) DEF Entries
        <4> QED
          BY <1>2, <4>2, ZenonT(60) DEF Printed
      <3> QED
        BY <3>3, <3>4, ZenonT(60) DEF Listed
    <2> QED
      BY <1>2, <2>1, <2>2, ZenonT(60) DEF ShownInv
  <1> QED
    BY <1>3, <1>4, ZenonT(60) DEF Answered

(* What bloomctl prints of a complete answer that is not a LIST.           *)
LEMMA ShowOK ==
  ASSUME AnswerInv, Layout, AskedInv, ShownInv, Show, resp.status = "OK"
  PROVE  ShownOK'
  <1>1. /\ ReqTypes /\ RespTypes /\ pc = "reply" /\ req.from = "bloomctl" /\ UNCHANGED <<req, filters, resp>>
        /\ req.op = "LIST" => resp.len < 4
    BY SMTT(30) DEF AnswerInv, Show
  <1>2. /\ resp.body = Answer /\ Formed /\ pc # "compose"
    BY <1>1 DEF AnswerInv, WholeAnswers, AskedInv
  <1>3. req.op # "LIST"
    <2>1. ASSUME req.op = "LIST" PROVE FALSE
      <3>1. resp.len \in Nat /\ resp.len >= 4
        BY <1>1, <1>2, <2>1, AnswerIsList, ListFirst, SMTT(30)
      <3> QED
        BY <1>1, <2>1, <3>1, SMTT(30)
    <2> QED
      BY <2>1, SMTT(30)
  <1>4. ASSUME shown'.result = "values", Labelled(shown'.values),
               req.op \in Batch => shown'.values[1][2].sz = Len(req.lens)
        PROVE  ShownOK'
    BY <1>1, <1>3, <1>4, ZenonT(60) DEF ShownOK, Labelled
  <1>5. ASSUME NEW label, NEW o, NEW sz, shown' = Printed(<<Row(label, o, sz)>>), At(o, sz).is = label
        PROVE  shown'.result = "values" /\ Labelled(shown'.values) /\ shown'.values[1] = Row(label, o, sz)
    <2>1. PICK v : v = <<Row(label, o, sz)>> /\ shown' = Printed(v)
      BY <1>5, ZenonT(60)
    <2>2. shown'.result = "values" /\ shown'.values = v
      BY <2>1, SMTT(30) DEF Printed
    <2>3. DOMAIN v = {1} /\ v[1] = Row(label, o, sz)
      BY <2>1
    <2>4. v[1][2].is = v[1][1]
      <3>1. Row(label, o, sz)[1] = label /\ Row(label, o, sz)[2] = At(o, sz)
        BY SMTT(30) DEF Row
      <3> QED
        BY <1>5, <2>3, <3>1, ZenonT(60)
    <2>5. Labelled(v)
      BY <2>3, <2>4, SMTT(30) DEF Labelled
    <2> QED
      BY <2>2, <2>3, <2>5, ZenonT(60)
  <1> DEFINE What == CASE resp.status # "OK" -> ErrorShown
                       [] req.op = "LIST"    -> Failure("malformed")
                       [] req.op = "PING"    -> Printed(<<Row("PONG", 0, resp.len)>>)
                       [] req.op \in Single  -> IF resp.len = 1 THEN Printed(<<Row("present", 0, 1)>>)
                                                ELSE Failure("malformed")
                       [] req.op \in Batch   -> BatchShown
                       [] req.op = "INFO"    -> InfoShown
                       [] req.op = "STATS"   -> StatsShown
                       [] OTHER              -> shown
  <1>6. shown' = What
    BY Zenon DEF Show
  <1>7. ~(resp.status # "OK")
    OBVIOUS
  <1>8. CASE req.op = "PING"
    <2>1. req.op \notin Single /\ req.op \notin Batch /\ req.op # "INFO" /\ req.op # "STATS"
      BY <1>8 DEF Single, Batch
    <2>2. shown' = Printed(<<Row("PONG", 0, resp.len)>>) /\ Answer = <<Field(4, "PONG")>>
      BY <1>3, <1>6, <1>7, <1>8, <2>1, ZenonT(60) DEF Answer
    <2>3. At(0, resp.len).is = "PONG"
      BY <1>1, <1>2, <2>2, PongShown, SMTT(30)
    <2> QED
      BY <1>4, <1>5, <2>1, <2>2, <2>3, ZenonT(60)
  <1>9. CASE req.op \in Single
    <2>1. req.op # "PING" /\ req.op \notin Batch /\ req.op # "INFO" /\ req.op # "STATS"
      BY <1>9 DEF Single, Batch
    <2>2. /\ shown' = (IF resp.len = 1 THEN Printed(<<Row("present", 0, 1)>>) ELSE Failure("malformed"))
          /\ Answer = Bool
      BY <1>3, <1>6, <1>7, <1>9, <2>1, ZenonT(60) DEF Answer
    <2>3. resp.len = 1 /\ At(0, 1).is = "present"
      BY <1>1, <1>2, <2>2, BoolShown, SMTT(30)
    <2> QED
      BY <1>4, <1>5, <2>1, <2>2, <2>3, ZenonT(60)
  <1>10. CASE req.op \in Batch
    <2>1. req.op # "PING" /\ req.op \notin Single /\ req.op # "INFO" /\ req.op # "STATS"
      BY <1>10 DEF Single, Batch
    <2>2. shown' = BatchShown /\ Answer = CountBytes
      BY <1>3, <1>6, <1>7, <1>10, <2>1, ZenonT(60) DEF Answer
    <2>3. req.count \in Nat \ {0} /\ Len(req.lens) = req.count
      BY <1>2, <1>10, RequestAssumption, SMTT(30) DEF Formed
    <2>4. /\ resp.len = 2 + req.count /\ At(0, 2).n = req.count
          /\ At(2, req.count).is = "results" /\ At(2, req.count).sz = req.count
      BY <1>1, <1>2, <2>2, <2>3, ResultsShown, SMTT(30)
    <2>5. ~(resp.len < 2) /\ resp.len = 2 + At(0, 2).n
      BY <2>3, <2>4
    <2>6. shown' = Printed(<<Row("results", 2, req.count)>>)
      BY <2>2, <2>4, <2>5, ZenonT(60) DEF BatchShown
    <2>7. shown'.result = "values" /\ Labelled(shown'.values) /\ shown'.values[1] = Row("results", 2, req.count)
      BY <1>5, <2>4, <2>6, ZenonT(60)
    <2>8. Row("results", 2, req.count)[2] = At(2, req.count)
      BY DEF Row
    <2> QED
      BY <1>4, <2>3, <2>4, <2>7, <2>8, ZenonT(60)
  <1>11. CASE req.op = "INFO"
    <2>1. req.op # "PING" /\ req.op \notin Single /\ req.op \notin Batch /\ req.op # "STATS" /\ req.op \notin Plain
      BY <1>11 DEF Single, Batch, Plain
    <2>2. shown' = InfoShown /\ Answer = InfoBody
      BY <1>3, <1>6, <1>7, <1>11, <2>1, ZenonT(60) DEF Answer
    <2>3. req.name_len \in Nat \ {0}
      BY <1>2, <2>1, RequestAssumption, SMTT(30) DEF Formed
    <2>4. InfoShown.result = "values" /\ Labelled(InfoShown.values)
      BY <1>1, <1>2, <2>2, <2>3, InfoLabelled, SMTT(30)
    <2> QED
      BY <1>4, <2>1, <2>2, <2>4, ZenonT(60)
  <1>12. CASE req.op = "STATS"
    <2>1. req.op # "PING" /\ req.op \notin Single /\ req.op \notin Batch /\ req.op # "INFO"
      BY <1>12 DEF Single, Batch
    <2>2. shown' = StatsShown /\ Answer = StatsBody
      BY <1>3, <1>6, <1>7, <1>12, <2>1, ZenonT(60) DEF Answer
    <2>3. StatsShown.result = "values" /\ Labelled(StatsShown.values)
      BY <1>1, <1>2, <2>2, StatsLabelled, SMTT(30)
    <2> QED
      BY <1>4, <2>1, <2>2, <2>3, ZenonT(60)
  <1>13. CASE req.op # "PING" /\ req.op \notin Single /\ req.op \notin Batch /\ req.op # "INFO" /\ req.op # "STATS"
    <2>1. shown' = shown /\ shown = Printed(<<>>)
      <3>1. shown' = shown
        BY <1>3, <1>6, <1>7, <1>13, ZenonT(60)
      <3> QED
        BY <1>1, <1>3, <3>1, ZenonT(60) DEF ShownInv, Listing
    <2>2. shown'.result = "values" /\ shown'.values = <<>>
      BY <2>1, SMTT(30) DEF Printed
    <2>3. Labelled(<<>>)
      BY DEF Labelled
    <2> QED
      BY <1>4, <1>13, <2>2, <2>3, ZenonT(60)
  <1> QED
    BY <1>8, <1>9, <1>10, <1>11, <1>12, <1>13, ZenonT(60)

LEMMA EntryShown == ASSUME AnswerInv, Layout, ShownInv, ShowEntry PROVE ShownInv'
  <1>1. /\ pc = "reply" /\ req.op = "LIST" /\ resp.status = "OK" /\ Listing /\ Listed /\ i <= At(0, 4).n
        /\ UNCHANGED <<req, filters, resp>>
    BY ZenonT(60) DEF ShowEntry, ShownInv, Listing
  <1>2. resp.body = ListBody
    BY <1>1, AnswerIsList, SMTT(30) DEF AnswerInv, WholeAnswers
  <1>3. Len(filters) \in Nat /\ At(0, 4).n = Len(filters)
    BY <1>2, ListFirst, SMTT(30) DEF AnswerInv
  <1>4. i \in 1..Len(filters) /\ i \in Nat /\ i <= Len(filters)
    BY <1>1, <1>3 DEF Listed
  <1>5. off = resp.at[2 * i]
    BY <1>1, <1>4, ZenonT(60) DEF Listed
  <1>6. PICK l : l = NameLen[filters[i]]
    BY ZenonT(60)
  <1>7. /\ l \in Nat /\ off \in Nat /\ At(off, 2).n = l /\ At(off + 2, l) = resp.body[2 * i + 1]
        /\ off + 2 <= resp.len /\ (off + 2) + l <= resp.len
        /\ (off + 2) + l = IF i + 1 <= Len(filters) THEN resp.at[2 * (i + 1)] ELSE resp.len
    BY <1>2, <1>4, <1>5, <1>6, ListEntry, SMTT(30) DEF AnswerInv
  <1>8. resp.len \in Nat
    BY <1>2, ListFirst, SMTT(30) DEF AnswerInv
  <1>9. ~(off + 2 > resp.len \/ (off + 2) + l > resp.len)
    BY <1>7, <1>8, SMTT(30)
  <1>10. /\ shown' = [shown EXCEPT !.values = Append(@, Row("entry", off + 2, l))]
         /\ i' = i + 1 /\ off' = (off + 2) + l /\ pc' = pc
    BY <1>7, <1>9, ZenonT(60) DEF ShowEntry
  <1>11. i' \in 1..(Len(filters') + 1) /\ off' = IF i' <= Len(filters') THEN resp'.at[2 * i'] ELSE resp'.len
    <2>1. i + 1 \in 1..(Len(filters) + 1)
      BY <1>3, <1>4, SMTT(30)
    <2> QED
      BY <1>1, <1>7, <1>10, <2>1, ZenonT(60)
  <1>12. Row("entry", off + 2, l) = <<"entry", resp.body[2 * i + 1]>>
    BY <1>7, ZenonT(60) DEF Row
  <1>13. PICK n \in Nat : n = i - 1 /\ n + 1 = i
    BY <1>4
  <1>14. Append(Entries(n), <<"entry", resp.body[2 * i + 1]>>) = Entries(n + 1)
    <2>1. \A F : \A m \in Nat : Append([k \in 1..m |-> F[k]], F[m + 1]) = [k \in 1..(m + 1) |-> F[k]]
      OBVIOUS
    <2> DEFINE F == [k \in Nat |-> <<"entry", resp.body[2 * k + 1]>>]
    <2>2. \A m \in Nat : Entries(m) = [k \in 1..m |-> F[k]]
      BY SMTT(30) DEF Entries
    <2>3. F[n + 1] = <<"entry", resp.body[2 * i + 1]>> /\ n + 1 \in Nat
      BY <1>13
    <2> HIDE DEF F
    <2>4. Append([k \in 1..n |-> F[k]], F[n + 1]) = [k \in 1..(n + 1) |-> F[k]]
      BY <2>1, ZenonT(60)
    <2>5. Entries(n) = [k \in 1..n |-> F[k]] /\ Entries(n + 1) = [k \in 1..(n + 1) |-> F[k]]
      BY <2>2, <2>3, ZenonT(60)
    <2> QED
      BY <2>3, <2>4, <2>5, ZenonT(60)
  <1>15. shown' = Printed(Entries(n + 1))
    <2>1. PICK e : e = Entries(n) /\ shown = Printed(e)
      BY <1>1, <1>13, ZenonT(60) DEF Listed
    <2>2. PICK r : r = Row("entry", off + 2, l)
      BY Zenon
    <2>3. shown' = Printed(Append(e, r))
      BY <1>10, <2>1, <2>2, SMTT(30) DEF Printed
    <2> QED
      BY <1>12, <1>14, <2>1, <2>2, <2>3, ZenonT(60)
  <1>16. shown' = Printed(Entries(i - 1))'
    <2>1. i' - 1 = n + 1
      BY <1>10, <1>13
    <2>2. Entries(i - 1)' = Entries(n + 1)
      BY <1>1, <2>1, Zenon DEF Entries
    <2> QED
      BY <1>15, <2>2, Zenon DEF Printed
  <1>17. Listed'
    BY <1>11, <1>16, Zenon DEF Listed
  <1>18. pc' = "reply" /\ pc' # "done" /\ Listing'
    BY <1>1, <1>10, SMTT(30) DEF Listing
  <1> QED
    BY <1>17, <1>18, ZenonT(60) DEF ShownInv

LEMMA EndShown == ASSUME AnswerInv, Layout, ShownInv, ShowEnd PROVE ShownInv'
  <1>1. /\ pc = "reply" /\ req.op = "LIST" /\ resp.status = "OK" /\ Listing /\ Listed /\ i > At(0, 4).n
        /\ UNCHANGED <<req, filters, resp>> /\ pc' = "done"
        /\ shown' = IF off = resp.len THEN shown ELSE Failure("malformed")
    BY ZenonT(60) DEF ShowEnd, ShownInv, Listing
  <1>2. resp.body = ListBody
    BY <1>1, AnswerIsList, SMTT(30) DEF AnswerInv, WholeAnswers
  <1>3. Len(filters) \in Nat /\ At(0, 4).n = Len(filters) /\ filters \in Seq(AllNames)
    BY <1>2, ListFirst, SMTT(30) DEF AnswerInv, RespTypes
  <1>4. i = Len(filters) + 1 /\ ~(i <= Len(filters)) /\ i - 1 = Len(filters)
    BY <1>1, <1>3, SMTT(30) DEF Listed
  <1>5. shown' = Printed(Entries(Len(filters)))
    BY <1>1, <1>4, ZenonT(60) DEF Listed
  <1>6. shown'.result = "values" /\ shown'.values = Entries(Len(filters))
    BY <1>5, SMTT(30) DEF Printed
  <1>7. \A k \in 1..Len(filters) : resp.body[2 * k + 1].is = filters[k]
    <2> SUFFICES ASSUME NEW k \in 1..Len(filters) PROVE resp.body[2 * k + 1].is = filters[k]
      OBVIOUS
    <2> QED
      BY <1>2, ListEntry, SMTT(30) DEF AnswerInv
  <1>8. [k \in DOMAIN shown'.values |-> shown'.values[k][2].is] = filters
    <2>1. DOMAIN Entries(Len(filters)) = 1..Len(filters)
      BY DEF Entries
    <2>2. \A k \in 1..Len(filters) : Entries(Len(filters))[k][2].is = filters[k]
      BY <1>7 DEF Entries
    <2>3. [k \in 1..Len(filters) |-> filters[k]] = filters
      BY <1>3
    <2>4. [k \in 1..Len(filters) |-> Entries(Len(filters))[k][2].is] = [k \in 1..Len(filters) |-> filters[k]]
      BY <2>2, ZenonT(60)
    <2> QED
      BY <1>6, <2>1, <2>3, <2>4, ZenonT(60)
  <1>9. req'.op = "LIST" /\ req'.op \notin Batch
    BY <1>1 DEF Batch
  <1>10. ShownOK'
    BY <1>1, <1>6, <1>8, <1>9, ZenonT(60) DEF ShownOK
  <1> QED
    BY <1>1, <1>10, SMTT(30) DEF ShownInv

LEMMA ShownStep == ASSUME AnswerInv, Layout, AskedInv, ShownInv, [ReqNext]_reqVars PROVE ShownInv'
  <1>1. CASE Ask \/ ComposeItem \/ AskOther
    <2>1. pc \in {"idle", "compose"} /\ pc' \in {"idle", "compose", "dispatch"} /\ UNCHANGED shown
      <3>1. CASE Ask
        BY <3>1 DEF Ask
      <3>2. CASE ComposeItem
        BY <3>2 DEF ComposeItem
      <3>3. CASE AskOther
        BY <3>3 DEF AskOther
      <3> QED
        BY <1>1, <3>1, <3>2, <3>3, ZenonT(60)
    <2> QED
      BY <2>1, NotShownYet, SMTT(30)
  <1>2. CASE Reject \/ Handle \/ BatchBegin \/ ScanItem \/ ScanEnd \/ Item \/ ItemsEnd
    <2>1. pc \in {"dispatch", "scan", "items"} /\ pc' \in {"scan", "items", "append", "fallback"} /\ UNCHANGED shown
      <3>1. CASE Reject \/ Handle
        BY <3>1, SMTT(30) DEF Reject, Handle
      <3>2. CASE BatchBegin
        BY <3>2, SMTT(30) DEF BatchBegin, FirstLoop
      <3>3. CASE ScanItem \/ ScanEnd
        BY <3>3, SMTT(30) DEF ScanItem, ScanEnd, Malformed
      <3>4. CASE Item \/ ItemsEnd
        BY <3>4, SMTT(30) DEF Item, ItemsEnd, Malformed
      <3> QED
        BY <1>2, <3>1, <3>2, <3>3, <3>4, ZenonT(60)
    <2> QED
      BY <2>1, NotShownYet
  <1>3. CASE AppendField
    <2>1. pc \in {"append", "fallback"} /\ pc' = pc /\ UNCHANGED shown
      BY <1>3 DEF AppendField
    <2> QED
      BY <2>1, NotShownYet, SMTT(30)
  <1>4. CASE Answered
    BY <1>4, AnsweredShown, SMTT(30)
  <1>5. CASE Show
    <2>1. pc' = "done" /\ resp' = resp
      BY <1>5, SMTT(30) DEF Show
    <2>2. pc' # "reply" /\ (resp'.status = "OK" => ShownOK')
      BY <1>5, <2>1, ShowOK, SMTT(30)
    <2> QED
      BY <2>1, <2>2, ZenonT(60) DEF ShownInv
  <1>6. CASE ShowEntry
    BY <1>6, EntryShown
  <1>7. CASE ShowEnd
    BY <1>7, EndShown
  <1>8. CASE Again
    <2>1. pc' = "idle" /\ shown' = Printed(<<>>)
      BY <1>8, Zenon DEF Again
    <2> QED
      BY <2>1 DEF ShownInv
  <1>9. CASE UNCHANGED reqVars
    <2>1. UNCHANGED <<pc, shown, req, resp, filters, i, off>>
      BY <1>9 DEF reqVars
    <2>2. Listing' = Listing /\ Listed' = Listed /\ ShownOK' = ShownOK
      BY <2>1, Zenon DEF Listing, Listed, ShownOK, Entries, Printed
    <2> QED
      BY <2>1, <2>2, ZenonT(60) DEF ShownInv
  <1> QED
    BY <1>1, <1>2, <1>3, <1>4, <1>5, <1>6, <1>7, <1>8, <1>9, ZenonT(60) DEF ReqNext

(* At every step bloomctl has printed nothing, the names before the entry  *)
(* it is at, or all that the daemon answered (main of bloomctl.c, which    *)
(* reads the body at fixed offsets), and the fields of the answer lie one  *)
(* behind the other as bloomd_buffer_append put them.                      *)
THEOREM ShownInvariant == ReqSpec => [](Layout /\ ShownInv)
  <1>1. ReqInit => Layout /\ ShownInv
    BY EmptyLayout, SMTT(30) DEF ReqInit, ShownInv, Empty
  <1>2. AnswerInv /\ AskedInv /\ (Layout /\ ShownInv) /\ [ReqNext]_reqVars => (Layout /\ ShownInv)'
    BY LayoutStep, ShownStep, SMTT(30) DEF AnswerInv
  <1> QED
    BY <1>1, <1>2, AnswerInvariant, AskedInvariant, PTL DEF ReqSpec

(* bloomctl and bloomd understand each other for every table of names,     *)
(* every list of filters and every length of the items of a batch: no      *)
(* request bloomctl composes is refused for its form, and what it prints   *)
(* of a complete answer is what bloomd put there.                          *)
THEOREM ClientUnderstands == ReqSpec => []Understood
  <1>1. AskedInv /\ ShownInv => Understood
    BY Zenon DEF AskedInv, ShownInv, ShownOK, Understood, FormErrors
  <1> QED
    BY <1>1, AskedInvariant, ShownInvariant, PTL
=============================================================================
