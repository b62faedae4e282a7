-------------------------- MODULE ClientLoopProofs --------------------------
(***************************************************************************)
(* The poll loop serves its clients in order and keeps its slots apart,    *)
(* for any number of slots and connections, any streams of requests, any   *)
(* size of the socket buffers and whatever calls fail.                     *)
(***************************************************************************)
EXTENDS ClientLoop, WellFoundedInduction, TLAPS

(* What a client in a slot, r, and the streams of its connection, k, have  *)
(* to do with each other: AnswersInOrder, and that the request being read  *)
(* or answered is one of the client's.                                     *)
ClientInv(r, k) ==
  /\ r.conn \in Conns /\ r.state # "EMPTY"
  /\ k.taken <= k.sent /\ k.done <= Len(Frames[r.conn])
  /\ InPlace(r, r.conn, k)
  /\ r.state = "READ_BODY" =>
       r.req \in 1..Len(Frames[r.conn]) /\ r.body <= Frames[r.conn][r.req].body
  /\ r.state = "WRITE_RESPONSE" =>
       /\ r.req \in 1..Len(Frames[r.conn])
       /\ r.total = Frames[r.conn][r.req].resp /\ r.off <= r.total

(* A client r goes on as r2, and its streams k as k2, when n more units of *)
(* a header or of a body are read, or of an answer written.                *)
TakesHeader(r, k, n, r2, k2) ==
  /\ r \in Client /\ k \in Socket /\ ClientInv(r, k) /\ r.state = "READ_HEADER"
  /\ n \in 0..(HdrLen - r.got) /\ k.taken + n <= k.sent
  /\ r2 = Active([r EXCEPT !.got = @ + n], n) /\ k2 = [k EXCEPT !.taken = @ + n]

TakesBody(r, k, n, r2, k2) ==
  /\ r \in Client /\ k \in Socket /\ ClientInv(r, k) /\ r.state = "READ_BODY"
  /\ n \in 0..(Frames[r.conn][r.req].body - r.body) /\ k.taken + n <= k.sent
  /\ r2 = Active([r EXCEPT !.body = @ + n], n) /\ k2 = [k EXCEPT !.taken = @ + n]

Answers(r, k, n, r2, k2) ==
  /\ r \in Client /\ k \in Socket /\ ClientInv(r, k) /\ r.state = "WRITE_RESPONSE"
  /\ n \in Nat /\ n <= r.total - r.off /\ n <= SockCap - k.unread
  /\ r2 = Active([r EXCEPT !.off = @ + n], n) /\ k2 = [k EXCEPT !.out = @ + n, !.unread = @ + n]

SlotInv == \A s \in Slots : IF slot[s].conn = NoConn THEN slot[s].state = "EMPTY"
                                                     ELSE ClientInv(slot[s], sock[slot[s].conn])

(* Nothing was read from or written to a connection that is not accepted.  *)
ConnInv ==
  \A c \in Conns : link[c] # "open" => sock[c].taken = 0 /\ sock[c].out = 0 /\ sock[c].done = 0

(* Those who wait are in the backlog once.                                 *)
BacklogInv ==
  /\ \A i \in 1..Len(backlog) : link[backlog[i]] = "waiting"
  /\ \A i, j \in 1..Len(backlog) : backlog[i] = backlog[j] => i = j

(* What poll reported is about slots in use, and is used up by the loop    *)
(* before it polls again.                                                  *)
EventInv ==
  /\ \A s \in Slots : events[s] # "none" => slot[s].conn # NoConn
  /\ pc \in {"poll", "reap", "down"} => \A s \in Slots : events[s] = "none"

LoopInv == TypeOK /\ OneSlotEach /\ SlotInv /\ ConnInv /\ BacklogInv /\ EventInv

-----------------------------------------------------------------------------
(* The streams of requests and answers.                                    *)

LEMMA FrameFacts ==
  ASSUME NEW c \in Conns
  PROVE  /\ Frames[c] \in Seq(FrameType) /\ Len(Frames[c]) \in Nat
         /\ \A k \in 1..Len(Frames[c]) :
              /\ Frames[c][k] \in FrameType
              /\ Frames[c][k].start \in Nat /\ Frames[c][k].body \in Nat /\ Frames[c][k].reply \in Nat
              /\ Frames[c][k].resp \in Nat \ {0}
  <1>1. Frames[c] \in Seq(FrameType)
    BY FramesAssumption
  <1>2. \A k \in 1..Len(Frames[c]) : Frames[c][k] \in FrameType
    BY <1>1
  <1>3. Len(Frames[c]) \in Nat
    BY <1>1
  <1>4. \A f \in FrameType : f.start \in Nat /\ f.body \in Nat /\ f.reply \in Nat /\ f.resp \in Nat \ {0}
    BY DEF FrameType
  <1> QED
    BY <1>1, <1>2, <1>3, <1>4, Zenon

LEMMA EndFacts ==
  ASSUME NEW c \in Conns
  PROVE  /\ \A k \in 0..Len(Frames[c]) : ReqEnd(c, k) \in Nat /\ ReplyEnd(c, k) \in Nat
         /\ \A k \in 1..Len(Frames[c]) :
              /\ ReqEnd(c, k) = ReqEnd(c, k - 1) + HdrLen + Frames[c][k].body
              /\ ReplyEnd(c, k) = ReplyEnd(c, k - 1) + Frames[c][k].resp
  <1>1. HdrLen \in Nat
    BY LoopAssumption
  <1>2. \A k \in 0..Len(Frames[c]) : ReqEnd(c, k) \in Nat /\ ReplyEnd(c, k) \in Nat
    <2> SUFFICES ASSUME NEW k \in 0..Len(Frames[c]) PROVE ReqEnd(c, k) \in Nat /\ ReplyEnd(c, k) \in Nat
      BY Zenon
    <2>1. Len(Frames[c]) \in Nat
      BY FrameFacts, Zenon
    <2>2. k = 0 \/ k \in 1..Len(Frames[c])
      BY <2>1
    <2>3. CASE k = 0
      BY <2>3 DEF ReqEnd, ReplyEnd
    <2>4. CASE k \in 1..Len(Frames[c])
      <3>1. /\ Frames[c][k].start \in Nat /\ Frames[c][k].body \in Nat
            /\ Frames[c][k].reply \in Nat /\ Frames[c][k].resp \in Nat
        BY <2>4, FrameFacts, Zenon
      <3>2. k # 0
        BY <2>4
      <3>3. /\ ReqEnd(c, k) = Frames[c][k].start + HdrLen + Frames[c][k].body
            /\ ReplyEnd(c, k) = Frames[c][k].reply + Frames[c][k].resp
        BY <3>2, Zenon DEF ReqEnd, ReplyEnd
      <3>4. \A x, y, z \in Nat : x + y \in Nat /\ x + y + z \in Nat
        OBVIOUS
      <3>5. Frames[c][k].start + HdrLen + Frames[c][k].body \in Nat
        BY <1>1, <3>1, <3>4, Zenon
      <3>6. Frames[c][k].reply + Frames[c][k].resp \in Nat
        BY <3>1, <3>4, Zenon
      <3> QED
        BY <3>3, <3>5, <3>6, Zenon
    <2> QED
      BY <2>2, <2>3, <2>4, Zenon
  <1>3. ASSUME NEW k \in 1..Len(Frames[c])
        PROVE  /\ ReqEnd(c, k) = ReqEnd(c, k - 1) + HdrLen + Frames[c][k].body
               /\ ReplyEnd(c, k) = ReplyEnd(c, k - 1) + Frames[c][k].resp
    <2>1. Frames[c][k].start = ReqEnd(c, k - 1) /\ Frames[c][k].reply = ReplyEnd(c, k - 1)
      BY FramesAssumption
    <2>2. k # 0
      OBVIOUS
    <2>3. /\ ReqEnd(c, k) = Frames[c][k].start + HdrLen + Frames[c][k].body
          /\ ReplyEnd(c, k) = Frames[c][k].reply + Frames[c][k].resp
      BY <2>2, Zenon DEF ReqEnd, ReplyEnd
    <2> QED
      BY <2>1, <2>3, Zenon
  <1> QED
    BY <1>2, <1>3, Zenon

(* A set of naturals has a least element.                                  *)
LEMMA Least ==
  ASSUME NEW T \in SUBSET Nat, T # {}
  PROVE  \E x \in T : \A y \in T : x <= y
  <1>1. \E x \in T : \A y \in T : <<y, x>> \notin OpToRel(<, Nat)
    BY NatLessThanWellFounded, WFMin, Zenon
  <1>2. \A x, y \in Nat : <<y, x>> \notin OpToRel(<, Nat) => x <= y
    BY DEF OpToRel
  <1> QED
    BY <1>1, <1>2, Zenon

(* A later request begins at a later position: a least counterexample      *)
(* would begin where the request before it ends.                           *)
LEMMA StartsIncrease ==
  ASSUME NEW c \in Conns, NEW j \in 1..Len(Frames[c])
  PROVE  \A k \in 1..Len(Frames[c]) : j < k => Frames[c][j].start < Frames[c][k].start
  <1> DEFINE start(k) == Frames[c][k].start
             T == {k \in 1..Len(Frames[c]) : j < k /\ ~(start(j) < start(k))}
  <1>1. Len(Frames[c]) \in Nat /\ HdrLen \in Nat \ {0} /\ j \in Nat
    BY FrameFacts, LoopAssumption
  <1>2. \A k \in 1..Len(Frames[c]) : start(k) \in Nat
    BY FrameFacts, Zenon
  <1>3. ASSUME NEW k \in 1..Len(Frames[c]), k - 1 \in 1..Len(Frames[c]) PROVE start(k - 1) < start(k)
    <2>1. start(k) = ReqEnd(c, k - 1)
      BY FramesAssumption
    <2>2. k - 1 # 0
      BY <1>3
    <2>3. ReqEnd(c, k - 1) = start(k - 1) + HdrLen + Frames[c][k - 1].body
      BY <2>2, Zenon DEF ReqEnd
    <2>4. Frames[c][k - 1].body \in Nat /\ start(k - 1) \in Nat
      BY <1>2, <1>3, FrameFacts, Zenon
    <2>5. \A x, z \in Nat : x < x + HdrLen + z
      BY <1>1
    <2> QED
      BY <2>1, <2>3, <2>4, <2>5, Zenon
  <1>4. SUFFICES ASSUME T # {} PROVE FALSE
    BY Zenon
  <1>5. T \in SUBSET Nat
    BY <1>1
  <1>6. PICK k \in T : \A i \in T : k <= i
    BY <1>4, <1>5, Least, Zenon
  <1> HIDE DEF start
  <1>7. k \in 1..Len(Frames[c]) /\ j < k /\ ~(start(j) < start(k)) /\ k - 1 \in 1..Len(Frames[c]) /\ j <= k - 1
    BY <1>1, <1>6
  <1>8. k - 1 \notin T
    BY <1>1, <1>6, <1>7
  <1>9. j = k - 1 \/ start(j) < start(k - 1)
    BY <1>1, <1>7, <1>8
  <1>10. start(k - 1) < start(k)
    BY <1>3, <1>7, Zenon
  <1>11. start(j) \in Nat /\ start(k - 1) \in Nat /\ start(k) \in Nat
    BY <1>2, <1>7, Zenon
  <1> QED
    BY <1>7, <1>9, <1>10, <1>11

(* At the end of request k begins request k + 1, or none.                  *)
LEMMA NextFrame ==
  ASSUME NEW c \in Conns, NEW k \in 0..Len(Frames[c])
  PROVE  FrameAt(c, ReqEnd(c, k)) = IF k < Len(Frames[c]) THEN k + 1 ELSE 0
  <1>1. Len(Frames[c]) \in Nat /\ HdrLen \in Nat \ {0}
    BY FrameFacts, LoopAssumption
  <1>2. \A i, j \in 1..Len(Frames[c]) : Frames[c][i].start = Frames[c][j].start => i = j
    <2> SUFFICES ASSUME NEW i \in 1..Len(Frames[c]), NEW j \in 1..Len(Frames[c]),
                        Frames[c][i].start = Frames[c][j].start, i # j
                 PROVE  FALSE
      BY Zenon
    <2>1. i < j => Frames[c][i].start < Frames[c][j].start
      BY StartsIncrease, Zenon
    <2>2. j < i => Frames[c][j].start < Frames[c][i].start
      BY StartsIncrease, Zenon
    <2> QED
      BY <2>1, <2>2, FrameFacts
  <1>3. CASE k < Len(Frames[c])
    <2>1. k + 1 \in 1..Len(Frames[c]) /\ k = (k + 1) - 1
      BY <1>1, <1>3
    <2>2. Frames[c][k + 1].start = ReqEnd(c, k)
      BY <2>1, FramesAssumption
    <2>3. \A j \in 1..Len(Frames[c]) : Frames[c][j].start = ReqEnd(c, k) => j = k + 1
      BY <1>2, <2>1, <2>2, Zenon
    <2>4. FrameAt(c, ReqEnd(c, k)) = k + 1
      BY <2>1, <2>2, <2>3, Zenon DEF FrameAt
    <2> QED
      BY <1>3, <2>4, Zenon
  <1>4. CASE ~(k < Len(Frames[c]))
    <2>1. k = Len(Frames[c])
      BY <1>1, <1>4
    <2>2. ASSUME NEW j \in 1..Len(Frames[c]) PROVE Frames[c][j].start < ReqEnd(c, k)
      <3>1. k \in 1..Len(Frames[c]) /\ (j < k => Frames[c][j].start < Frames[c][k].start)
        BY <1>1, <2>1, StartsIncrease
      <3>2. ReqEnd(c, k) = Frames[c][k].start + HdrLen + Frames[c][k].body
        BY <3>1 DEF ReqEnd
      <3> QED
        BY <1>1, <2>1, <3>1, <3>2, FrameFacts, SMTT(30)
    <2>3. ReqEnd(c, k) \in Nat /\ \A j \in 1..Len(Frames[c]) : Frames[c][j].start \in Nat
      BY EndFacts, FrameFacts
    <2>4. ~\E j \in 1..Len(Frames[c]) : Frames[c][j].start = ReqEnd(c, k)
      BY <2>2, <2>3
    <2> QED
      BY <1>4, <2>4, Zenon DEF FrameAt
  <1> QED
    BY <1>3, <1>4, Zenon

-----------------------------------------------------------------------------
(* One client: what reading and writing do to its slot r and streams k.    *)

LEMMA ClientFields ==
  ASSUME NEW r \in Client, NEW k \in Socket
  PROVE  /\ r.conn \in Conns \cup {NoConn} /\ r.state \in States /\ r.got \in 0..HdrLen
         /\ r.body \in Nat /\ r.req \in Nat /\ r.off \in Nat /\ r.total \in Nat
         /\ r.idle \in 0..(Timeout + 1)
         /\ k.peer \in {"open", "half", "closed"} /\ k.sent \in Nat /\ k.taken \in Nat
         /\ k.out \in Nat /\ k.unread \in 0..SockCap /\ k.done \in Nat
  BY DEF Client, Socket

(* bloomd_client_touch changes the time of the last activity only.         *)
LEMMA ActiveFields ==
  ASSUME NEW r \in Client, NEW n \in Nat
  PROVE  /\ Active(r, n) \in Client
         /\ Active(r, n).conn = r.conn /\ Active(r, n).state = r.state /\ Active(r, n).got = r.got
         /\ Active(r, n).body = r.body /\ Active(r, n).req = r.req /\ Active(r, n).off = r.off
         /\ Active(r, n).total = r.total
  <1>1. 0 \in 0..(Timeout + 1)
    BY LoopAssumption
  <1>2. CASE n = 0
    BY <1>2, Zenon DEF Active
  <1>3. CASE n # 0
    <2>1. Active(r, n) = [r EXCEPT !.idle = 0]
      BY <1>3, Zenon DEF Active
    <2> QED
      BY <1>1, <2>1 DEF Client
  <1> QED
    BY <1>2, <1>3, Zenon

(* bloomd_client_read_some returns no more than was asked for and is there.*)
LEMMA GotFacts ==
  ASSUME NEW k \in Socket, NEW want \in Nat, k.taken <= k.sent
  PROVE  Got(k, want) \in 0..want /\ k.taken + Got(k, want) <= k.sent
  <1>1. k.sent \in Nat /\ k.taken \in Nat
    BY DEF Socket
  <1> QED
    BY <1>1 DEF Got

(* A part of the header is read.                                           *)
LEMMA HeaderPart ==
  ASSUME NEW r, NEW k, NEW n, NEW r2, NEW k2, TakesHeader(r, k, n, r2, k2)
  PROVE  /\ r2 \in Client /\ k2 \in Socket /\ ClientInv(r2, k2)
         /\ r2.conn = r.conn /\ r2.state = "READ_HEADER" /\ r2.got = r.got + n /\ k2.sent = k.sent
  <1> SUFFICES ASSUME r \in Client, k \in Socket, ClientInv(r, k), r.state = "READ_HEADER",
                      n \in 0..(HdrLen - r.got), k.taken + n <= k.sent,
                      r2 = Active([r EXCEPT !.got = @ + n], n), k2 = [k EXCEPT !.taken = @ + n]
               PROVE  /\ r2 \in Client /\ k2 \in Socket /\ ClientInv(r2, k2)
                      /\ r2.conn = r.conn /\ r2.state = "READ_HEADER" /\ r2.got = r.got + n /\ k2.sent = k.sent
    BY Zenon DEF TakesHeader
  <1>1. HdrLen \in Nat /\ Timeout \in Nat
    BY LoopAssumption
  <1>2. /\ r.got \in 0..HdrLen /\ n \in Nat /\ k.taken \in Nat /\ k.done \in Nat /\ r.conn \in Conns
        /\ k.done \in 0..Len(Frames[r.conn])
    BY <1>1, ClientFields, FrameFacts DEF ClientInv
  <1>3. /\ r2.conn = r.conn /\ r2.state = r.state /\ r2.got = r.got + n /\ r2 \in Client
    <2>1. r.got + n \in 0..HdrLen
      BY <1>1, <1>2
    <2>2. /\ [r EXCEPT !.got = @ + n] \in Client /\ [r EXCEPT !.got = @ + n].conn = r.conn
          /\ [r EXCEPT !.got = @ + n].state = r.state /\ [r EXCEPT !.got = @ + n].got = r.got + n
      BY <2>1 DEF Client
    <2> QED
      BY <1>2, <2>2, ActiveFields, Zenon
  <1>4. /\ k2 \in Socket /\ k2.taken = k.taken + n /\ k2.out = k.out /\ k2.done = k.done /\ k2.sent = k.sent
    BY <1>2, SMTT(30) DEF Socket
  <1>5. k.taken = ReqEnd(r.conn, k.done) + r.got /\ k.out = ReplyEnd(r.conn, k.done)
    BY DEF ClientInv, InPlace
  <1>6. k2.taken = ReqEnd(r.conn, k.done) + r2.got
    <2>1. ReqEnd(r.conn, k.done) \in Nat
      BY <1>2, EndFacts, Zenon
    <2> QED
      BY <1>2, <1>3, <1>4, <1>5, <2>1
  <1>7. InPlace(r2, r2.conn, k2)
    BY <1>3, <1>4, <1>5, <1>6, Zenon DEF InPlace
  <1>8. ClientInv(r2, k2)
    BY <1>3, <1>4, <1>7 DEF ClientInv
  <1> QED
    BY <1>3, <1>4, <1>8

(* A part of the body is read.                                             *)
LEMMA BodyPart ==
  ASSUME NEW r, NEW k, NEW n, NEW r2, NEW k2, TakesBody(r, k, n, r2, k2)
  PROVE  /\ r2 \in Client /\ k2 \in Socket /\ ClientInv(r2, k2)
         /\ r2.conn = r.conn /\ r2.state = "READ_BODY" /\ r2.req = r.req /\ r2.body = r.body + n
         /\ k2.sent = k.sent
  <1> SUFFICES ASSUME r \in Client, k \in Socket, ClientInv(r, k), r.state = "READ_BODY",
                      n \in 0..(Frames[r.conn][r.req].body - r.body), k.taken + n <= k.sent,
                      r2 = Active([r EXCEPT !.body = @ + n], n), k2 = [k EXCEPT !.taken = @ + n]
               PROVE  /\ r2 \in Client /\ k2 \in Socket /\ ClientInv(r2, k2)
                      /\ r2.conn = r.conn /\ r2.state = "READ_BODY" /\ r2.req = r.req /\ r2.body = r.body + n
                      /\ k2.sent = k.sent
    BY Zenon DEF TakesBody
  <1>1. HdrLen \in Nat /\ Timeout \in Nat
    BY LoopAssumption
  <1>2. /\ r.conn \in Conns /\ r.req \in 1..Len(Frames[r.conn]) /\ r.body \in Nat
        /\ k.taken \in Nat /\ k.done \in Nat /\ k.done \in 0..Len(Frames[r.conn])
        /\ r.body <= Frames[r.conn][r.req].body
    BY ClientFields, FrameFacts DEF ClientInv
  <1>3. Frames[r.conn][r.req].body \in Nat
    BY <1>2, FrameFacts
  <1>4. n \in Nat
    BY <1>2, <1>3
  <1>5. /\ r2.conn = r.conn /\ r2.state = r.state /\ r2.req = r.req /\ r2.body = r.body + n /\ r2 \in Client
    <2>1. r.body + n \in Nat
      BY <1>2, <1>4
    <2>2. /\ [r EXCEPT !.body = @ + n] \in Client /\ [r EXCEPT !.body = @ + n].conn = r.conn
          /\ [r EXCEPT !.body = @ + n].state = r.state /\ [r EXCEPT !.body = @ + n].req = r.req
          /\ [r EXCEPT !.body = @ + n].body = r.body + n
      BY <2>1 DEF Client
    <2> QED
      BY <1>4, <2>2, ActiveFields, Zenon
  <1>6. /\ k2 \in Socket /\ k2.taken = k.taken + n /\ k2.out = k.out /\ k2.done = k.done /\ k2.sent = k.sent
    <2>1. k.taken + n \in Nat
      BY <1>2, <1>4, SMTT(30)
    <2> QED
      BY <2>1 DEF Socket
  <1>7. /\ r.req = k.done + 1 /\ k.taken = ReqEnd(r.conn, k.done) + HdrLen + r.body
        /\ k.out = ReplyEnd(r.conn, k.done)
    BY DEF ClientInv, InPlace
  <1>8. k2.taken = ReqEnd(r.conn, k.done) + HdrLen + r2.body
    <2>1. ReqEnd(r.conn, k.done) \in Nat
      BY <1>2, EndFacts, Zenon
    <2>2. ReqEnd(r.conn, k.done) \in Nat /\ HdrLen \in Nat /\ r.body \in Nat /\ n \in Nat
      BY <1>1, <1>2, <1>4, <2>1, Zenon
    <2>3. k2.taken = (ReqEnd(r.conn, k.done) + HdrLen + r.body) + n
      BY <1>6, <1>7, Zenon
    <2>4. (ReqEnd(r.conn, k.done) + HdrLen + r.body) + n = ReqEnd(r.conn, k.done) + HdrLen + (r.body + n)
      BY <2>2
    <2> QED
      BY <1>5, <2>3, <2>4, Zenon
  <1>9. InPlace(r2, r2.conn, k2)
    BY <1>5, <1>6, <1>7, <1>8, Zenon DEF InPlace
  <1>10. r2.body <= Frames[r2.conn][r2.req].body
    <2>1. \A x, y \in Nat : \A z \in 0..(y - x) : x + z <= y
      OBVIOUS
    <2> QED
      BY <1>2, <1>3, <1>5, <2>1, Zenon
  <1>11. ClientInv(r2, k2)
    BY <1>2, <1>5, <1>6, <1>9, <1>10 DEF ClientInv
  <1> QED
    BY <1>5, <1>6, <1>11

(* bloomd_dispatch and bloomd_client_prepare_write: the request was read   *)
(* to its end, and the answers before it are written.                      *)
LEMMA Dispatched ==
  ASSUME NEW r \in Client, NEW k \in Socket, r.conn \in Conns, r.req = k.done + 1,
         r.req \in 1..Len(Frames[r.conn]), k.taken <= k.sent,
         k.taken = ReqEnd(r.conn, k.done) + HdrLen + Frames[r.conn][r.req].body,
         k.out = ReplyEnd(r.conn, k.done),
         NEW r2, r2 = [r EXCEPT !.off = 0, !.total = Frames[r.conn][r.req].resp, !.state = "WRITE_RESPONSE"],
         NEW k2, k2 = [k EXCEPT !.done = @ + 1]
  PROVE  r2 \in Client /\ k2 \in Socket /\ ClientInv(r2, k2) /\ r2.conn = r.conn /\ k2.sent = k.sent
  <1>1. Frames[r.conn][r.req].resp \in Nat \ {0} /\ k.done \in Nat /\ Len(Frames[r.conn]) \in Nat
    BY FrameFacts, ClientFields, Zenon
  <1>2. /\ r2 \in Client /\ r2.conn = r.conn /\ r2.state = "WRITE_RESPONSE" /\ r2.req = r.req
        /\ r2.off = 0 /\ r2.total = Frames[r.conn][r.req].resp
    BY <1>1, Zenon DEF Client, States
  <1>3. /\ k2 \in Socket /\ k2.done = k.done + 1 /\ k2.taken = k.taken /\ k2.out = k.out /\ k2.sent = k.sent
    BY <1>1 DEF Socket
  <1>4. r.req - 1 = k.done /\ k2.done - 1 = k.done /\ k2.done <= Len(Frames[r.conn])
    BY <1>1, <1>3
  <1>5. k2.taken = ReqEnd(r.conn, k2.done)
    <2>1. ReqEnd(r.conn, r.req) = ReqEnd(r.conn, r.req - 1) + HdrLen + Frames[r.conn][r.req].body
      BY EndFacts, Zenon
    <2> QED
      BY <1>3, <1>4, <2>1, Zenon
  <1>6. k2.out = ReplyEnd(r.conn, k2.done - 1) + r2.off
    <2>1. k.done \in 0..Len(Frames[r.conn])
      BY <1>1
    <2>2. ReplyEnd(r.conn, k.done) \in Nat
      BY <2>1, EndFacts, Zenon
    <2>3. \A x \in Nat : x + 0 = x
      OBVIOUS
    <2> QED
      BY <1>2, <1>3, <1>4, <2>2, <2>3, Zenon
  <1>7. r2.off <= r2.total
    BY <1>1, <1>2
  <1>8. InPlace(r2, r2.conn, k2)
    BY <1>2, <1>3, <1>5, <1>6 DEF InPlace
  <1> QED
    BY <1>2, <1>3, <1>4, <1>7, <1>8 DEF ClientInv

(* The header is complete: it is that of the request after the ones that   *)
(* were dispatched, or there is none.                                      *)
LEMMA HeaderComplete ==
  ASSUME NEW r \in Client, NEW k \in Socket, ClientInv(r, k), r.state = "READ_HEADER", r.got = HdrLen,
         NEW r2, r2 = [r EXCEPT !.req = FrameAt(r.conn, k.taken - HdrLen)], r2.req # 0
  PROVE  /\ r2 \in Client /\ r2.conn = r.conn /\ r2.req = k.done + 1 /\ r2.req \in 1..Len(Frames[r.conn])
         /\ k.taken = ReqEnd(r.conn, k.done) + HdrLen /\ k.out = ReplyEnd(r.conn, k.done)
  <1>1. /\ r.conn \in Conns /\ k.done \in Nat /\ k.done <= Len(Frames[r.conn])
        /\ HdrLen \in Nat /\ Len(Frames[r.conn]) \in Nat
    BY ClientFields, FrameFacts, LoopAssumption DEF ClientInv
  <1>2. k.done \in 0..Len(Frames[r.conn])
    BY <1>1
  <1>3. k.taken = ReqEnd(r.conn, k.done) + HdrLen /\ k.out = ReplyEnd(r.conn, k.done)
    BY DEF ClientInv, InPlace
  <1>4. ReqEnd(r.conn, k.done) \in Nat
    BY <1>1, <1>2, EndFacts, Zenon
  <1>5. k.taken - HdrLen = ReqEnd(r.conn, k.done)
    BY <1>1, <1>3, <1>4
  <1>6. r2.req = FrameAt(r.conn, ReqEnd(r.conn, k.done)) /\ r2.conn = r.conn
    BY <1>5 DEF Client
  <1>7. r2.req = k.done + 1 /\ k.done < Len(Frames[r.conn])
    BY <1>1, <1>2, <1>6, NextFrame, Zenon
  <1>8. r2.req \in 1..Len(Frames[r.conn]) /\ r2.req \in Nat
    BY <1>1, <1>7
  <1>9. r2 \in Client
    BY <1>6, <1>8 DEF Client
  <1> QED
    BY <1>3, <1>6, <1>7, <1>8, <1>9, Zenon

(* The header is complete and a body follows.                              *)
LEMMA BodyBegins ==
  ASSUME NEW r \in Client, NEW k \in Socket, r.conn \in Conns, r.req = k.done + 1,
         r.req \in 1..Len(Frames[r.conn]), k.taken <= k.sent,
         k.taken = ReqEnd(r.conn, k.done) + HdrLen, k.out = ReplyEnd(r.conn, k.done),
         NEW r2, r2 = [r EXCEPT !.body = 0, !.state = "READ_BODY"]
  PROVE  r2 \in Client /\ ClientInv(r2, k) /\ r2.conn = r.conn
  <1>1. k.done \in Nat /\ Len(Frames[r.conn]) \in Nat /\ Frames[r.conn][r.req].body \in Nat
    BY FrameFacts, ClientFields, Zenon
  <1>2. r2 \in Client /\ r2.conn = r.conn /\ r2.state = "READ_BODY" /\ r2.req = r.req /\ r2.body = 0
    BY Zenon DEF Client, States
  <1>3. k.done <= Len(Frames[r.conn]) /\ k.done \in 0..Len(Frames[r.conn])
    BY <1>1
  <1>4. k.taken = ReqEnd(r.conn, k.done) + HdrLen + r2.body
    <2>1. ReqEnd(r.conn, k.done) \in Nat /\ HdrLen \in Nat
      BY <1>3, EndFacts, LoopAssumption
    <2> QED
      BY <1>2, <2>1
  <1>5. InPlace(r2, r2.conn, k)
    BY <1>2, <1>4 DEF InPlace
  <1>6. r2.body <= Frames[r2.conn][r2.req].body
    BY <1>1, <1>2
  <1> QED
    BY <1>2, <1>3, <1>5, <1>6 DEF ClientInv

(* A part of the answer is written.                                        *)
LEMMA AnswerPart ==
  ASSUME NEW r, NEW k, NEW n, NEW r2, NEW k2, Answers(r, k, n, r2, k2)
  PROVE  /\ r2 \in Client /\ k2 \in Socket /\ ClientInv(r2, k2) /\ r2.conn = r.conn
         /\ r2.off = r.off + n /\ r2.total = r.total /\ r2.state = "WRITE_RESPONSE" /\ k2.sent = k.sent
  <1> SUFFICES ASSUME r \in Client, k \in Socket, ClientInv(r, k), r.state = "WRITE_RESPONSE",
                      n \in Nat, n <= r.total - r.off, n <= SockCap - k.unread,
                      r2 = Active([r EXCEPT !.off = @ + n], n), k2 = [k EXCEPT !.out = @ + n, !.unread = @ + n]
               PROVE  /\ r2 \in Client /\ k2 \in Socket /\ ClientInv(r2, k2) /\ r2.conn = r.conn
                      /\ r2.off = r.off + n /\ r2.total = r.total /\ r2.state = "WRITE_RESPONSE" /\ k2.sent = k.sent
    BY Zenon DEF Answers
  <1>1. /\ r.conn \in Conns /\ r.req \in 1..Len(Frames[r.conn]) /\ r.off \in Nat /\ r.total \in Nat
        /\ r.req = k.done /\ k.taken = ReqEnd(r.conn, k.done) /\ k.out = ReplyEnd(r.conn, k.done - 1) + r.off
        /\ r.total = Frames[r.conn][r.req].resp /\ k.taken <= k.sent /\ k.done <= Len(Frames[r.conn])
    BY ClientFields DEF ClientInv, InPlace
  <1>2. SockCap \in Nat /\ k.unread \in 0..SockCap /\ k.out \in Nat
    BY ClientFields, LoopAssumption
  <1>3. r2 \in Client /\ r2.conn = r.conn /\ r2.state = r.state /\ r2.req = r.req
        /\ r2.off = r.off + n /\ r2.total = r.total
    <2>1. r.off + n \in Nat
      BY <1>1
    <2>2. /\ [r EXCEPT !.off = @ + n] \in Client /\ [r EXCEPT !.off = @ + n].conn = r.conn
          /\ [r EXCEPT !.off = @ + n].state = r.state /\ [r EXCEPT !.off = @ + n].req = r.req
          /\ [r EXCEPT !.off = @ + n].off = r.off + n /\ [r EXCEPT !.off = @ + n].total = r.total
      BY <2>1 DEF Client
    <2> QED
      BY <2>2, ActiveFields, Zenon
  <1>4. k2 \in Socket /\ k2.out = k.out + n /\ k2.done = k.done /\ k2.taken = k.taken /\ k2.sent = k.sent
    <2>1. k.out + n \in Nat /\ k.unread + n \in 0..SockCap
      BY <1>2
    <2> QED
      BY <2>1, Zenon DEF Socket
  <1>5. k2.out = ReplyEnd(r.conn, k.done - 1) + r2.off
    <2>1. k.done - 1 \in 0..Len(Frames[r.conn])
      BY <1>1, FrameFacts
    <2>2. ReplyEnd(r.conn, k.done - 1) \in Nat
      BY <1>1, <2>1, EndFacts, Zenon
    <2> QED
      BY <1>1, <1>3, <1>4, <2>2
  <1>6. r2.off <= r2.total
    BY <1>1, <1>3, SMTT(30)
  <1>7. InPlace(r2, r2.conn, k2)
    BY <1>1, <1>3, <1>4, <1>5, Zenon DEF InPlace
  <1> QED
    BY <1>1, <1>3, <1>4, <1>6, <1>7 DEF ClientInv

(* bloomd_client_reset_request, after the answer was written in full.      *)
LEMMA AnswerWritten ==
  ASSUME NEW r \in Client, NEW k \in Socket, ClientInv(r, k), r.state = "WRITE_RESPONSE", r.off = r.total
  PROVE  ResetRequest(r) \in Client /\ ClientInv(ResetRequest(r), k) /\ ResetRequest(r).conn = r.conn
  <1> DEFINE q == ResetRequest(r)
  <1>1. /\ r.conn \in Conns /\ r.req \in 1..Len(Frames[r.conn]) /\ HdrLen \in Nat
        /\ r.req = k.done /\ k.taken = ReqEnd(r.conn, k.done) /\ k.out = ReplyEnd(r.conn, k.done - 1) + r.off
        /\ r.total = Frames[r.conn][r.req].resp /\ k.taken <= k.sent /\ k.done <= Len(Frames[r.conn])
    BY LoopAssumption DEF ClientInv, InPlace
  <1>2. q \in Client /\ q.conn = r.conn /\ q.state = "READ_HEADER" /\ q.got = 0
    <2>1. 0 \in 0..HdrLen
      BY <1>1
    <2> QED
      BY <2>1, Zenon DEF ResetRequest, Client, States
  <1>3. k.out = ReplyEnd(r.conn, k.done)
    BY <1>1, EndFacts, Zenon
  <1>4. k.taken = ReqEnd(r.conn, k.done) + q.got
    <2>1. k.taken \in Nat
      BY ClientFields, Zenon
    <2> QED
      BY <1>1, <1>2, <2>1
  <1>5. InPlace(q, q.conn, k)
    BY <1>2, <1>3, <1>4 DEF InPlace
  <1> QED
    BY <1>1, <1>2, <1>5 DEF ClientInv

-----------------------------------------------------------------------------
(* The loop: what a step does to one slot leaves the others alone.         *)

TurnStep ==
  \A s \in Slots : events[s] # "none" /\ events'[s] # "none" => slot'[s].conn = slot[s].conn

LEMMA ContinueFacts ==
  ASSUME NEW ev
  PROVE  /\ Continue(ev) \in {"serve", "reap"}
         /\ Continue(ev) = "reap" => \A s \in Slots : ev[s] = "none"
  BY DEF Continue

(* A slot in use has a connection of its own, which is open.               *)
LEMMA SlotOpen ==
  ASSUME LoopInv, NEW s \in Slots, slot[s].conn # NoConn
  PROVE  /\ slot[s].conn \in Conns /\ link[slot[s].conn] = "open"
         /\ slot[s] \in Client /\ sock[slot[s].conn] \in Socket
         /\ ClientInv(slot[s], sock[slot[s].conn])
         /\ \A t \in Slots : t # s => slot[t].conn # slot[s].conn
  <1>1. slot[s] \in Client /\ ClientInv(slot[s], sock[slot[s].conn])
    BY Zenon DEF LoopInv, TypeOK, SlotInv
  <1>2. slot[s].conn \in Conns
    BY <1>1, Zenon DEF ClientInv
  <1> QED
    BY <1>1, <1>2, Zenon DEF LoopInv, TypeOK, OneSlotEach

LEMMA EmptyFacts ==
  /\ Empty \in Client /\ Empty.conn = NoConn /\ Empty.state = "EMPTY"
  /\ Fresh \in Socket /\ Fresh.taken = 0 /\ Fresh.out = 0 /\ Fresh.done = 0
  <1>1. 0 \in 0..HdrLen /\ 0 \in 0..(Timeout + 1) /\ 0 \in 0..SockCap
    BY LoopAssumption
  <1> QED
    BY <1>1 DEF Empty, Fresh, Client, Socket, States

(* The client of slot s goes on.                                           *)
LEMMA KeepStep ==
  ASSUME LoopInv, NEW s \in Slots, slot[s].conn # NoConn,
         NEW r \in Client, NEW k \in Socket, r.conn = slot[s].conn, ClientInv(r, k), Keep(s, r, k)
  PROVE  LoopInv' /\ TurnStep
  <1> DEFINE c == slot[s].conn
  <1>1. c \in Conns /\ link[c] = "open" /\ \A t \in Slots : t # s => slot[t].conn # c
    BY SlotOpen, Zenon
  <1>2. /\ slot \in [Slots -> Client] /\ sock \in [Conns -> Socket] /\ link \in [Conns -> {"none", "waiting", "open", "closed", "failed"}]
        /\ events \in [Slots -> {"none", "hup", "io"}] /\ backlog \in Seq(Conns) /\ stop \in BOOLEAN
    BY Zenon DEF LoopInv, TypeOK
  <1>3. /\ slot' = [slot EXCEPT ![s] = r] /\ sock' = [sock EXCEPT ![c] = k] /\ link' = link
        /\ events' = [events EXCEPT ![s] = "none"] /\ pc' = Continue(events')
        /\ backlog' = backlog /\ stop' = stop
    BY Zenon DEF Keep, Served
  <1>4. slot'[s] = r /\ \A t \in Slots : t # s => slot'[t] = slot[t]
    BY <1>2, <1>3, Zenon
  <1>5. sock'[c] = k /\ \A d \in Conns : d # c => sock'[d] = sock[d]
    BY <1>1, <1>2, <1>3, Zenon
  <1>6. \A t \in Slots : slot'[t].conn = slot[t].conn
    BY <1>4, Zenon
  <1>7. events'[s] = "none" /\ \A t \in Slots : t # s => events'[t] = events[t]
    BY <1>2, <1>3, Zenon
  <1>8. TypeOK'
    <2>1. pc' \in {"poll", "accept", "serve", "reap", "down"}
      BY <1>3, ContinueFacts
    <2>2. /\ slot' \in [Slots -> Client] /\ sock' \in [Conns -> Socket]
          /\ events' \in [Slots -> {"none", "hup", "io"}]
      BY <1>1, <1>2, <1>3, Zenon
    <2> QED
      BY <1>2, <1>3, <2>1, <2>2, Zenon DEF TypeOK
  <1>9. OneSlotEach'
    <2>1. OneSlotEach
      BY Zenon DEF LoopInv
    <2>2. ASSUME NEW d \in Conns PROVE link'[d] = "open" <=> \E t \in Slots : slot'[t].conn = d
      BY <1>3, <1>6, <2>1 DEF OneSlotEach
    <2>3. ASSUME NEW t \in Slots, NEW u \in Slots, slot'[t].conn = slot'[u].conn, slot'[t].conn # NoConn
          PROVE  t = u
      BY <1>6, <2>1, <2>3 DEF OneSlotEach
    <2> QED
      BY <2>2, <2>3, Zenon DEF OneSlotEach
  <1>10. SlotInv'
    <2> SUFFICES ASSUME NEW t \in Slots
                 PROVE  IF slot'[t].conn = NoConn THEN slot'[t].state = "EMPTY"
                                                  ELSE ClientInv(slot'[t], sock'[slot'[t].conn])
      BY Zenon DEF SlotInv
    <2>1. CASE t = s
      BY <1>4, <1>5, <2>1, Zenon
    <2>2. CASE t # s
      <3>1. slot[t].conn # NoConn => slot[t].conn \in Conns
        BY SlotOpen, Zenon
      <3>2. slot[t].conn # NoConn => sock'[slot[t].conn] = sock[slot[t].conn]
        BY <1>1, <1>5, <2>2, <3>1, Zenon
      <3> QED
        BY <1>4, <2>2, <3>2, Zenon DEF LoopInv, SlotInv
    <2> QED
      BY <2>1, <2>2, Zenon
  <1>11. ConnInv'
    BY <1>1, <1>3, <1>5, ZenonT(60) DEF LoopInv, ConnInv
  <1>12. BacklogInv'
    BY <1>3, Zenon DEF LoopInv, BacklogInv
  <1>13. EventInv'
    <2>1. pc' # "poll" /\ pc' # "down" /\ (pc' = "reap" => \A t \in Slots : events'[t] = "none")
      BY <1>3, ContinueFacts, Zenon
    <2>2. \A t \in Slots : events'[t] # "none" => slot'[t].conn # NoConn
      BY <1>6, <1>7, Zenon DEF LoopInv, EventInv
    <2> QED
      BY <2>1, <2>2, Zenon DEF EventInv
  <1>14. TurnStep
    BY <1>6, Zenon DEF TurnStep
  <1> QED
    BY <1>8, <1>9, <1>10, <1>11, <1>12, <1>13, <1>14, Zenon DEF LoopInv

(* bloomd_client_close of slot s.                                          *)
LEMMA CloseStep ==
  ASSUME LoopInv, NEW s \in Slots, slot[s].conn # NoConn,
         NEW how \in {"closed", "failed"}, CloseClient(s, how)
  PROVE  LoopInv' /\ TurnStep
  <1> DEFINE c == slot[s].conn
  <1>1. c \in Conns /\ link[c] = "open" /\ \A t \in Slots : t # s => slot[t].conn # c
    BY SlotOpen, Zenon
  <1>2. /\ slot \in [Slots -> Client] /\ sock \in [Conns -> Socket] /\ link \in [Conns -> {"none", "waiting", "open", "closed", "failed"}]
        /\ events \in [Slots -> {"none", "hup", "io"}] /\ backlog \in Seq(Conns) /\ stop \in BOOLEAN
    BY Zenon DEF LoopInv, TypeOK
  <1>3. /\ slot' = [slot EXCEPT ![s] = Empty] /\ sock' = [sock EXCEPT ![c] = Fresh]
        /\ link' = [link EXCEPT ![c] = how]
        /\ events' = [events EXCEPT ![s] = "none"] /\ pc' = Continue(events')
        /\ backlog' = backlog /\ stop' = stop
    BY Zenon DEF CloseClient, Served
  <1>4. slot'[s] = Empty /\ \A t \in Slots : t # s => slot'[t] = slot[t]
    BY <1>2, <1>3, Zenon
  <1>5. sock'[c] = Fresh /\ link'[c] = how /\ \A d \in Conns : d # c => sock'[d] = sock[d] /\ link'[d] = link[d]
    BY <1>1, <1>2, <1>3, Zenon
  <1>6. slot'[s].conn = NoConn /\ \A t \in Slots : t # s => slot'[t].conn = slot[t].conn
    BY <1>4, EmptyFacts, Zenon
  <1>7. events'[s] = "none" /\ \A t \in Slots : t # s => events'[t] = events[t]
    BY <1>2, <1>3, Zenon
  <1>8. TypeOK'
    <2>1. pc' \in {"poll", "accept", "serve", "reap", "down"}
      BY <1>3, ContinueFacts
    <2>2. how \in {"none", "waiting", "open", "closed", "failed"}
      OBVIOUS
    <2>3. /\ slot' \in [Slots -> Client] /\ sock' \in [Conns -> Socket]
          /\ events' \in [Slots -> {"none", "hup", "io"}]
          /\ link' \in [Conns -> {"none", "waiting", "open", "closed", "failed"}]
      BY <1>1, <1>2, <1>3, <2>2, EmptyFacts, Zenon
    <2> QED
      BY <1>2, <1>3, <2>1, <2>3, Zenon DEF TypeOK
  <1>9. OneSlotEach'
    <2>1. c # NoConn /\ how # "open"
      OBVIOUS
    <2>2. OneSlotEach
      BY Zenon DEF LoopInv
    <2>3. ASSUME NEW d \in Conns PROVE link'[d] = "open" <=> \E t \in Slots : slot'[t].conn = d
      <3>1. NoConn # d
        BY LoopAssumption, Zenon
      <3>2. CASE d = c
        BY <1>1, <1>5, <1>6, <2>1, <3>1, <3>2, Zenon
      <3>3. CASE d # c
        BY <1>5, <1>6, <2>2, <3>1, <3>3 DEF OneSlotEach
      <3> QED
        BY <3>2, <3>3, Zenon
    <2>4. ASSUME NEW t \in Slots, NEW u \in Slots, slot'[t].conn = slot'[u].conn, slot'[t].conn # NoConn
          PROVE  t = u
      BY <1>6, <2>2, <2>4 DEF OneSlotEach
    <2> QED
      BY <2>3, <2>4, Zenon DEF OneSlotEach
  <1>10. SlotInv'
    <2> SUFFICES ASSUME NEW t \in Slots
                 PROVE  IF slot'[t].conn = NoConn THEN slot'[t].state = "EMPTY"
                                                  ELSE ClientInv(slot'[t], sock'[slot'[t].conn])
      BY Zenon DEF SlotInv
    <2>1. CASE t = s
      BY <1>4, <1>6, <2>1, EmptyFacts, Zenon
    <2>2. CASE t # s
      <3>1. slot[t].conn # NoConn => slot[t].conn \in Conns
        BY SlotOpen, Zenon
      <3>2. slot[t].conn # NoConn => sock'[slot[t].conn] = sock[slot[t].conn]
        BY <1>1, <1>5, <2>2, <3>1, Zenon
      <3> QED
        BY <1>4, <2>2, <3>2, Zenon DEF LoopInv, SlotInv
    <2> QED
      BY <2>1, <2>2, Zenon
  <1>11. ConnInv'
    BY <1>5, EmptyFacts, Zenon DEF LoopInv, ConnInv
  <1>12. BacklogInv'
    <2>1. \A i \in 1..Len(backlog) : backlog[i] \in Conns
      BY <1>2
    <2>2. \A i \in 1..Len(backlog) : link'[backlog[i]] = "waiting"
      BY <1>1, <1>5, <2>1, Zenon DEF LoopInv, BacklogInv
    <2> QED
      BY <1>3, <2>2, Zenon DEF LoopInv, BacklogInv
  <1>13. EventInv'
    <2>1. pc' # "poll" /\ pc' # "down" /\ (pc' = "reap" => \A t \in Slots : events'[t] = "none")
      BY <1>3, ContinueFacts, Zenon
    <2>2. \A t \in Slots : events'[t] # "none" => slot'[t].conn # NoConn
      BY <1>6, <1>7, Zenon DEF LoopInv, EventInv
    <2> QED
      BY <2>1, <2>2, Zenon DEF EventInv
  <1>14. TurnStep
    BY <1>6, <1>7, Zenon DEF TurnStep
  <1> QED
    BY <1>8, <1>9, <1>10, <1>11, <1>12, <1>13, <1>14, Zenon DEF LoopInv

(* bloomd_dispatch, or no memory for it.                                   *)
LEMMA DispatchStep ==
  ASSUME LoopInv, NEW s \in Slots, slot[s].conn # NoConn,
         NEW r \in Client, NEW k \in Socket, r.conn = slot[s].conn, r.conn \in Conns,
         r.req = k.done + 1, r.req \in 1..Len(Frames[r.conn]), k.taken <= k.sent,
         k.taken = ReqEnd(r.conn, k.done) + HdrLen + Frames[r.conn][r.req].body,
         k.out = ReplyEnd(r.conn, k.done), Dispatch(s, r, k)
  PROVE  LoopInv' /\ TurnStep
  <1> DEFINE r2 == [r EXCEPT !.off = 0, !.total = Frames[r.conn][r.req].resp, !.state = "WRITE_RESPONSE"]
             k2 == [k EXCEPT !.done = @ + 1]
  <1>1. r2 \in Client /\ k2 \in Socket /\ ClientInv(r2, k2) /\ r2.conn = r.conn
    <2> HIDE DEF r2, k2
    <2> QED
      BY Dispatched, Zenon DEF r2, k2
  <1>2. Keep(s, r2, k2) \/ CloseClient(s, "failed")
    BY Zenon DEF Dispatch
  <1> HIDE DEF r2, k2
  <1>3. CASE Keep(s, r2, k2)
    BY <1>1, <1>3, KeepStep, Zenon
  <1>4. CASE CloseClient(s, "failed")
    BY <1>4, CloseStep, Zenon
  <1> QED
    BY <1>2, <1>3, <1>4, Zenon

(* A client that poll reported is in its slot.                             *)
LEMMA TurnOpen ==
  ASSUME LoopInv, NEW s \in Slots, NEW e \in {"hup", "io"}, Turn(s, e)
  PROVE  slot[s].conn # NoConn
  <1>1. events[s] # "none"
    BY DEF Turn
  <1> QED
    BY <1>1, Zenon DEF LoopInv, EventInv

LEMMA HeaderStep ==
  ASSUME LoopInv, NEW s \in Slots, ReadHeader(s)
  PROVE  LoopInv' /\ TurnStep
  <1> DEFINE c  == slot[s].conn
             n  == Got(sock[c], HdrLen - slot[s].got)
             k  == [sock[c] EXCEPT !.taken = @ + n]
             r  == Active([slot[s] EXCEPT !.got = @ + n], n)
             q  == [r EXCEPT !.req = FrameAt(c, k.taken - HdrLen)]
  <1>1. c # NoConn
    BY TurnOpen, Zenon DEF ReadHeader
  <1>2. /\ c \in Conns /\ slot[s] \in Client /\ sock[c] \in Socket /\ ClientInv(slot[s], sock[c])
        /\ slot[s].state = "READ_HEADER"
    BY <1>1, SlotOpen, Zenon DEF ReadHeader
  <1>3. HdrLen \in Nat /\ slot[s].got \in 0..HdrLen
    BY <1>2, ClientFields, LoopAssumption
  <1>4. n \in 0..(HdrLen - slot[s].got) /\ sock[c].taken + n <= sock[c].sent
    <2>1. HdrLen - slot[s].got \in Nat
      BY <1>3
    <2>2. sock[c].taken <= sock[c].sent
      BY <1>2, Zenon DEF ClientInv
    <2> QED
      BY <1>2, <2>1, <2>2, GotFacts, Zenon
  <1>5. IF r.got < HdrLen THEN ReadAgain(s, r, k) ELSE HeaderRead(s, q, k)
    BY Zenon DEF ReadHeader
  <1> HIDE DEF n
  <1>6. r = Active([slot[s] EXCEPT !.got = @ + n], n) /\ k = [sock[c] EXCEPT !.taken = @ + n]
    OBVIOUS
  <1> HIDE DEF k, r, q
  <1>7. /\ r \in Client /\ k \in Socket /\ ClientInv(r, k) /\ r.conn = c /\ r.state = "READ_HEADER"
        /\ r.got = slot[s].got + n
    <2>1. TakesHeader(slot[s], sock[c], n, r, k)
      BY <1>2, <1>4, <1>6, Zenon DEF TakesHeader
    <2> QED
      BY <2>1, HeaderPart, SMTT(30)
  <1>8. CASE r.got < HdrLen
    <2>1. CASE Keep(s, r, k)
      BY <1>1, <1>7, <2>1, KeepStep, Zenon
    <2>2. CASE CloseClient(s, "closed")
      BY <1>1, <2>2, CloseStep, Zenon
    <2> QED
      BY <1>5, <1>8, <2>1, <2>2, Zenon DEF ReadAgain
  <1>9. CASE ~(r.got < HdrLen)
    <2>1. r.got = HdrLen
      BY <1>3, <1>4, <1>7, <1>9
    <2>2. HeaderRead(s, q, k)
      BY <1>5, <1>9, Zenon
    <2>3. CASE CloseClient(s, "closed") \/ CloseClient(s, "failed")
      BY <1>1, <2>3, CloseStep, Zenon
    <2>4. CASE q.req # 0
      <3>1. /\ q \in Client /\ q.conn = c /\ q.req = k.done + 1 /\ q.req \in 1..Len(Frames[c])
            /\ k.taken = ReqEnd(c, k.done) + HdrLen /\ k.out = ReplyEnd(c, k.done)
        <4>1. q = [r EXCEPT !.req = FrameAt(r.conn, k.taken - HdrLen)]
          BY <1>7, Zenon DEF q
        <4> QED
          BY <1>7, <2>1, <2>4, <4>1, HeaderComplete, ZenonT(60)
      <3>2. k.taken <= k.sent
        BY <1>7, Zenon DEF ClientInv
      <3>3. CASE Dispatch(s, q, k) /\ Frames[c][q.req].body = 0
        <4>1. k.taken \in Nat
          BY <1>7, ClientFields, Zenon
        <4>2. k.taken = ReqEnd(c, k.done) + HdrLen + Frames[c][q.req].body
          <5>1. k.taken = k.taken + 0
            BY <4>1
          <5> QED
            BY <3>1, <3>3, <5>1, Zenon
        <4> QED
          BY <1>1, <1>2, <1>7, <3>1, <3>2, <3>3, <4>2, DispatchStep, Zenon
      <3>4. CASE Keep(s, [q EXCEPT !.body = 0, !.state = "READ_BODY"], k)
        <4> DEFINE b == [q EXCEPT !.body = 0, !.state = "READ_BODY"]
        <4>1. b \in Client /\ ClientInv(b, k) /\ b.conn = c
          <5> HIDE DEF b
          <5> QED
            BY <1>2, <1>7, <3>1, <3>2, BodyBegins, Zenon DEF b
        <4> HIDE DEF b
        <4>2. Keep(s, b, k)
          BY <3>4, Zenon DEF b
        <4> QED
          BY <1>1, <1>7, <4>1, <4>2, KeepStep, Zenon
      <3> QED
        BY <2>2, <2>3, <3>1, <3>3, <3>4, Zenon DEF HeaderRead
    <2>5. CASE q.req = 0
      BY <2>2, <2>3, <2>5, Zenon DEF HeaderRead
    <2> QED
      BY <2>4, <2>5, Zenon
  <1> QED
    BY <1>8, <1>9, Zenon

LEMMA BodyStep ==
  ASSUME LoopInv, NEW s \in Slots, ReadBody(s)
  PROVE  LoopInv' /\ TurnStep
  <1> DEFINE c   == slot[s].conn
             len == Frames[c][slot[s].req].body
             n   == Got(sock[c], len - slot[s].body)
             k   == [sock[c] EXCEPT !.taken = @ + n]
             r   == Active([slot[s] EXCEPT !.body = @ + n], n)
  <1>1. c # NoConn
    BY TurnOpen, Zenon DEF ReadBody
  <1>2. /\ c \in Conns /\ slot[s] \in Client /\ sock[c] \in Socket /\ ClientInv(slot[s], sock[c])
        /\ slot[s].state = "READ_BODY"
    BY <1>1, SlotOpen, Zenon DEF ReadBody
  <1>3. len \in Nat /\ slot[s].body \in Nat /\ slot[s].body <= len /\ slot[s].req \in 1..Len(Frames[c])
    <2>1. slot[s].body <= len /\ slot[s].req \in 1..Len(Frames[c])
      BY <1>2, Zenon DEF ClientInv
    <2> QED
      BY <1>2, <2>1, ClientFields, FrameFacts, Zenon
  <1>4. IF r.body < len THEN ReadAgain(s, r, k) ELSE Dispatch(s, r, k)
    BY Zenon DEF ReadBody
  <1>5. n \in 0..(len - slot[s].body) /\ sock[c].taken + n <= sock[c].sent
    <2> HIDE DEF len
    <2>1. len - slot[s].body \in Nat
      BY <1>3
    <2>2. sock[c].taken <= sock[c].sent
      BY <1>2, Zenon DEF ClientInv
    <2> QED
      BY <1>2, <2>1, <2>2, GotFacts, Zenon
  <1> HIDE DEF n
  <1>6. r = Active([slot[s] EXCEPT !.body = @ + n], n) /\ k = [sock[c] EXCEPT !.taken = @ + n]
    BY SMTT(30)
  <1> HIDE DEF k, r
  <1>7. /\ r \in Client /\ k \in Socket /\ ClientInv(r, k) /\ r.conn = c /\ r.state = "READ_BODY"
        /\ r.req = slot[s].req /\ r.body = slot[s].body + n
    <2>1. TakesBody(slot[s], sock[c], n, r, k)
      BY <1>2, <1>5, <1>6, Zenon DEF TakesBody
    <2> QED
      BY <2>1, BodyPart, SMTT(30)
  <1>8. CASE r.body < len
    <2>1. CASE Keep(s, r, k)
      BY <1>1, <1>7, <2>1, KeepStep, Zenon
    <2>2. CASE CloseClient(s, "closed")
      BY <1>1, <2>2, CloseStep, Zenon
    <2> QED
      BY <1>4, <1>8, <2>1, <2>2, Zenon DEF ReadAgain
  <1>9. CASE ~(r.body < len)
    <2>1. r.body = len
      <3> HIDE DEF len
      <3> QED
        BY <1>3, <1>5, <1>7, <1>9, SMTT(30)
    <2>2. /\ r.req = k.done + 1 /\ k.taken = ReqEnd(c, k.done) + HdrLen + r.body
          /\ k.out = ReplyEnd(c, k.done) /\ k.taken <= k.sent
      BY <1>7 DEF ClientInv, InPlace
    <2>3. k.taken = ReqEnd(r.conn, k.done) + HdrLen + Frames[r.conn][r.req].body
      BY <1>7, <2>1, <2>2, Zenon
    <2>4. Dispatch(s, r, k)
      BY <1>4, <1>9, Zenon
    <2> QED
      BY <1>1, <1>2, <1>3, <1>7, <2>2, <2>3, <2>4, DispatchStep, Zenon
  <1> QED
    BY <1>8, <1>9, Zenon

LEMMA WriteStep ==
  ASSUME LoopInv, NEW s \in Slots, WriteResponse(s)
  PROVE  LoopInv' /\ TurnStep
  <1> DEFINE c    == slot[s].conn
             room == SockCap - sock[c].unread
             left == slot[s].total - slot[s].off
             n    == IF room < left THEN room ELSE left
             k    == [sock[c] EXCEPT !.out = @ + n, !.unread = @ + n]
             r    == Active([slot[s] EXCEPT !.off = @ + n], n)
  <1>1. c # NoConn
    BY TurnOpen, Zenon DEF WriteResponse
  <1>2. /\ c \in Conns /\ slot[s] \in Client /\ sock[c] \in Socket /\ ClientInv(slot[s], sock[c])
        /\ slot[s].state = "WRITE_RESPONSE"
    BY <1>1, SlotOpen, Zenon DEF WriteResponse
  <1>3. /\ slot[s].total \in Nat /\ slot[s].off \in Nat /\ sock[c].unread \in 0..SockCap /\ SockCap \in Nat
        /\ slot[s].off <= slot[s].total
    <2>1. slot[s].off <= slot[s].total
      BY <1>2, Zenon DEF ClientInv
    <2>2. SockCap \in Nat
      BY LoopAssumption
    <2> QED
      BY <1>2, <2>1, <2>2, ClientFields, Zenon
  <1>4. n \in Nat /\ n <= left /\ n <= room
    BY <1>3
  <1>5. CloseClient(s, "closed") \/ Keep(s, IF n = left THEN ResetRequest(r) ELSE r, k)
    BY Zenon DEF WriteResponse
  <1> HIDE DEF n
  <1>6. r = Active([slot[s] EXCEPT !.off = @ + n], n) /\ k = [sock[c] EXCEPT !.out = @ + n, !.unread = @ + n]
    OBVIOUS
  <1> HIDE DEF k, r
  <1>7. /\ r \in Client /\ k \in Socket /\ ClientInv(r, k) /\ r.conn = c /\ r.state = "WRITE_RESPONSE"
        /\ r.off = slot[s].off + n /\ r.total = slot[s].total
    <2>1. Answers(slot[s], sock[c], n, r, k)
      BY <1>2, <1>4, <1>6, Zenon DEF Answers
    <2> QED
      BY <2>1, AnswerPart, SMTT(30)
  <1>8. CASE CloseClient(s, "closed")
    BY <1>1, <1>8, CloseStep, Zenon
  <1>9. CASE n # left /\ Keep(s, r, k)
    BY <1>1, <1>7, <1>9, KeepStep, Zenon
  <1>10. CASE n = left /\ Keep(s, ResetRequest(r), k)
    <2>1. r.off = r.total
      BY <1>3, <1>7, <1>10
    <2>2. ResetRequest(r) \in Client /\ ClientInv(ResetRequest(r), k) /\ ResetRequest(r).conn = c
      BY <1>7, <2>1, AnswerWritten, Zenon
    <2> QED
      BY <1>1, <1>7, <1>10, <2>2, KeepStep, Zenon
  <1> QED
    BY <1>5, <1>8, <1>9, <1>10, Zenon

LEMMA ServeStep ==
  ASSUME LoopInv, NEW s \in Slots, Serve(s)
  PROVE  LoopInv' /\ TurnStep
  <1>1. CASE ServeHangup(s)
    <2>1. Turn(s, "hup") /\ CloseClient(s, "closed")
      BY <1>1, Zenon DEF ServeHangup
    <2> QED
      BY <2>1, TurnOpen, CloseStep, Zenon
  <1> QED
    BY <1>1, HeaderStep, BodyStep, WriteStep, Zenon DEF Serve

-----------------------------------------------------------------------------
(* Accepting.                                                              *)

(* bloomd_find_free_client finds a slot if there is one, and nobody is in  *)
(* it.                                                                     *)
LEMMA FreeFacts ==
  ASSUME LoopInv, Free # {}
  PROVE  FreeSlot \in Slots /\ slot[FreeSlot].conn = NoConn
  <1>1. Free \in SUBSET Nat
    BY LoopAssumption DEF Free, Slots
  <1>2. \E s \in Free : \A t \in Free : s <= t
    BY <1>1, Least, Zenon
  <1>3. FreeSlot \in Free
    BY <1>2, Zenon DEF FreeSlot
  <1>4. FreeSlot \in Slots /\ slot[FreeSlot].state = "EMPTY"
    BY <1>3, Zenon DEF Free
  <1> QED
    BY <1>4, Zenon DEF LoopInv, SlotInv, ClientInv

(* The first of those who wait leaves the backlog.                         *)
LEMMA BacklogStep ==
  ASSUME LoopInv, backlog # <<>>, NEW how \in {"open", "failed"},
         link' = [link EXCEPT ![Head(backlog)] = how], backlog' = Tail(backlog)
  PROVE  /\ Head(backlog) \in Conns /\ link[Head(backlog)] = "waiting"
         /\ backlog' \in Seq(Conns) /\ BacklogInv'
  <1>1. backlog \in Seq(Conns) /\ link \in [Conns -> {"none", "waiting", "open", "closed", "failed"}]
    BY Zenon DEF LoopInv, TypeOK
  <1>2. /\ \A i \in 1..Len(backlog) : link[backlog[i]] = "waiting"
        /\ \A i, j \in 1..Len(backlog) : backlog[i] = backlog[j] => i = j
    BY Zenon DEF LoopInv, BacklogInv
  <1>3. Head(backlog) = backlog[1] /\ 1 \in 1..Len(backlog)
    BY <1>1
  <1>4. /\ Tail(backlog) \in Seq(Conns)
        /\ \A i \in 1..Len(Tail(backlog)) :
             /\ Tail(backlog)[i] = backlog[i + 1] /\ i + 1 \in 1..Len(backlog) /\ i + 1 # 1
             /\ backlog[i + 1] \in Conns
    BY <1>1
  <1>5. \A i \in 1..Len(Tail(backlog)) : link'[Tail(backlog)[i]] = "waiting"
    <2> SUFFICES ASSUME NEW i \in 1..Len(Tail(backlog)) PROVE link'[Tail(backlog)[i]] = "waiting"
      BY Zenon
    <2>1. backlog[i + 1] # Head(backlog)
      BY <1>2, <1>3, <1>4, Zenon
    <2>2. link'[backlog[i + 1]] = link[backlog[i + 1]]
      BY <1>1, <1>4, <2>1, Zenon
    <2> QED
      BY <1>2, <1>4, <2>2, Zenon
  <1>6. \A i, j \in 1..Len(Tail(backlog)) : Tail(backlog)[i] = Tail(backlog)[j] => i = j
    <2> SUFFICES ASSUME NEW i \in 1..Len(Tail(backlog)), NEW j \in 1..Len(Tail(backlog)),
                        Tail(backlog)[i] = Tail(backlog)[j]
                 PROVE  i = j
      BY Zenon
    <2>1. backlog[i + 1] = backlog[j + 1] /\ i + 1 \in 1..Len(backlog) /\ j + 1 \in 1..Len(backlog)
      BY <1>4, Zenon
    <2>2. i + 1 = j + 1
      BY <1>2, <2>1, Zenon
    <2>3. i \in Int /\ j \in Int
      OBVIOUS
    <2> QED
      BY <2>2, <2>3
  <1>7. BacklogInv'
    <2>1. /\ \A i \in 1..Len(backlog') : link'[backlog'[i]] = "waiting"
          /\ \A i, j \in 1..Len(backlog') : backlog'[i] = backlog'[j] => i = j
      BY <1>5, <1>6
    <2> QED
      BY <2>1, Zenon DEF BacklogInv
  <1>8. Head(backlog) \in Conns /\ link[Head(backlog)] = "waiting"
    BY <1>1, <1>2, <1>3
  <1> QED
    BY <1>4, <1>7, <1>8, Zenon

(* bloomd_client_init: the new client waits for its first request.         *)
LEMMA NewClientFacts ==
  ASSUME NEW c \in Conns, NEW k \in Socket, k.taken = 0, k.out = 0, k.done = 0
  PROVE  NewClient(c) \in Client /\ NewClient(c).conn = c /\ ClientInv(NewClient(c), k)
  <1>1. Empty \in Client
    BY EmptyFacts, Zenon
  <1>2. Empty.got = 0
    BY DEF Empty
  <1> DEFINE r == NewClient(c)
  <1> HIDE DEF r
  <1>3. r \in Client /\ r.conn = c /\ r.state = "READ_HEADER" /\ r.got = 0
    BY <1>1, <1>2, Zenon DEF Client, States, NewClient, r
  <1>4. Len(Frames[c]) \in Nat /\ k.sent \in Nat
    BY <1>3, FrameFacts, ClientFields, Zenon
  <1>5. k.taken <= k.sent /\ k.done <= Len(Frames[c])
    BY <1>4
  <1>6. k.taken = ReqEnd(c, k.done) + r.got /\ k.out = ReplyEnd(c, k.done)
    BY <1>3 DEF ReqEnd, ReplyEnd
  <1>7. InPlace(r, r.conn, k)
    BY <1>3, <1>6 DEF InPlace
  <1>8. ClientInv(r, k)
    BY <1>3, <1>5, <1>7 DEF ClientInv
  <1> QED
    BY <1>3, <1>8, Zenon DEF r

(* A connection that gets a slot.                                          *)
LEMMA AcceptStep ==
  ASSUME LoopInv, pc = "accept", backlog # <<>>, Free # {},
         link' = [link EXCEPT ![Head(backlog)] = "open"],
         slot' = [slot EXCEPT ![FreeSlot] = NewClient(Head(backlog))], sock' = sock,
         backlog' = Tail(backlog), pc' = pc, events' = events, stop' = stop
  PROVE  LoopInv' /\ TurnStep
  <1> DEFINE c == Head(backlog)
             f == FreeSlot
             r == NewClient(c)
  <1>1. f \in Slots /\ slot[f].conn = NoConn
    BY FreeFacts, Zenon
  <1>2. /\ slot \in [Slots -> Client] /\ sock \in [Conns -> Socket] /\ link \in [Conns -> {"none", "waiting", "open", "closed", "failed"}]
        /\ events \in [Slots -> {"none", "hup", "io"}] /\ stop \in BOOLEAN
    BY Zenon DEF LoopInv, TypeOK
  <1>3. c \in Conns /\ link[c] = "waiting" /\ backlog' \in Seq(Conns) /\ BacklogInv'
    BY BacklogStep, Zenon
  <1>4. r \in Client /\ r.conn = c /\ ClientInv(r, sock[c])
    <2>1. link[c] # "open"
      BY <1>3
    <2>2. sock[c] \in Socket /\ sock[c].taken = 0 /\ sock[c].out = 0 /\ sock[c].done = 0
      BY <1>2, <1>3, <2>1, Zenon DEF LoopInv, ConnInv
    <2> DEFINE k == sock[c]
    <2>3. k \in Socket /\ k.taken = 0 /\ k.out = 0 /\ k.done = 0
      BY <2>2, Zenon
    <2> HIDE DEF c, k
    <2>4. NewClient(c) \in Client /\ NewClient(c).conn = c /\ ClientInv(NewClient(c), k)
      BY <1>3, <2>3, NewClientFacts
    <2> QED
      BY <2>4, Zenon DEF k
  <1>5. slot' = [slot EXCEPT ![f] = r] /\ link' = [link EXCEPT ![c] = "open"]
    OBVIOUS
  <1> HIDE DEF c, f, r
  <1>6. slot'[f] = r /\ \A t \in Slots : t # f => slot'[t] = slot[t]
    BY <1>1, <1>2, <1>5, Zenon
  <1>7. link'[c] = "open" /\ \A d \in Conns : d # c => link'[d] = link[d]
    BY <1>2, <1>3, <1>5, Zenon
  <1>8. TypeOK'
    <2>1. slot' \in [Slots -> Client] /\ link' \in [Conns -> {"none", "waiting", "open", "closed", "failed"}]
      <3>1. slot' \in [Slots -> Client]
        BY <1>1, <1>2, <1>4, <1>5, Zenon
      <3>2. link' \in [Conns -> {"none", "waiting", "open", "closed", "failed"}]
        BY <1>2, <1>3, <1>5
      <3> QED
        BY <3>1, <3>2, Zenon
    <2>2. pc' \in {"poll", "accept", "serve", "reap", "down"}
      OBVIOUS
    <2> QED
      BY <1>2, <1>3, <2>1, <2>2, Zenon DEF TypeOK
  <1>9. OneSlotEach'
    <2>1. OneSlotEach
      BY Zenon DEF LoopInv
    <2>2. c # NoConn /\ \A t \in Slots : slot[t].conn # c
      <3>1. c # NoConn
        BY <1>3, LoopAssumption, Zenon
      <3>2. link[c] # "open"
        BY <1>3
      <3> QED
        BY <1>3, <2>1, <3>1, <3>2 DEF OneSlotEach
    <2>3. ASSUME NEW d \in Conns PROVE link'[d] = "open" <=> \E t \in Slots : slot'[t].conn = d
      <3>1. NoConn # d
        BY LoopAssumption, Zenon
      <3>2. CASE d = c
        BY <1>1, <1>4, <1>6, <1>7, <3>2, Zenon
      <3>3. CASE d # c
        BY <1>1, <1>4, <1>6, <1>7, <2>1, <3>1, <3>3 DEF OneSlotEach
      <3> QED
        BY <3>2, <3>3, Zenon
    <2>4. ASSUME NEW t \in Slots, NEW u \in Slots, slot'[t].conn = slot'[u].conn, slot'[t].conn # NoConn
          PROVE  t = u
      BY <1>4, <1>6, <2>1, <2>2, <2>4 DEF OneSlotEach
    <2> QED
      BY <2>3, <2>4, Zenon DEF OneSlotEach
  <1>10. SlotInv'
    <2> SUFFICES ASSUME NEW t \in Slots
                 PROVE  IF slot'[t].conn = NoConn THEN slot'[t].state = "EMPTY"
                                                  ELSE ClientInv(slot'[t], sock'[slot'[t].conn])
      BY Zenon DEF SlotInv
    <2>1. CASE t = f
      <3>1. c # NoConn
        BY <1>3, LoopAssumption, Zenon
      <3> QED
        BY <1>4, <1>6, <2>1, <3>1, Zenon
    <2>2. CASE t # f
      BY <1>6, <2>2, Zenon DEF LoopInv, SlotInv
    <2> QED
      BY <2>1, <2>2, Zenon
  <1>11. ConnInv'
    BY <1>7, Zenon DEF LoopInv, ConnInv
  <1>12. \A t \in Slots : events[t] # "none" => t # f
    BY <1>1, Zenon DEF LoopInv, EventInv
  <1>13. EventInv'
    BY <1>6, <1>12, Zenon DEF LoopInv, EventInv
  <1>14. TurnStep
    BY <1>6, <1>12, Zenon DEF TurnStep
  <1> QED
    BY <1>3, <1>8, <1>9, <1>10, <1>11, <1>13, <1>14, Zenon DEF LoopInv

(* A connection that is closed as soon as it is accepted.                  *)
LEMMA RefuseStep ==
  ASSUME LoopInv, pc = "accept", backlog # <<>>,
         link' = [link EXCEPT ![Head(backlog)] = "failed"],
         sock' = [sock EXCEPT ![Head(backlog)] = Fresh], slot' = slot,
         backlog' = Tail(backlog), pc' = pc, events' = events, stop' = stop
  PROVE  LoopInv' /\ TurnStep
  <1> DEFINE c == Head(backlog)
  <1>1. /\ slot \in [Slots -> Client] /\ sock \in [Conns -> Socket] /\ link \in [Conns -> {"none", "waiting", "open", "closed", "failed"}]
        /\ events \in [Slots -> {"none", "hup", "io"}] /\ stop \in BOOLEAN
    BY Zenon DEF LoopInv, TypeOK
  <1>2. c \in Conns /\ link[c] = "waiting" /\ backlog' \in Seq(Conns) /\ BacklogInv'
    BY BacklogStep, Zenon
  <1>3. link' = [link EXCEPT ![c] = "failed"] /\ sock' = [sock EXCEPT ![c] = Fresh]
    OBVIOUS
  <1> HIDE DEF c
  <1>4. /\ link'[c] = "failed" /\ sock'[c] = Fresh
        /\ \A d \in Conns : d # c => link'[d] = link[d] /\ sock'[d] = sock[d]
    BY <1>1, <1>2, <1>3, Zenon
  <1>5. TypeOK'
    <2>1. sock' \in [Conns -> Socket] /\ link' \in [Conns -> {"none", "waiting", "open", "closed", "failed"}]
      <3>1. sock' \in [Conns -> Socket]
        BY <1>1, <1>2, <1>3, EmptyFacts, Zenon
      <3>2. link' \in [Conns -> {"none", "waiting", "open", "closed", "failed"}]
        BY <1>1, <1>2, <1>3
      <3> QED
        BY <3>1, <3>2, Zenon
    <2>2. pc' \in {"poll", "accept", "serve", "reap", "down"}
      OBVIOUS
    <2> QED
      BY <1>1, <1>2, <2>1, <2>2, Zenon DEF TypeOK
  <1>6. \A t \in Slots : slot[t].conn # c
    <2>1. link[c] # "open"
      BY <1>2
    <2>2. OneSlotEach
      BY Zenon DEF LoopInv
    <2> QED
      BY <1>2, <2>1, <2>2 DEF OneSlotEach
  <1>7. OneSlotEach'
    <2>1. OneSlotEach
      BY Zenon DEF LoopInv
    <2>2. ASSUME NEW d \in Conns PROVE link'[d] = "open" <=> \E t \in Slots : slot'[t].conn = d
      <3>1. CASE d = c
        BY <1>4, <1>6, <3>1
      <3>2. CASE d # c
        BY <1>4, <2>1, <3>2 DEF OneSlotEach
      <3> QED
        BY <3>1, <3>2, Zenon
    <2> QED
      BY <2>1, <2>2, Zenon DEF OneSlotEach
  <1>8. SlotInv'
    <2> SUFFICES ASSUME NEW t \in Slots
                 PROVE  IF slot'[t].conn = NoConn THEN slot'[t].state = "EMPTY"
                                                  ELSE ClientInv(slot'[t], sock'[slot'[t].conn])
      BY Zenon DEF SlotInv
    <2>1. slot[t].conn # NoConn => sock'[slot[t].conn] = sock[slot[t].conn]
      BY <1>4, <1>6, SlotOpen, Zenon
    <2> QED
      BY <2>1, Zenon DEF LoopInv, SlotInv
  <1>9. ConnInv'
    BY <1>4, EmptyFacts, ZenonT(60) DEF LoopInv, ConnInv
  <1>10. EventInv' /\ TurnStep
    BY Zenon DEF LoopInv, EventInv, TurnStep
  <1> QED
    BY <1>2, <1>5, <1>7, <1>8, <1>9, <1>10, Zenon DEF LoopInv

-----------------------------------------------------------------------------
(* The clients and the clock: the place of the daemon in the streams is    *)
(* not theirs to change.                                                   *)

LEMMA SamePlace ==
  ASSUME NEW r \in Client, NEW k \in Socket, ClientInv(r, k), NEW r2 \in Client, NEW k2 \in Socket,
         r2.conn = r.conn, r2.state = r.state, r2.got = r.got, r2.body = r.body, r2.req = r.req,
         r2.off = r.off, r2.total = r.total,
         k2.taken = k.taken, k2.out = k.out, k2.done = k.done, k.sent <= k2.sent
  PROVE  ClientInv(r2, k2)
  <1>1. k2.taken <= k2.sent
    <2>1. k.taken <= k.sent
      BY Zenon DEF ClientInv
    <2>2. k.taken \in Nat /\ k.sent \in Nat /\ k2.sent \in Nat
      BY ClientFields, Zenon
    <2> QED
      BY <2>1, <2>2
  <1>2. InPlace(r2, r2.conn, k2)
    <2>1. InPlace(r, r.conn, k)
      BY Zenon DEF ClientInv
    <2> QED
      BY <2>1, Zenon DEF InPlace
  <1> QED
    BY <1>1, <1>2, Zenon DEF ClientInv

(* A client sends, reads or hangs up: its streams become k.                *)
LEMMA PeerStep ==
  ASSUME LoopInv, NEW c \in Conns, NEW k \in Socket, sock' = [sock EXCEPT ![c] = k],
         k.taken = sock[c].taken, k.out = sock[c].out, k.done = sock[c].done, sock[c].sent <= k.sent,
         link' = link, slot' = slot, backlog' = backlog, pc' = pc, events' = events, stop' = stop
  PROVE  LoopInv' /\ TurnStep
  <1>1. sock \in [Conns -> Socket] /\ slot \in [Slots -> Client]
    BY Zenon DEF LoopInv, TypeOK
  <1>2. sock'[c] = k /\ \A d \in Conns : d # c => sock'[d] = sock[d]
    BY <1>1, Zenon
  <1>3. TypeOK'
    <2>1. sock' \in [Conns -> Socket]
      BY <1>1, Zenon
    <2> QED
      BY <2>1, Zenon DEF LoopInv, TypeOK
  <1>4. SlotInv'
    <2> SUFFICES ASSUME NEW t \in Slots
                 PROVE  IF slot'[t].conn = NoConn THEN slot'[t].state = "EMPTY"
                                                  ELSE ClientInv(slot'[t], sock'[slot'[t].conn])
      BY Zenon DEF SlotInv
    <2>1. CASE slot[t].conn = NoConn
      BY <2>1, Zenon DEF LoopInv, SlotInv
    <2>2. CASE slot[t].conn # NoConn
      <3>1. /\ slot[t].conn \in Conns /\ slot[t] \in Client /\ sock[slot[t].conn] \in Socket
            /\ ClientInv(slot[t], sock[slot[t].conn])
        BY <2>2, SlotOpen, Zenon
      <3>2. CASE slot[t].conn = c
        <4> DEFINE r  == slot[t]
                   k0 == sock[c]
        <4>1. /\ r \in Client /\ k0 \in Socket /\ ClientInv(r, k0)
              /\ k.taken = k0.taken /\ k.out = k0.out /\ k.done = k0.done /\ k0.sent <= k.sent
          BY <3>1, <3>2, Zenon
        <4> HIDE DEF r, k0
        <4>2. ClientInv(r, k)
          BY <4>1, SamePlace, Zenon
        <4> QED
          BY <1>2, <2>2, <3>2, <4>2, Zenon DEF r
      <3>3. CASE slot[t].conn # c
        BY <1>2, <2>2, <3>1, <3>3, Zenon
      <3> QED
        BY <3>2, <3>3, Zenon
    <2> QED
      BY <2>1, <2>2, Zenon
  <1>5. ConnInv'
    BY <1>2, Zenon DEF LoopInv, ConnInv
  <1>6. BacklogInv' /\ EventInv' /\ TurnStep
    BY ZenonT(60) DEF LoopInv, BacklogInv, EventInv, TurnStep
  <1>7. OneSlotEach'
    BY DEF LoopInv, OneSlotEach
  <1> QED
    BY <1>3, <1>4, <1>5, <1>6, <1>7, Zenon DEF LoopInv

(* A connection is made: it waits at the end of the backlog.               *)
LEMMA ConnectStep ==
  ASSUME LoopInv, NEW c \in Conns, Connect(c)
  PROVE  LoopInv' /\ TurnStep
  <1>1. /\ link[c] = "none" /\ link' = [link EXCEPT ![c] = "waiting"] /\ backlog' = Append(backlog, c)
        /\ sock' = sock /\ slot' = slot /\ pc' = pc /\ events' = events /\ stop' = stop
    BY Zenon DEF Connect
  <1>2. link \in [Conns -> {"none", "waiting", "open", "closed", "failed"}] /\ backlog \in Seq(Conns)
    BY Zenon DEF LoopInv, TypeOK
  <1>3. link'[c] = "waiting" /\ \A d \in Conns : d # c => link'[d] = link[d]
    BY <1>1, <1>2, Zenon
  <1>4. TypeOK'
    <2>1. link' \in [Conns -> {"none", "waiting", "open", "closed", "failed"}] /\ backlog' \in Seq(Conns)
      BY <1>1, <1>2
    <2> QED
      BY <1>1, <2>1, Zenon DEF LoopInv, TypeOK
  <1>5. OneSlotEach'
    <2>1. OneSlotEach
      BY Zenon DEF LoopInv
    <2>2. ASSUME NEW d \in Conns PROVE link'[d] = "open" <=> \E t \in Slots : slot'[t].conn = d
      <3>1. link'[d] = "open" <=> link[d] = "open"
        BY <1>1, <1>3
      <3> QED
        BY <1>1, <2>1, <3>1 DEF OneSlotEach
    <2> QED
      BY <1>1, <2>1, <2>2, ZenonT(60) DEF OneSlotEach
  <1>6. ConnInv'
    <2>1. \A d \in Conns : link'[d] # "open" => link[d] # "open"
      BY <1>1, <1>3
    <2> QED
      BY <1>1, <2>1, Zenon DEF LoopInv, ConnInv
  <1>7. BacklogInv'
    <2>1. /\ \A i \in 1..Len(backlog) : link[backlog[i]] = "waiting"
          /\ \A i, j \in 1..Len(backlog) : backlog[i] = backlog[j] => i = j
      BY Zenon DEF LoopInv, BacklogInv
    <2>2. \A i \in 1..Len(backlog) : backlog[i] \in Conns /\ backlog[i] # c
      BY <1>1, <1>2, <2>1
    <2>3. /\ Len(backlog') = Len(backlog) + 1 /\ backlog'[Len(backlog) + 1] = c /\ Len(backlog) \in Nat
          /\ \A i \in 1..Len(backlog) : backlog'[i] = backlog[i]
      BY <1>1, <1>2
    <2>4. \A i \in 1..Len(backlog') : i \in 1..Len(backlog) \/ i = Len(backlog) + 1
      BY <2>3
    <2>5. \A i \in 1..Len(backlog') : link'[backlog'[i]] = "waiting"
      <3> SUFFICES ASSUME NEW i \in 1..Len(backlog') PROVE link'[backlog'[i]] = "waiting"
        OBVIOUS
      <3>1. CASE i \in 1..Len(backlog)
        <4>1. backlog'[i] = backlog[i] /\ link[backlog[i]] = "waiting" /\ backlog[i] \in Conns /\ backlog[i] # c
          BY <2>1, <2>2, <2>3, <3>1, Zenon
        <4> QED
          BY <1>3, <4>1, Zenon
      <3>2. CASE i = Len(backlog) + 1
        BY <1>3, <2>3, <3>2, Zenon
      <3> QED
        BY <2>4, <3>1, <3>2, Zenon
    <2>6. \A i, j \in 1..Len(backlog') : backlog'[i] = backlog'[j] => i = j
      BY <2>1, <2>2, <2>3, <2>4
    <2> QED
      BY <2>5, <2>6, Zenon DEF BacklogInv
  <1>8. SlotInv' /\ EventInv' /\ TurnStep
    BY <1>1, Zenon DEF LoopInv, SlotInv, EventInv, TurnStep
  <1> QED
    BY <1>4, <1>5, <1>6, <1>7, <1>8, Zenon DEF LoopInv

LEMMA ClientsStep ==
  ASSUME LoopInv, NEW c \in Conns, ClientStep(c)
  PROVE  LoopInv' /\ TurnStep
  <1>1. sock[c] \in Socket /\ 0 \in 0..SockCap
    BY LoopAssumption DEF LoopInv, TypeOK
  <1> DEFINE k0 == sock[c]
  <1>2. CASE Send(c)
    <2> DEFINE k == [k0 EXCEPT !.sent = @ + 1]
    <2>1. sock' = [sock EXCEPT ![c] = k] /\ UNCHANGED <<link, backlog, slot, pc, events, stop>>
      BY <1>2, Zenon DEF Send
    <2>2. /\ k \in Socket /\ k.taken = k0.taken /\ k.out = k0.out /\ k.done = k0.done /\ k0.sent <= k.sent
      <3> HIDE DEF k0
      <3> QED
        BY <1>1 DEF Socket, k0
    <2> HIDE DEF k
    <2> QED
      BY <2>1, <2>2, PeerStep, Zenon
  <1>3. CASE Drain(c)
    <2> DEFINE k == [k0 EXCEPT !.unread = 0]
    <2>1. sock' = [sock EXCEPT ![c] = k] /\ UNCHANGED <<link, backlog, slot, pc, events, stop>>
      BY <1>3, Zenon DEF Drain
    <2>2. /\ k \in Socket /\ k.taken = k0.taken /\ k.out = k0.out /\ k.done = k0.done /\ k0.sent <= k.sent
      BY <1>1 DEF Socket
    <2> HIDE DEF k
    <2> QED
      BY <2>1, <2>2, PeerStep, Zenon
  <1>4. ASSUME NEW how \in {"half", "closed"}, HangUp(c, how) PROVE LoopInv' /\ TurnStep
    <2> DEFINE k == [k0 EXCEPT !.peer = how]
    <2>1. sock' = [sock EXCEPT ![c] = k] /\ UNCHANGED <<link, backlog, slot, pc, events, stop>>
      BY <1>4, Zenon DEF HangUp
    <2>2. /\ k \in Socket /\ k.taken = k0.taken /\ k.out = k0.out /\ k.done = k0.done /\ k0.sent <= k.sent
      BY <1>1 DEF Socket
    <2> HIDE DEF k
    <2> QED
      BY <2>1, <2>2, PeerStep, Zenon
  <1> QED
    BY <1>2, <1>3, <1>4, ConnectStep, Zenon DEF ClientStep

(* Time passes for the clients.                                            *)
LEMMA TickStep ==
  ASSUME LoopInv, Tick
  PROVE  LoopInv' /\ TurnStep
  <1>1. /\ slot' = [s \in Slots |-> Later(slot[s])]
        /\ UNCHANGED <<link, sock, backlog, pc, events, stop>>
    BY Zenon DEF Tick
  <1>2. slot \in [Slots -> Client]
    BY Zenon DEF LoopInv, TypeOK
  <1>3. ASSUME NEW r \in Client
        PROVE  /\ Later(r) \in Client /\ Later(r).conn = r.conn /\ Later(r).state = r.state
               /\ Later(r).got = r.got /\ Later(r).body = r.body /\ Later(r).req = r.req
               /\ Later(r).off = r.off /\ Later(r).total = r.total
    <2>1. CASE r.state = "EMPTY" \/ r.idle > Timeout
      BY <2>1, Zenon DEF Later
    <2>2. CASE ~(r.state = "EMPTY" \/ r.idle > Timeout)
      <3>1. r.idle + 1 \in 0..(Timeout + 1)
        BY <2>2, LoopAssumption DEF Client
      <3>2. Later(r) = [r EXCEPT !.idle = @ + 1]
        BY <2>2, Zenon DEF Later
      <3> QED
        BY <3>1, <3>2 DEF Client
    <2> QED
      BY <2>1, <2>2, Zenon
  <1>4. \A s \in Slots : slot'[s] = Later(slot[s])
    BY <1>1, Zenon
  <1>5. \A s \in Slots : /\ slot'[s] \in Client /\ slot'[s].conn = slot[s].conn
                         /\ slot'[s].state = slot[s].state /\ slot'[s].got = slot[s].got
                         /\ slot'[s].body = slot[s].body /\ slot'[s].req = slot[s].req
                         /\ slot'[s].off = slot[s].off /\ slot'[s].total = slot[s].total
    <2> SUFFICES ASSUME NEW s \in Slots
                 PROVE  /\ slot'[s] \in Client /\ slot'[s].conn = slot[s].conn
                        /\ slot'[s].state = slot[s].state /\ slot'[s].got = slot[s].got
                        /\ slot'[s].body = slot[s].body /\ slot'[s].req = slot[s].req
                        /\ slot'[s].off = slot[s].off /\ slot'[s].total = slot[s].total
      BY Zenon
    <2> DEFINE r == slot[s]
    <2>1. r \in Client /\ slot'[s] = Later(r)
      BY <1>2, <1>4, Zenon
    <2> HIDE DEF r
    <2>2. /\ Later(r) \in Client /\ Later(r).conn = r.conn /\ Later(r).state = r.state
          /\ Later(r).got = r.got /\ Later(r).body = r.body /\ Later(r).req = r.req
          /\ Later(r).off = r.off /\ Later(r).total = r.total
      BY <1>3, <2>1, Zenon
    <2> QED
      BY <2>1, <2>2, Zenon DEF r
  <1>6. TypeOK'
    <2>1. slot' \in [Slots -> Client]
      BY <1>1, <1>2, <1>3, Zenon
    <2> QED
      BY <1>1, <2>1, Zenon DEF LoopInv, TypeOK
  <1>7. OneSlotEach'
    <2>1. OneSlotEach
      BY Zenon DEF LoopInv
    <2>2. ASSUME NEW d \in Conns PROVE link'[d] = "open" <=> \E t \in Slots : slot'[t].conn = d
      BY <1>1, <1>5, <2>1 DEF OneSlotEach
    <2>3. ASSUME NEW t \in Slots, NEW u \in Slots, slot'[t].conn = slot'[u].conn, slot'[t].conn # NoConn
          PROVE  t = u
      BY <1>5, <2>1, <2>3 DEF OneSlotEach
    <2> QED
      BY <2>2, <2>3, Zenon DEF OneSlotEach
  <1>8. SlotInv'
    <2> SUFFICES ASSUME NEW t \in Slots
                 PROVE  IF slot'[t].conn = NoConn THEN slot'[t].state = "EMPTY"
                                                  ELSE ClientInv(slot'[t], sock'[slot'[t].conn])
      BY Zenon DEF SlotInv
    <2>1. CASE slot[t].conn = NoConn
      BY <1>5, <2>1, Zenon DEF LoopInv, SlotInv
    <2>2. CASE slot[t].conn # NoConn
      <3> DEFINE r  == slot[t]
                 r2 == slot'[t]
                 k  == sock[slot[t].conn]
      <3>1. k \in Socket /\ r \in Client /\ ClientInv(r, k)
        BY <2>2, SlotOpen, Zenon
      <3>2. /\ r2 \in Client /\ r2.conn = r.conn /\ r2.state = r.state /\ r2.got = r.got
            /\ r2.body = r.body /\ r2.req = r.req /\ r2.off = r.off /\ r2.total = r.total
        BY <1>5, Zenon
      <3>3. sock'[slot'[t].conn] = k /\ slot'[t].conn # NoConn
        BY <1>1, <1>5, <2>2, Zenon
      <3> HIDE DEF r, r2, k
      <3>4. k.sent \in Nat
        BY <3>1, ClientFields, Zenon
      <3>5. k.sent <= k.sent
        BY <3>4
      <3>6. ClientInv(r2, k)
        BY <3>1, <3>2, <3>5, SamePlace, ZenonT(30)
      <3> QED
        BY <3>3, <3>6, Zenon DEF r2
    <2> QED
      BY <2>1, <2>2, Zenon
  <1>9. ConnInv' /\ BacklogInv' /\ EventInv' /\ TurnStep
    <2>1. ConnInv' /\ BacklogInv'
      BY <1>1, Zenon DEF LoopInv, ConnInv, BacklogInv
    <2>2. EventInv'
      BY <1>1, <1>5, Zenon DEF LoopInv, EventInv
    <2>3. TurnStep
      BY <1>5, Zenon DEF TurnStep
    <2> QED
      BY <2>1, <2>2, <2>3, Zenon
  <1> QED
    BY <1>6, <1>7, <1>8, <1>9, Zenon DEF LoopInv

(* The loop moves on: nothing happens to the clients, and what is still to *)
(* be served is about slots in use.                                        *)
LEMMA MoveStep ==
  ASSUME LoopInv, UNCHANGED <<link, sock, backlog, slot>>, stop' \in BOOLEAN,
         pc' \in {"poll", "accept", "serve", "reap", "down"},
         events' \in [Slots -> {"none", "hup", "io"}], EventInv'
  PROVE  LoopInv' /\ TurnStep
  <1>1. TypeOK' /\ SlotInv' /\ ConnInv' /\ BacklogInv' /\ TurnStep
    BY Zenon DEF LoopInv, TypeOK, SlotInv, ConnInv, BacklogInv, TurnStep
  <1>2. OneSlotEach'
    BY DEF LoopInv, OneSlotEach
  <1> QED
    BY <1>1, <1>2, Zenon DEF LoopInv

LEMMA PollStep ==
  ASSUME LoopInv, Poll
  PROVE  LoopInv' /\ TurnStep
  <1>1. /\ events' = [s \in Slots |-> Event(s)] /\ pc' \in {"accept", Continue(events')}
        /\ (pc' = "accept" \/ pc' = Continue(events')) /\ UNCHANGED <<link, sock, backlog, slot, stop>>
    BY DEF Poll
  <1>2. \A s \in Slots : Event(s) \in {"none", "hup", "io"} /\ (Event(s) # "none" => s \in Busy)
    BY DEF Event
  <1>3. events' \in [Slots -> {"none", "hup", "io"}] /\ \A s \in Slots : events'[s] = Event(s)
    BY <1>1, <1>2, Zenon
  <1>4. \A s \in Slots : s \in Busy => slot[s].conn # NoConn
    BY Zenon DEF LoopInv, SlotInv, Busy
  <1>5. /\ pc' \in {"poll", "accept", "serve", "reap", "down"} /\ pc' # "poll" /\ pc' # "down"
        /\ pc' = "reap" => \A s \in Slots : events'[s] = "none"
    BY <1>1, ContinueFacts
  <1>6. EventInv'
    <2>1. \A s \in Slots : events'[s] # "none" => slot'[s].conn # NoConn
      BY <1>1, <1>2, <1>3, <1>4, Zenon
    <2> QED
      BY <1>5, <2>1, Zenon DEF EventInv
  <1>7. stop' \in BOOLEAN
    BY <1>1, Zenon DEF LoopInv, TypeOK
  <1> QED
    BY <1>1, <1>3, <1>5, <1>6, <1>7, MoveStep, Zenon

LEMMA AcceptDoneStep ==
  ASSUME LoopInv, AcceptDone
  PROVE  LoopInv' /\ TurnStep
  <1>1. pc' = Continue(events) /\ UNCHANGED <<link, sock, backlog, slot, events, stop>>
    BY Zenon DEF AcceptDone
  <1>2. /\ pc' \in {"poll", "accept", "serve", "reap", "down"} /\ pc' # "poll" /\ pc' # "down"
        /\ pc' = "reap" => \A s \in Slots : events[s] = "none"
    BY <1>1, ContinueFacts
  <1>3. EventInv'
    BY <1>1, <1>2, Zenon DEF LoopInv, EventInv
  <1>4. stop' \in BOOLEAN /\ events' \in [Slots -> {"none", "hup", "io"}]
    BY <1>1, Zenon DEF LoopInv, TypeOK
  <1> QED
    BY <1>1, <1>2, <1>3, <1>4, MoveStep, Zenon

LEMMA SignalStep ==
  ASSUME LoopInv, Signal
  PROVE  LoopInv' /\ TurnStep
  <1>1. stop' = TRUE /\ UNCHANGED <<link, sock, backlog, slot, pc, events>>
    BY Zenon DEF Signal
  <1>2. EventInv'
    BY <1>1, Zenon DEF LoopInv, EventInv
  <1>3. /\ stop' \in BOOLEAN /\ events' \in [Slots -> {"none", "hup", "io"}]
        /\ pc' \in {"poll", "accept", "serve", "reap", "down"}
    BY <1>1, Zenon DEF LoopInv, TypeOK
  <1> QED
    BY <1>1, <1>2, <1>3, MoveStep, Zenon

(* The end of main.                                                        *)
LEMMA ShutdownStep ==
  ASSUME LoopInv, Shutdown
  PROVE  LoopInv' /\ TurnStep
  <1>1. /\ pc = "poll" /\ link' = [c \in Conns |-> IF Connected(c) THEN "closed" ELSE link[c]]
        /\ sock' = [c \in Conns |-> Fresh] /\ backlog' = <<>> /\ slot' = [s \in Slots |-> Empty]
        /\ pc' = "down" /\ events' = events /\ stop' = stop
    BY Zenon DEF Shutdown
  <1>2. \A s \in Slots : slot'[s] = Empty /\ slot'[s].conn = NoConn /\ slot'[s].state = "EMPTY"
    BY <1>1, EmptyFacts, Zenon
  <1>3. \A s \in Slots : events[s] = "none"
    BY <1>1 DEF LoopInv, EventInv
  <1>4. \A c \in Conns : sock'[c] = Fresh /\ link'[c] = IF Connected(c) THEN "closed" ELSE link[c]
    BY <1>1, Zenon
  <1>5. link \in [Conns -> {"none", "waiting", "open", "closed", "failed"}]
    BY Zenon DEF LoopInv, TypeOK
  <1>6. TypeOK'
    <2>1. link' \in [Conns -> {"none", "waiting", "open", "closed", "failed"}]
      BY <1>1, <1>5
    <2>2. sock' \in [Conns -> Socket] /\ slot' \in [Slots -> Client]
      BY <1>1, EmptyFacts, Zenon
    <2>3. backlog' \in Seq(Conns) /\ pc' \in {"poll", "accept", "serve", "reap", "down"}
      BY <1>1
    <2> QED
      BY <1>1, <2>1, <2>2, <2>3, Zenon DEF LoopInv, TypeOK
  <1>7. OneSlotEach'
    <2>1. ASSUME NEW d \in Conns PROVE link'[d] = "open" <=> \E t \in Slots : slot'[t].conn = d
      <3>1. link'[d] # "open"
        BY <1>4 DEF Connected
      <3>2. NoConn # d
        BY LoopAssumption, Zenon
      <3> QED
        BY <1>2, <3>1, <3>2, Zenon
    <2> QED
      BY <1>2, <2>1, Zenon DEF OneSlotEach
  <1>8. ConnInv'
    BY <1>4, EmptyFacts, Zenon DEF ConnInv
  <1>9. BacklogInv'
    <2>1. \A i \in 1..Len(backlog') : FALSE
      BY <1>1
    <2> QED
      BY <2>1, Zenon DEF BacklogInv
  <1>10. SlotInv' /\ EventInv' /\ TurnStep
    BY <1>1, <1>2, <1>3, Zenon DEF SlotInv, EventInv, TurnStep
  <1> QED
    BY <1>6, <1>7, <1>8, <1>9, <1>10, Zenon DEF LoopInv

(* bloomd_close_timed_out_clients.                                         *)
LEMMA ReapStep ==
  ASSUME LoopInv, Reap
  PROVE  LoopInv' /\ TurnStep
  <1> DEFINE gone == {slot[s].conn : s \in TimedOut}
  <1>1. /\ pc = "reap" /\ pc' = "poll" /\ backlog' = backlog /\ events' = events /\ stop' = stop
        /\ link' = [c \in Conns |-> IF c \in gone THEN "closed" ELSE link[c]]
        /\ sock' = [c \in Conns |-> IF c \in gone THEN Fresh ELSE sock[c]]
        /\ slot' = [s \in Slots |-> IF s \in TimedOut THEN Empty ELSE slot[s]]
    BY Zenon DEF Reap
  <1>2. \A s \in TimedOut : s \in Slots /\ slot[s].conn # NoConn /\ slot[s].conn \in gone
    <2>1. \A s \in TimedOut : s \in Slots /\ slot[s].state # "EMPTY"
      BY Zenon DEF TimedOut, Busy
    <2>2. \A s \in TimedOut : slot[s].conn # NoConn
      BY <2>1, Zenon DEF LoopInv, SlotInv
    <2> QED
      BY <2>1, <2>2, Zenon
  <1>3. \A c \in gone : \E s \in TimedOut : c = slot[s].conn
    BY Zenon
  <1> HIDE DEF gone
  <1>4. /\ slot \in [Slots -> Client] /\ sock \in [Conns -> Socket]
        /\ link \in [Conns -> {"none", "waiting", "open", "closed", "failed"}] /\ backlog \in Seq(Conns)
    BY Zenon DEF LoopInv, TypeOK
  <1>5. \A c \in Conns : IF c \in gone THEN link'[c] = "closed" /\ sock'[c] = Fresh
                                        ELSE link'[c] = link[c] /\ sock'[c] = sock[c]
    BY <1>1, Zenon
  <1>6. \A s \in Slots : IF s \in TimedOut THEN slot'[s].conn = NoConn /\ slot'[s].state = "EMPTY"
                                            ELSE slot'[s] = slot[s]
    BY <1>1, EmptyFacts, Zenon
  <1>7. \A s \in Slots : s \notin TimedOut /\ slot[s].conn # NoConn => slot[s].conn \in Conns /\ slot[s].conn \notin gone
    BY <1>2, <1>3, SlotOpen, Zenon
  <1>8. \A s \in Slots : events[s] = "none"
    BY <1>1 DEF LoopInv, EventInv
  <1>9. TypeOK'
    <2>1. slot' \in [Slots -> Client] /\ sock' \in [Conns -> Socket]
      BY <1>1, <1>4, EmptyFacts, Zenon
    <2>2. link' \in [Conns -> {"none", "waiting", "open", "closed", "failed"}]
      BY <1>1, <1>4
    <2>3. pc' \in {"poll", "accept", "serve", "reap", "down"}
      BY <1>1
    <2> QED
      BY <1>1, <2>1, <2>2, <2>3, Zenon DEF LoopInv, TypeOK
  <1>10. OneSlotEach'
    <2>1. OneSlotEach
      BY Zenon DEF LoopInv
    <2>2. ASSUME NEW d \in Conns PROVE link'[d] = "open" <=> \E t \in Slots : slot'[t].conn = d
      <3>1. NoConn # d
        BY LoopAssumption, Zenon
      <3>2. CASE d \in gone
        <4>1. link'[d] # "open"
          BY <1>5, <3>2
        <4>2. ASSUME NEW t \in Slots PROVE slot'[t].conn # d
          BY <1>6, <1>7, <3>1, <3>2, Zenon
        <4> QED
          BY <4>1, <4>2, Zenon
      <3>3. CASE d \notin gone
        <4>1. \A t \in Slots : slot'[t].conn = d <=> slot[t].conn = d
          BY <1>2, <1>6, <3>1, <3>3
        <4> QED
          BY <1>5, <2>1, <3>3, <4>1 DEF OneSlotEach
      <3> QED
        BY <3>2, <3>3, Zenon
    <2>3. ASSUME NEW t \in Slots, NEW u \in Slots, slot'[t].conn = slot'[u].conn, slot'[t].conn # NoConn
          PROVE  t = u
      BY <1>6, <2>1, <2>3 DEF OneSlotEach
    <2> QED
      BY <2>2, <2>3, Zenon DEF OneSlotEach
  <1>11. SlotInv'
    <2> SUFFICES ASSUME NEW t \in Slots
                 PROVE  IF slot'[t].conn = NoConn THEN slot'[t].state = "EMPTY"
                                                  ELSE ClientInv(slot'[t], sock'[slot'[t].conn])
      BY Zenon DEF SlotInv
    <2>1. CASE t \in TimedOut
      BY <1>6, <2>1, Zenon
    <2>2. CASE t \notin TimedOut
      <3>1. slot[t].conn # NoConn => sock'[slot[t].conn] = sock[slot[t].conn]
        BY <1>5, <1>7, <2>2, Zenon
      <3>2. slot'[t] = slot[t]
        BY <1>6, <2>2, Zenon
      <3> QED
        BY <3>1, <3>2, Zenon DEF LoopInv, SlotInv
    <2> QED
      BY <2>1, <2>2, Zenon
  <1>12. ConnInv'
    BY <1>5, EmptyFacts, Zenon DEF LoopInv, ConnInv
  <1>13. BacklogInv'
    <2>1. \A i \in 1..Len(backlog) : backlog[i] \in Conns /\ link[backlog[i]] = "waiting"
      BY <1>4 DEF LoopInv, BacklogInv
    <2>2. \A c \in gone : link[c] = "open"
      <3> SUFFICES ASSUME NEW c \in gone PROVE link[c] = "open"
        BY Zenon
      <3>1. PICK s \in TimedOut : c = slot[s].conn
        BY <1>3, Zenon
      <3>2. link[slot[s].conn] = "open"
        BY <1>2, SlotOpen, Zenon
      <3> QED
        BY <3>1, <3>2, Zenon
    <2>3. \A i \in 1..Len(backlog) : backlog[i] \notin gone
      BY <2>1, <2>2
    <2>4. \A i \in 1..Len(backlog) : link'[backlog[i]] = "waiting"
      BY <1>5, <2>1, <2>3, Zenon
    <2> QED
      BY <1>1, <2>4, Zenon DEF LoopInv, BacklogInv
  <1>14. EventInv' /\ TurnStep
    BY <1>1, <1>8, Zenon DEF EventInv, TurnStep
  <1> QED
    BY <1>9, <1>10, <1>11, <1>12, <1>13, <1>14, Zenon DEF LoopInv

-----------------------------------------------------------------------------
LEMMA LoopInit ==
  ASSUME Init
  PROVE  LoopInv
  <1>1. /\ link = [c \in Conns |-> "none"] /\ sock = [c \in Conns |-> Fresh] /\ backlog = <<>>
        /\ slot = [s \in Slots |-> Empty] /\ pc = "poll" /\ events = [s \in Slots |-> "none"] /\ stop = FALSE
    BY Zenon DEF Init
  <1>2. \A s \in Slots : slot[s].conn = NoConn /\ slot[s].state = "EMPTY" /\ events[s] = "none"
    BY <1>1, EmptyFacts, Zenon
  <1>3. \A c \in Conns : link[c] = "none" /\ sock[c] = Fresh
    BY <1>1, Zenon
  <1>4. TypeOK
    <2>1. sock \in [Conns -> Socket] /\ slot \in [Slots -> Client]
      BY <1>1, EmptyFacts, Zenon
    <2>2. /\ link \in [Conns -> {"none", "waiting", "open", "closed", "failed"}]
          /\ events \in [Slots -> {"none", "hup", "io"}] /\ stop \in BOOLEAN
      BY <1>1, Zenon
    <2>3. backlog \in Seq(Conns) /\ pc \in {"poll", "accept", "serve", "reap", "down"}
      BY <1>1
    <2> QED
      BY <2>1, <2>2, <2>3, Zenon DEF TypeOK
  <1>5. OneSlotEach
    <2>1. ASSUME NEW d \in Conns PROVE link[d] = "open" <=> \E t \in Slots : slot[t].conn = d
      <3>1. NoConn # d
        BY LoopAssumption, Zenon
      <3> QED
        BY <1>2, <1>3, <3>1
    <2> QED
      BY <1>2, <2>1, Zenon DEF OneSlotEach
  <1>6. BacklogInv
    <2>1. \A i \in 1..Len(backlog) : FALSE
      BY <1>1
    <2> QED
      BY <2>1, Zenon DEF BacklogInv
  <1>7. SlotInv /\ ConnInv /\ EventInv
    BY <1>2, <1>3, EmptyFacts, Zenon DEF SlotInv, ConnInv, EventInv
  <1> QED
    BY <1>4, <1>5, <1>6, <1>7, Zenon DEF LoopInv

LEMMA LoopStep ==
  ASSUME LoopInv, [Next]_vars
  PROVE  LoopInv' /\ (TurnStep \/ UNCHANGED vars)
  <1>1. CASE UNCHANGED vars
    <2>1. UNCHANGED <<link, sock, backlog, slot, pc, events, stop>>
      BY <1>1, Zenon DEF vars
    <2>2. /\ EventInv' /\ stop' \in BOOLEAN /\ events' \in [Slots -> {"none", "hup", "io"}]
          /\ pc' \in {"poll", "accept", "serve", "reap", "down"}
      BY <2>1, Zenon DEF LoopInv, EventInv, TypeOK
    <2> QED
      BY <2>1, <2>2, MoveStep, Zenon
  <1>2. CASE Accept
    <2>1. CASE /\ Free # {} /\ link' = [link EXCEPT ![Head(backlog)] = "open"]
               /\ slot' = [slot EXCEPT ![FreeSlot] = NewClient(Head(backlog))] /\ sock' = sock
      BY <1>2, <2>1, AcceptStep, Zenon DEF Accept
    <2>2. CASE /\ link' = [link EXCEPT ![Head(backlog)] = "failed"]
               /\ sock' = [sock EXCEPT ![Head(backlog)] = Fresh] /\ slot' = slot
      BY <1>2, <2>2, RefuseStep, Zenon DEF Accept
    <2> QED
      BY <1>2, <2>1, <2>2, Zenon DEF Accept
  <1>3. CASE Loop
    BY <1>2, <1>3, PollStep, ShutdownStep, AcceptDoneStep, ServeStep, ReapStep, Zenon DEF Loop
  <1> QED
    BY <1>1, <1>3, TickStep, SignalStep, ClientsStep, Zenon DEF Next

(* For any number of slots, any clients and any faults, the daemon never   *)
(* loses its place in the streams of a client (bloomd_client_drive_read,   *)
(* bloomd_client_drive_write, bloomd_client_reset_request) and the slots   *)
(* hold exactly the connections that are open, one each                    *)
(* (bloomd_accept_ready, bloomd_client_close).                             *)
THEOREM LoopSafe == Spec => [](TypeOK /\ AnswersInOrder /\ OneSlotEach)
  <1>1. Init => LoopInv
    BY LoopInit, Zenon
  <1>2. LoopInv /\ [Next]_vars => LoopInv'
    BY LoopStep, Zenon
  <1>3. LoopInv => TypeOK /\ AnswersInOrder /\ OneSlotEach
    <2> SUFFICES ASSUME LoopInv, NEW s \in Busy PROVE InPlace(slot[s], slot[s].conn, sock[slot[s].conn])
      BY Zenon DEF LoopInv, AnswersInOrder
    <2>1. s \in Slots /\ slot[s].conn # NoConn
      BY Zenon DEF Busy, LoopInv, SlotInv
    <2> QED
      BY <2>1, SlotOpen, Zenon DEF ClientInv
  <1> QED
    BY <1>1, <1>2, <1>3, PTL DEF Spec

(* No header is read past its length, no socket takes more than it has     *)
(* room for, and every other variable keeps its type.                      *)
THEOREM ClientsTyped == Spec => []TypeOK
  BY LoopSafe, PTL

(* No connection leaks and none is in two slots, whatever is accepted,     *)
(* refused, timed out or closed, and in which order.                       *)
THEOREM SlotsAreClients == Spec => []OneSlotEach
  BY LoopSafe, PTL

(* What poll reported for a slot is never applied to another client: the   *)
(* slots whose turn is still to come keep theirs, whatever is accepted,    *)
(* served or closed in between (the loop of main over poll's results).     *)
THEOREM TurnsKept == Spec => TurnKeepsClient
  <1>1. Init => LoopInv
    BY LoopInit, Zenon
  <1>2. LoopInv /\ [Next]_vars => LoopInv'
    BY LoopStep, Zenon
  <1>3. LoopInv /\ [Next]_vars =>
          [\A s \in Slots :
             events[s] # "none" /\ events'[s] # "none" => slot'[s].conn = slot[s].conn]_vars
    BY LoopStep, Zenon DEF TurnStep
  <1> QED
    BY <1>1, <1>2, <1>3, PTL DEF Spec, TurnKeepsClient
=============================================================================
