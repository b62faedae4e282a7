----------------------------- MODULE ClientLoop -----------------------------
(***************************************************************************)
(* The poll loop of bloomd and its clients (src/src/daemon.c: main, from   *)
(* the listening socket to the end, and the bloomd_client_ functions).     *)
(*                                                                         *)
(* The loop is one thread: poll, accept, serve the clients that were       *)
(* ready, close the ones that timed out.  The clients are the other        *)
(* actors: they connect, send, read and hang up between any two steps of   *)
(* it.  What a client sends is a stream of frames that may arrive in any   *)
(* pieces; the answers leave in pieces as well, when the socket is full.   *)
(*                                                                         *)
(* Bytes are abstracted to counts.  sent, taken and out are positions in   *)
(* the two streams of a connection, and Frames says where in them each     *)
(* request and its answer belong.  So a daemon that loses its place reads  *)
(* a header where no frame starts, or writes an answer where another one   *)
(* belongs.  What a request does to the filters is in FilterStore; here    *)
(* done counts the requests that were handed to bloomd_dispatch.           *)
(***************************************************************************)
EXTENDS Naturals, Sequences

CONSTANTS
  MaxClients,   \* BLOOMD_MAX_CLIENTS
  Conns,        \* the connections that are ever made
  NoConn,
  Patient,      \* the ones that never hang up and read their answers, as bloomctl does
  Frames,       \* Frames[c]: the requests of c, see FrameType
  HdrLen,       \* sizeof(struct bloomd_frame_header)
  SockCap,      \* what a socket holds for a client that does not read
  Backlog,      \* connections that wait to be accepted: listen(fd, 32)
  Timeout,      \* BLOOMD_REQ_TIMEOUT_MS
  Faults        \* calls of the daemon that may fail, see FaultKinds

Slots == 1..MaxClients

(***************************************************************************)
(*   nomem   no memory for the body of a request or for its answer         *)
(*   fcntl   an accepted descriptor cannot be made nonblocking             *)
(*   accept  accept fails for another reason than that nobody waits        *)
(*   poll    poll fails for another reason than a signal                   *)
(*   slow    a round of the loop, or a client that reads its answer, takes *)
(*           as long as BLOOMD_REQ_TIMEOUT_MS                              *)
(***************************************************************************)
FaultKinds == {"nomem", "fcntl", "accept", "poll", "slow"}

(* start and reply are the positions where the request and its answer      *)
(* begin, body the length of the request's body, resp the length of the    *)
(* whole answer; valid is bloomd_header_is_valid of its header.            *)
FrameType == [start : Nat, body : Nat, valid : BOOLEAN, reply : Nat, resp : Nat \ {0}]

(* Where the streams are after k requests and after k answers.             *)
ReqEnd(c, k)   == IF k = 0 THEN 0 ELSE Frames[c][k].start + HdrLen + Frames[c][k].body
ReplyEnd(c, k) == IF k = 0 THEN 0 ELSE Frames[c][k].reply + Frames[c][k].resp
StreamLen(c)   == ReqEnd(c, Len(Frames[c]))

ASSUME LoopAssumption ==
  /\ MaxClients \in Nat \ {0} /\ HdrLen \in Nat \ {0} /\ SockCap \in Nat \ {0}
  /\ Backlog \in Nat \ {0} /\ Timeout \in Nat \ {0}
  /\ NoConn \notin Conns /\ Patient \subseteq Conns
  /\ Faults \subseteq FaultKinds

ASSUME FramesAssumption ==
  /\ Frames \in [Conns -> Seq(FrameType)]
  /\ \A c \in Conns : \A k \in 1..Len(Frames[c]) :
       Frames[c][k].start = ReqEnd(c, k - 1) /\ Frames[c][k].reply = ReplyEnd(c, k - 1)

VARIABLES
  link,       \* the daemon's end of a connection
  sock,       \* what is in its two streams, see Socket
  backlog,    \* connections that are not accepted yet
  slot,       \* clients[i]
  pc,         \* where the loop is
  events,     \* the revents of the slots that are still to be served
  stop        \* bloomd_stop

vars == <<link, sock, backlog, slot, pc, events, stop>>

(* peer is the client's end, "half" after shutdown(SHUT_WR).  The client   *)
(* has sent the first part of its stream and the daemon taken the first    *)
(* part of that; of the out that the daemon wrote, the client has not read *)
(* unread yet.  done is history: how many requests were dispatched.        *)
Socket == [peer : {"open", "half", "closed"}, sent : Nat, taken : Nat,
           out : Nat, unread : 0..SockCap, done : Nat]

Fresh == [peer |-> "open", sent |-> 0, taken |-> 0, out |-> 0, unread |-> 0, done |-> 0]

States == {"EMPTY", "READ_HEADER", "READ_BODY", "WRITE_RESPONSE"}

(* struct bloomd_client: got is req_header_read, body is req_body.len, req *)
(* the request whose header was read, off is write_offset, total the       *)
(* length of the answer, idle the time since last_activity_ms.             *)
Client == [conn : Conns \cup {NoConn}, state : States, got : 0..HdrLen, body : Nat,
           req : Nat, off : Nat, total : Nat, idle : 0..(Timeout + 1)]

(* bloomd_client_close clears the whole slot.                              *)
Empty == [conn |-> NoConn, state |-> "EMPTY", got |-> 0, body |-> 0,
          req |-> 0, off |-> 0, total |-> 0, idle |-> 0]

TypeOK ==
  /\ link \in [Conns -> {"none", "waiting", "open", "closed", "failed"}]
  /\ sock \in [Conns -> Socket]
  /\ backlog \in Seq(Conns)
  /\ slot \in [Slots -> Client]
  /\ pc \in {"poll", "accept", "serve", "reap", "down"}
  /\ events \in [Slots -> {"none", "hup", "io"}]
  /\ stop \in BOOLEAN

Init ==
  /\ link = [c \in Conns |-> "none"] /\ sock = [c \in Conns |-> Fresh]
  /\ backlog = <<>>
  /\ slot = [s \in Slots |-> Empty]
  /\ pc = "poll" /\ events = [s \in Slots |-> "none"] /\ stop = FALSE

-----------------------------------------------------------------------------
(* The clients.                                                            *)

Connected(c) == link[c] \in {"waiting", "open"}

Connect(c) ==
  /\ pc # "down" /\ link[c] = "none" /\ Len(backlog) < Backlog
  /\ link' = [link EXCEPT ![c] = "waiting"] /\ backlog' = Append(backlog, c)
  /\ UNCHANGED <<sock, slot, pc, events, stop>>

(* One unit at a time: the daemon may read between any two of them.        *)
Send(c) ==
  /\ Connected(c) /\ sock[c].peer = "open" /\ sock[c].sent < StreamLen(c)
  /\ sock' = [sock EXCEPT ![c].sent = @ + 1]
  /\ UNCHANGED <<link, backlog, slot, pc, events, stop>>

Drain(c) ==
  /\ sock[c].unread # 0 /\ sock[c].peer # "closed"
  /\ sock' = [sock EXCEPT ![c].unread = 0]
  /\ UNCHANGED <<link, backlog, slot, pc, events, stop>>

HangUp(c, how) ==
  /\ c \notin Patient /\ Connected(c)
  /\ sock[c].peer = "open" \/ (sock[c].peer = "half" /\ how = "closed")
  /\ sock' = [sock EXCEPT ![c].peer = how]
  /\ UNCHANGED <<link, backlog, slot, pc, events, stop>>

-----------------------------------------------------------------------------
(* poll.                                                                   *)

Busy == {s \in Slots : slot[s].state # "EMPTY"}

(* A client that has closed its end is reported with POLLHUP, whatever it  *)
(* sent before.                                                            *)
BugReady(r) == sock[r.conn].sent > sock[r.conn].taken \/ sock[r.conn].peer = "half"

Ready(r) ==
  LET k == sock[r.conn] IN
  IF r.state = "WRITE_RESPONSE" THEN k.unread < SockCap
                                ELSE k.sent > k.taken \/ k.peer = "half"

Event(s) ==
  IF s \notin Busy THEN "none"
  ELSE IF sock[slot[s].conn].peer = "closed" THEN "hup"
  ELSE IF Ready(slot[s]) THEN "io" ELSE "none"

(* The loop goes on with the first client that poll reported.              *)
Continue(ev) == IF \E s \in Slots : ev[s] # "none" THEN "serve" ELSE "reap"

(* poll returns: with what is ready, or after BLOOMD_POLL_TIMEOUT_MS with  *)
(* nothing.                                                                *)
Poll ==
  /\ pc = "poll" /\ ~stop
  /\ events' = [s \in Slots |-> Event(s)]
  /\ pc' = IF backlog # <<>> THEN "accept" ELSE Continue(events')
  /\ UNCHANGED <<link, sock, backlog, slot, stop>>

(* Time passes while poll waits for something to report, and only there    *)
(* unless the loop or a patient client is slow.                            *)
Blocked ==
  /\ pc = "poll" /\ ~stop /\ backlog = <<>> /\ \A s \in Slots : Event(s) = "none"
  /\ \A c \in Patient : sock[c].unread = 0

Later(r) == IF r.state = "EMPTY" \/ r.idle > Timeout THEN r ELSE [r EXCEPT !.idle = @ + 1]

Tick ==
  /\ Blocked \/ "slow" \in Faults
  /\ slot' = [s \in Slots |-> Later(slot[s])]
  /\ UNCHANGED <<link, sock, backlog, pc, events, stop>>

(* SIGTERM, SIGINT.  poll returns with EINTR and the loop sees the flag.   *)
Signal ==
  /\ pc # "down" /\ ~stop /\ stop' = TRUE
  /\ UNCHANGED <<link, sock, backlog, slot, pc, events>>

(* The end of main: all clients and the listening socket are closed.       *)
Shutdown ==
  /\ pc = "poll" /\ (stop \/ "poll" \in Faults)
  /\ link' = [c \in Conns |-> IF Connected(c) THEN "closed" ELSE link[c]]
  /\ sock' = [c \in Conns |-> Fresh]
  /\ backlog' = <<>> /\ slot' = [s \in Slots |-> Empty]
  /\ pc' = "down"
  /\ UNCHANGED <<events, stop>>

-----------------------------------------------------------------------------
(* bloomd_accept_ready: until there is nobody left to accept.              *)

Free == {s \in Slots : slot[s].state = "EMPTY"}

(* bloomd_find_free_client.                                                *)
FreeSlot == CHOOSE s \in Free : \A t \in Free : s <= t

(* bloomd_client_init.                                                     *)
NewClient(c) == [Empty EXCEPT !.conn = c, !.state = "READ_HEADER"]

(* The connection that is accepted gets a slot, or is closed at once.      *)
BugAcceptLeak ==
  /\ pc = "accept" /\ backlog # <<>>
  /\ link' = [link EXCEPT ![Head(backlog)] = "open"]
  /\ slot' = IF Free # {} THEN [slot EXCEPT ![FreeSlot] = NewClient(Head(backlog))] ELSE slot
  /\ backlog' = Tail(backlog)
  /\ UNCHANGED <<sock, pc, events, stop>>

BugAcceptEvict ==
  /\ pc = "accept" /\ backlog # <<>>
  /\ \E s \in Slots :
       LET old == slot[s].conn IN
       /\ s \in Free \/ slot[s].idle > Timeout
       /\ link' = [c \in Conns |-> IF c = old THEN "closed" ELSE IF c = Head(backlog) THEN "open" ELSE link[c]]
       /\ sock' = [c \in Conns |-> IF c = old THEN Fresh ELSE sock[c]]
       /\ slot' = [slot EXCEPT ![s] = NewClient(Head(backlog))]
  /\ backlog' = Tail(backlog)
  /\ UNCHANGED <<pc, events, stop>>

BugAcceptWait ==
  /\ pc = "accept" /\ backlog # <<>> /\ Free # {}
  /\ link' = [link EXCEPT ![Head(backlog)] = "open"]
  /\ slot' = [slot EXCEPT ![FreeSlot] = NewClient(Head(backlog))]
  /\ backlog' = Tail(backlog)
  /\ UNCHANGED <<sock, pc, events, stop>>

Accept ==
  /\ pc = "accept" /\ backlog # <<>>
  /\ LET c == Head(backlog) IN
       \/ /\ Free # {}
          /\ link' = [link EXCEPT ![c] = "open"]
          /\ slot' = [slot EXCEPT ![FreeSlot] = NewClient(c)]
          /\ UNCHANGED sock
       \/ /\ Free = {} \/ "fcntl" \in Faults
          /\ link' = [link EXCEPT ![c] = "failed"] /\ sock' = [sock EXCEPT ![c] = Fresh]
          /\ UNCHANGED slot
  /\ backlog' = Tail(backlog)
  /\ UNCHANGED <<pc, events, stop>>

AcceptDone ==
  /\ pc = "accept" /\ (backlog = <<>> \/ "accept" \in Faults)
  /\ pc' = Continue(events)
  /\ UNCHANGED <<link, sock, backlog, slot, events, stop>>

-----------------------------------------------------------------------------
(* Serving the clients that poll reported, in the order of the slots.      *)

Turn(s, e) ==
  /\ pc = "serve" /\ events[s] = e
  /\ \A t \in Slots : t < s => events[t] = "none"

Served(s) ==
  /\ events' = [events EXCEPT ![s] = "none"]
  /\ pc' = Continue(events')
  /\ UNCHANGED <<backlog, stop>>

(* The client in slot s goes on as r, with its streams as in k.            *)
Keep(s, r, k) ==
  /\ Served(s)
  /\ slot' = [slot EXCEPT ![s] = r] /\ sock' = [sock EXCEPT ![r.conn] = k]
  /\ UNCHANGED link

(* bloomd_client_close.                                                    *)
CloseClient(s, how) ==
  /\ Served(s)
  /\ link' = [link EXCEPT ![slot[s].conn] = how]
  /\ sock' = [sock EXCEPT ![slot[s].conn] = Fresh]
  /\ slot' = [slot EXCEPT ![s] = Empty]

ServeHangup(s) == Turn(s, "hup") /\ CloseClient(s, "closed")

(* bloomd_client_read_some: what a loop of reads gets before it has want   *)
(* or would block.                                                         *)
BugGot(k, want) == k.sent - k.taken

Got(k, want) == IF k.sent - k.taken < want THEN k.sent - k.taken ELSE want

Active(r, n) == IF n = 0 THEN r ELSE [r EXCEPT !.idle = 0]

(* Fewer bytes than wanted: the rest may come, or the stream has ended.    *)
ReadAgain(s, r, k) == IF k.peer = "open" THEN Keep(s, r, k) ELSE CloseClient(s, "closed")

(* bloomd_dispatch and bloomd_client_prepare_write for the request req.    *)
Dispatch(s, r, k) ==
  \/ Keep(s, [r EXCEPT !.off = 0, !.total = Frames[r.conn][r.req].resp, !.state = "WRITE_RESPONSE"],
             [k EXCEPT !.done = @ + 1])
  \/ "nomem" \in Faults /\ CloseClient(s, "failed")

(* The request whose header begins at position p, 0 if none does.          *)
FrameAt(c, p) ==
  IF \E k \in 1..Len(Frames[c]) : Frames[c][k].start = p
    THEN CHOOSE k \in 1..Len(Frames[c]) : Frames[c][k].start = p
    ELSE 0

(* The header is complete: it is refused, or the body is read next, or     *)
(* there is none.                                                          *)
HeaderRead(s, r, k) ==
  LET f == Frames[r.conn][r.req] IN
  IF r.req = 0 \/ ~f.valid THEN CloseClient(s, "closed")
  ELSE IF f.body = 0 THEN Dispatch(s, r, k)
  ELSE \/ Keep(s, [r EXCEPT !.body = 0, !.state = "READ_BODY"], k)
       \/ "nomem" \in Faults /\ CloseClient(s, "failed")

(* bloomd_client_drive_read while the header is incomplete.                *)
ReadHeader(s) ==
  /\ Turn(s, "io") /\ slot[s].state = "READ_HEADER"
  /\ LET c == slot[s].conn
         n == Got(sock[c], HdrLen - slot[s].got)
         k == [sock[c] EXCEPT !.taken = @ + n]
         r == Active([slot[s] EXCEPT !.got = @ + n], n)
     IN IF r.got < HdrLen
          THEN ReadAgain(s, r, k)
          ELSE HeaderRead(s, [r EXCEPT !.req = FrameAt(c, k.taken - HdrLen)], k)

(* bloomd_client_drive_read while the body is incomplete.                  *)
ReadBody(s) ==
  /\ Turn(s, "io") /\ slot[s].state = "READ_BODY"
  /\ LET c == slot[s].conn
         len == Frames[c][slot[s].req].body
         n == Got(sock[c], len - slot[s].body)
         k == [sock[c] EXCEPT !.taken = @ + n]
         r == Active([slot[s] EXCEPT !.body = @ + n], n)
     IN IF r.body < len THEN ReadAgain(s, r, k) ELSE Dispatch(s, r, k)

(* bloomd_client_reset_request.                                            *)
BugResetRequest(r) == [r EXCEPT !.body = 0, !.req = 0, !.off = 0, !.state = "READ_HEADER"]

ResetRequest(r) ==
  [r EXCEPT !.got = 0, !.body = 0, !.req = 0, !.off = 0, !.state = "READ_HEADER"]

(* bloomd_client_drive_write: as much as the socket takes.                 *)
WriteResponse(s) ==
  /\ Turn(s, "io") /\ slot[s].state = "WRITE_RESPONSE"
  /\ LET c == slot[s].conn
         room == SockCap - sock[c].unread
         left == slot[s].total - slot[s].off
         n == IF room < left THEN room ELSE left
         r == Active([slot[s] EXCEPT !.off = @ + n], n)
     IN IF sock[c].peer = "closed"
          THEN CloseClient(s, "closed")
          ELSE Keep(s, IF n = left THEN ResetRequest(r) ELSE r,
                       [sock[c] EXCEPT !.out = @ + n, !.unread = @ + n])

-----------------------------------------------------------------------------
(* bloomd_close_timed_out_clients.                                         *)
BugTimedOut == {s \in Busy : slot[s].idle > Timeout /\ slot[s].state # "WRITE_RESPONSE"}

TimedOut == {s \in Busy : slot[s].idle > Timeout}

Reap ==
  /\ pc = "reap" /\ pc' = "poll"
  /\ LET gone == {slot[s].conn : s \in TimedOut} IN
       /\ link' = [c \in Conns |-> IF c \in gone THEN "closed" ELSE link[c]]
       /\ sock' = [c \in Conns |-> IF c \in gone THEN Fresh ELSE sock[c]]
  /\ slot' = [s \in Slots |-> IF s \in TimedOut THEN Empty ELSE slot[s]]
  /\ UNCHANGED <<backlog, events, stop>>

-----------------------------------------------------------------------------
Serve(s) == ServeHangup(s) \/ ReadHeader(s) \/ ReadBody(s) \/ WriteResponse(s)

Loop == Poll \/ Shutdown \/ Accept \/ AcceptDone \/ (\E s \in Slots : Serve(s)) \/ Reap

ClientStep(c) == Connect(c) \/ Send(c) \/ Drain(c) \/ \E how \in {"half", "closed"} : HangUp(c, how)

Next == Loop \/ Tick \/ Signal \/ \E c \in Conns : ClientStep(c)

Spec == Init /\ [][Next]_vars

(* The loop goes on, time passes while poll waits, and a patient client    *)
(* reads what it was sent.  Nothing else is promised by the clients.       *)
FairSpec ==
  Spec /\ WF_vars(Loop) /\ SF_vars(Tick) /\ \A c \in Patient : WF_vars(Drain(c))

-----------------------------------------------------------------------------
(* The daemon never loses its place: while it waits for request k of a     *)
(* client it has read, dispatched and answered exactly the requests before *)
(* it; while it answers k, the next byte it writes is the one of that      *)
(* answer that the client lacks.  So each request is dispatched once and   *)
(* each answer arrives whole and in order, in whatever pieces both came,   *)
(* and a slot that is used again has nothing left of its last client.      *)
InPlace(r, c, k) ==
  CASE r.state = "READ_HEADER" ->
         /\ k.taken = ReqEnd(c, k.done) + r.got
         /\ k.out = ReplyEnd(c, k.done)
    [] r.state = "READ_BODY" ->
         /\ r.req = k.done + 1
         /\ k.taken = ReqEnd(c, k.done) + HdrLen + r.body
         /\ k.out = ReplyEnd(c, k.done)
    [] r.state = "WRITE_RESPONSE" ->
         /\ r.req = k.done
         /\ k.taken = ReqEnd(c, k.done)
         /\ k.out = ReplyEnd(c, k.done - 1) + r.off

AnswersInOrder == \A s \in Busy : InPlace(slot[s], slot[s].conn, sock[slot[s].conn])

(* No descriptor leaks and none is used twice: the connections that the    *)
(* daemon holds open are the ones in its slots, one slot each.             *)
OneSlotEach ==
  /\ \A c \in Conns : link[c] = "open" <=> \E s \in Slots : slot[s].conn = c
  /\ \A s, t \in Slots : slot[s].conn = slot[t].conn /\ slot[s].conn # NoConn => s = t

(* What poll reported about a client is never applied to another one: the  *)
(* slots that wait for their turn keep their clients, though connections   *)
(* are accepted between poll and the turn.                                 *)
TurnKeepsClient ==
  [][\A s \in Slots :
       events[s] # "none" /\ events'[s] # "none" => slot'[s].conn = slot[s].conn]_vars

(* Every request that a patient client has sent in full is answered in     *)
(* full, unless the client let its time-out pass first, the daemon runs    *)
(* out of memory, or it ends.                                              *)
Overdue(c) == \E s \in Slots : slot[s].conn = c /\ slot[s].idle > Timeout

PatientAnswered ==
  \A c \in Patient : \A k \in 1..Len(Frames[c]) :
    (/\ link[c] = "open" /\ ~Overdue(c) /\ sock[c].sent >= ReqEnd(c, k)
     /\ \A j \in 1..k : Frames[c][j].valid)
      ~> (sock[c].out >= ReplyEnd(c, k) \/ link[c] = "failed" \/ pc = "down")

(* A connection does not wait for ever: it is accepted or turned away,     *)
(* also when all slots are in use.                                         *)
AcceptedOrRefused == \A c \in Conns : link[c] = "waiting" ~> link[c] # "waiting"

(* A client that sends nothing, or leaves its answer unread in the middle, *)
(* does not keep its slot: every slot is free, or its client did           *)
(* something, again and again (bloomd_close_timed_out_clients).            *)
NoSlotHeld == \A s \in Slots : []<>(slot[s].state = "EMPTY" \/ slot[s].idle = 0 \/ pc = "down")
=============================================================================
