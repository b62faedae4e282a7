---------------------------- MODULE MCClientLoop ----------------------------
(* ClientLoop for TLC.  For HdrLen = 2 and SockCap = 1 a header and an     *)
(* answer come in up to two pieces.                                        *)
EXTENDS ClientLoop

CONSTANTS c1, c2, c3

Frame(start, body, valid, reply, resp) ==
  [start |-> start, body |-> body, valid |-> valid, reply |-> reply, resp |-> resp]

(* c1 sends two requests, the first with a body; c2 sends a header that is *)
(* not valid; c3 sends nothing.                                            *)
Streams ==
  [c \in Conns |->
     CASE c = c1 -> <<Frame(0, 1, TRUE, 0, 2), Frame(3, 0, TRUE, 2, 1)>>
       [] c = c2 -> <<Frame(0, 0, FALSE, 0, 1)>>
       [] c = c3 -> <<>>]

(* With HdrLen = 1: c1 sends two requests; c2 sends one whose answer needs *)
(* two pieces, and need not read them; c3 sends nothing.                   *)
LiveStreams ==
  [c \in Conns |->
     CASE c = c1 -> <<Frame(0, 0, TRUE, 0, 1), Frame(1, 0, TRUE, 1, 1)>>
       [] c = c2 -> <<Frame(0, 0, TRUE, 0, 2)>>
       [] c = c3 -> <<>>]
=============================================================================
