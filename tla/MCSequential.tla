---------------------------- MODULE MCSequential ----------------------------
(***************************************************************************)
(* The parts that nothing interleaves with, on small instances: Requests,  *)
(* MetaFile and FilterSet.  They have nothing to do with each other here:  *)
(* a behaviour is one of the first, of the second or of the third.         *)
(***************************************************************************)
EXTENDS Requests, MetaFile, FilterSet

VARIABLE part

mcvars == <<part, reqVars, fileVars, vars>>

(* Four filters; the names of three are as long as they may be, and these  *)
(* three do not fit into one LIST.                                         *)
MCNameLen == [n \in {"a", "b", "c", "d"} |-> IF n = "a" THEN 1 ELSE 40]
MCLists   == {<<>>, <<"b", "a">>, <<"b", "c", "d">>}
MCSlack   == {-4, -1, 0, 1}

PartsInit ==
  /\ ReqInit /\ FileInit /\ Init
  /\ part \in {"requests", "file", "set"}
  /\ part # "requests" => filters = <<>>
  /\ part # "set" => asked = CHOOSE n \in Names : TRUE

PartsNext ==
  \/ part = "requests" /\ ReqNext /\ UNCHANGED <<part, fileVars, vars>>
  \/ part = "file" /\ FileNext /\ UNCHANGED <<part, reqVars, vars>>
  \/ part = "set" /\ Next /\ UNCHANGED <<part, reqVars, fileVars>>

PartsSpec == PartsInit /\ [][PartsNext]_mcvars
=============================================================================
