--------------------------- MODULE FilterStoreImpl ---------------------------
(***************************************************************************)
(* FilterStore implements StoreSpec: a filter exists while its metadata    *)
(* file does, it is served while it is in the filter set, and what CHECK   *)
(* finds is what is in the map of its descriptor.                          *)
(***************************************************************************)
EXTENDS FilterStoreInv

Exists == [n \in Names |-> meta[n] # "absent"]
Found  == [n \in Names |-> IF n \in Loaded THEN bits[fd[n]] ELSE {}]

Store == INSTANCE StoreSpec WITH exists <- Exists, served <- Loaded, kept <- added, view <- Found

(* Every step of bloomd, of its environment and every crash is one that    *)
(* StoreSpec allows: in between the system calls of a handler, and after   *)
(* any of them fails, a filter finds what was added to it, and it is found *)
(* by the next start.                                                      *)
ImplementsStore == Store!Spec

LoadingPcs == {"load", "load_pin", "load_log"}

(* While bloomd serves requests, a filter that it does not serve holds no  *)
(* digests: bloomd_load_metadata_dir has left none of them behind, and a   *)
(* CREATE of that name does not bury any.                                  *)
ServesAll ==
  pc \notin {"down", "free"} =>
    \A n \in Names :
      \/ added[n] = {} \/ n \in Loaded
      \/ pc \in LoadingPcs /\ n \in queue
      \/ pc \in {"load_pin", "load_log"} /\ n = cur
=============================================================================
