------------------------------- MODULE Inspect -------------------------------
(***************************************************************************)
(* bloominspect: what its report says about each filter on disk, given the *)
(* state of FilterStore (main of bloominspect.c).  It changes nothing.     *)
(* Left out are the verdicts about files that cannot be used: metadata and *)
(* logs that cannot be read (invalid_meta, bad_log), and a pin that cannot *)
(* be opened for another reason than that it is not there, the second of   *)
(* the two reasons for bad_pin.                                            *)
(***************************************************************************)
EXTENDS FilterStore

(* inspect_validate_pin_matches_meta.                                      *)
PinMatches(n) == ParamOf[pin[n]] = par[n]

LogClean(s) == s \in {"empty", "clean"}

(* A log without its pin, which is all that there is of the filter.        *)
Rebuild(n) == IF LogClean(meta[n]) THEN "rebuildable" ELSE "unsafe_rebuild"

(* has_data=0.  As FilterStore has has_data=0 only with log_clean=1, the   *)
(* log of an empty filter is rebuildable, never unsafe_rebuild.            *)
VerdictEmpty(n) ==
  IF pin[n] # NoMap THEN IF PinMatches(n) THEN "ok" ELSE "bad_pin"
                    ELSE IF log[n] = NoFile THEN "ok" ELSE Rebuild(n)

(* has_data=1.                                                             *)
VerdictData(n) ==
  CASE pin[n] # NoMap /\ ~PinMatches(n)                  -> "bad_pin"
    [] pin[n] # NoMap /\ PinMatches(n) /\ log[n] # NoFile -> "ok"
    [] pin[n] # NoMap /\ PinMatches(n) /\ log[n] = NoFile -> "missing_log"
    [] pin[n] = NoMap /\ log[n] # NoFile                  -> Rebuild(n)
    [] pin[n] = NoMap /\ log[n] = NoFile                  -> "stale_meta"

Verdict(n) == IF HasData(meta[n]) THEN VerdictData(n) ELSE VerdictEmpty(n)

(* loaded_names has the filters with data that are pinned.                 *)
BugOrphanPins == {n \in Names : pin[n] # NoMap /\ meta[n] # "clean"}

OrphanPins == {n \in Names : pin[n] # NoMap /\ ~HasData(meta[n])}

-----------------------------------------------------------------------------
(* The filter can be loaded as it is on disk.                              *)
Sound(n) == meta[n] # "absent" /\ Verdict(n) \in {"ok", "rebuildable", "missing_log"}

(* A start can be tried again: no step of one, whether it succeeds, fails  *)
(* at any of its calls and takes back what it did (cleanup_entry) or is    *)
(* killed, and no step of the end of the process, leaves a filter that was *)
(* sound in a state in which bloominspect reports it as bad_pin,           *)
(* unsafe_rebuild or stale_meta.                                           *)
SoundStaysSound == [][Load \/ Shutdown \/ Kill => \A n \in Names : Sound(n) => Sound(n)']_vars

(* Acting on the report loses nothing: the log of a rebuildable filter     *)
(* and the pin of one that is ok hold every digest that was added, and     *)
(* neither stale metadata nor an orphan pin stands for any digest at all.  *)
VerdictKeepsDigests ==
  pc = "down" =>
    \A n \in Names :
      /\ meta[n] # "absent" =>
           /\ Verdict(n) = "rebuildable" => added[n] \subseteq Recs(log[n])
           /\ Verdict(n) = "stale_meta" => added[n] = {}
           /\ Verdict(n) \in {"ok", "missing_log"} =>
                added[n] \subseteq (IF pin[n] = NoMap THEN {} ELSE bits[pin[n]])
      /\ n \in OrphanPins => added[n] = {}
=============================================================================
