--------------------------- MODULE MCOrdinaryWork ---------------------------
(* An ordinary Program with one unit, in either kind of handoff, on a cache *)
(* that another process uses too.  The view leaves out what no later step   *)
(* looks at: the cache after the objects are copied or the Program was      *)
(* stopped, the saved revision after the claim, and the time after the stop.*)
EXTENDS OrdinaryWork

MCView ==
    <<IF db.held THEN [db EXCEPT !.saved = "none"] ELSE db, ctl, host,
      [world EXCEPT !.late = IF db.revoked THEN "no" ELSE @],
      IF db.fetched \/ db.revoked THEN << >> ELSE cacheVars>>
=============================================================================
