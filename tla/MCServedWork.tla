---------------------------- MODULE MCServedWork ----------------------------
(* One Program from its approval to its report (pull), or to the stop of    *)
(* its managed run.  Each command names the revision its caller expects     *)
(* when the commands before it are all that happened; the second report     *)
(* follows a review of unknown fate.  The view keeps of the events what     *)
(* their reader can still be told: the sequence numbers never reach         *)
(* MaxEvents.                                                               *)
EXTENDS ServedWork

Request(key, action, rev, claim, of) == [key |-> key, action |-> action, rev |-> rev, claim |-> claim, of |-> of]

Common ==
    {Request("a", "approve", -1, NoClaim, NoClaim), Request("c", "claim", 1, NoClaim, NoClaim)}

MCRequests ==
    [pull |-> Common \cup {Request("s", "start", 2, "c", NoClaim), Request("r", "report", 3, "c", NoClaim),
                           Request("t", "report", 4, "c", NoClaim)},
     managed |-> Common \cup {Request("m", "start-managed", 2, NoClaim, NoClaim),
                              Request("x", "stop", 3, NoClaim, NoClaim),
                              Request("w", "reconcile", 2, NoClaim, NoClaim)}]

\* A reader that was told of a gap needs a snapshot, and one that is behind or has the position of an earlier
\* producer will be told of it.  One at the position of its producer knows what the last snapshot said, and
\* is current until that changes.
Cursor ==
    CASE reader.told = "gap" \/ reader.seq # proj.seq -> "lost"
      [] reader.producer # proj.producer -> "elsewhere"
      [] reader.told = "before" -> "before"
      [] OTHER -> "current"

MCView == <<prog, att, ledger, runtime, [host EXCEPT !.dropped = FALSE], proj.producer, calls, Cursor, log>>
=============================================================================
