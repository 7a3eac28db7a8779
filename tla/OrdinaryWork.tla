---------------------------- MODULE OrdinaryWork ----------------------------
(***************************************************************************)
(* One unit of an ordinary Program, from the owner's approval to the pull  *)
(* request and the comment on the native issue: ports/ordinary.py, with    *)
(* adapters/ordinary_workspace.py, ordinary_managed.py, ordinary_sync.py   *)
(* and the product review of ports/verification.py and kilo_review.py.     *)
(*                                                                         *)
(* A host process makes one call after the other (request, start, report,  *)
(* publish, ...).  Every durable step of a call is an action.  A call may  *)
(* be abandoned by an exception between two steps, and the host may be     *)
(* killed; the next call finds what is durable.  Meanwhile a worker edits  *)
(* the workspace, the owner stops or amends the Program, the native issue  *)
(* changes, time passes, and the reviewer and the forge do what was asked, *)
(* or not.                                                                 *)
(***************************************************************************)
EXTENDS SourceCache, Sequences, SequencesExt, FiniteSets

CONSTANTS
    Modes,        \* kinds of handoff: "pull" and "managed"
    LastRun,      \* the number of verification commands
    Base,         \* the bytes of the approved tree
    Drafts,       \* bytes the worker can write
    Proper,       \* those within the declared paths
    Kernel,       \* the host process, as a user of the source cache
    MaxMeaning,   \* bound: meanings of the native issue
    MaxChanges,   \* bound: edits, changes of the native issue, and deadlines that pass
    KillMayHang,  \* the wait after SIGKILL may exceed its time limit
    None

Bytes == {"empty", "partial", Base} \cup Drafts

\* What capture() digests: the bytes, with the inode, mtime and ctime of every file.  Bytes
\* that are written a second time are another content, because ctime only grows.
Contents == [bytes : Bytes, at : Nat]

ASSUME OrdinaryAssumption ==
    /\ Modes \subseteq {"pull", "managed"} /\ LastRun \in Nat \ {0}
    /\ Base \notin Drafts /\ Proper \subseteq Drafts /\ Kernel \in Users
    /\ MaxMeaning \in Nat \ {0} /\ MaxChanges \in Nat
    /\ None \notin {"ok", "bad", "pass", "fail", "approve", "changes"} \cup Contents
    /\ KillMayHang \in BOOLEAN

VARIABLES
    db,      \* the store: what survives the host
    ctl,     \* the call under way: where it is and what it has read
    host,    \* memory of the host between calls: its connection and handle
    world    \* workspace, processes, native issue, reviewer, forge, time

vars == <<db, ctl, host, world, cacheVars>>

Runs == 1..LastRun
Effects == {"pr", "comment"}
Verdicts == {"approve", "changes"}
Quiet == [pc |-> "idle", i |-> 1, before |-> None, had |-> FALSE, ret |-> None, act |-> "pr"]
NoHost == [conn |-> "none", handle |-> "none"]

Init ==
    /\ CacheInit /\ ctl = Quiet /\ host = NoHost
    /\ \E m \in Modes :
         db = [mode |-> m, status |-> "none", spec |-> 0, revoked |-> FALSE,
               saved |-> "none", attempt |-> "none", meaning |-> 0,
               held |-> FALSE, allowed |-> None, started |-> FALSE, ended |-> {},
               submitted |-> None, objects |-> FALSE, fetched |-> FALSE, prepared |-> None,
               admitted |-> FALSE, op |-> "none", receipt |-> FALSE, cancel |-> "none",
               index |-> FALSE, patch |-> None, kept |-> None,
               pure |-> "none", run |-> [i \in Runs |-> "none"], result |-> [i \in Runs |-> None],
               evidence |-> None, review |-> "none", session |-> FALSE, verdict |-> None,
               reviewed |-> FALSE, accepted |-> None, rejected |-> None,
               topic |-> "none", pub |-> [a \in Effects |-> "none"],
               send |-> [a \in Effects |-> FALSE], native |-> [a \in Effects |-> FALSE],
               settled |-> [a \in Effects |-> FALSE]]
    /\ world = [ws |-> [bytes |-> "empty", at |-> 0], changes |-> 0, meaning |-> 1, late |-> "no",
                group |-> "none", turn |-> "none", turns |-> 0,
                ran |-> [i \in Runs |-> << >>],
                chat |-> "none", asked |-> << >>, pr |-> << >>, comment |-> << >>]

-----------------------------------------------------------------------------
(* What a step may look at. *)

At(pc) == ctl.pc = pc
Go(pc) == ctl' = [ctl EXCEPT !.pc = pc]
Return == ctl' = Quiet
InCall == ctl.pc # "idle"
Keep == UNCHANGED cacheVars

\* propose() and current(): what the native issue and its predecessors mean now, as a
\* specification; recover(): the specification that the stored decision approved.
Proposal == world.meaning
Approved == db.spec

\* OrdinaryProgram.check(): the approval is of the current specification, the native
\* meaning is the approved one, and the work authority has neither ended nor been revoked.
Check ==
    /\ db.status \in {"draft", "active"} /\ ~db.revoked
    /\ Proposal = Approved /\ world.late # "deadline"

\* Mutant: the claim is checked and the stop of the owner is not.
ClaimKeptUnstopped == db.held /\ db.meaning = Approved /\ world.late = "no"

\* _check_work_claim() with authority; for a publication the unit may be satisfied.
ClaimKept ==
    /\ db.held /\ db.status = "active" /\ ~db.revoked /\ db.meaning = Approved
    /\ db.attempt # "cancelled" /\ world.late = "no"

ClaimLive == ClaimKept /\ db.accepted = None

\* _check_workspace_subject(): the owner knows this content from the claim, the preparation
\* or a reconciliation.  The last of them is kept: no earlier content comes back.
Permitted == world.ws = db.allowed

\* Every effect of the Attempt has its settlement, but for the one that is asked about.
Settled(effect) ==
    /\ db.pure # "reserved"
    /\ \A i \in Runs : db.run[i] \in {"none", "settled"} \/ (effect = "run" /\ i = ctl.i)
    /\ db.review = "none" \/ db.reviewed \/ effect = "review"
    /\ \A a \in Effects : db.pub[a] = "none" \/ db.settled[a] \/ effect = a

\* candidate_subject() and _check_claim_candidate(): the worker has settled, so has
\* every other effect, and the workspace is what was submitted.  The observation that
\* observe() adds is then the last one, as no content comes back.
CandidateOK(effect) ==
    /\ db.ended # {} /\ Settled(effect)
    /\ db.submitted = world.ws

-----------------------------------------------------------------------------
(* The owner: approve(), activate() and stop(). *)

\* approve(): the proposal is current, once more inside accept_work_budget().
\* A changed meaning needs an amendment, which ends the Attempts of the old one.
Approve ==
    /\ world.late # "deadline" /\ ~db.revoked /\ db.status # "cancelled"
    /\ db.status # "none" => Approved # Proposal
    /\ db' = [db EXCEPT !.status = IF @ = "none" THEN "draft" ELSE @,
                        !.spec = Proposal,
                        !.saved = IF @ = "current" THEN "stale" ELSE @,
                        !.attempt = IF @ \in {"prepared", "executing"} THEN "cancelled" ELSE @]
    /\ UNCHANGED <<ctl, host, world>> /\ Keep

Activate ==
    /\ Check /\ db.status = "draft"
    /\ db' = [db EXCEPT !.status = "active", !.saved = IF @ = "current" THEN "stale" ELSE @]
    /\ UNCHANGED <<ctl, host, world>> /\ Keep

\* stop_ordinary_program(): cancel what is not complete and revoke, in one transaction.
Stop ==
    /\ db.status # "none" /\ ~db.revoked
    /\ db' = [db EXCEPT !.revoked = TRUE,
                        !.status = IF db.accepted # None /\ db.meaning = Approved THEN @ ELSE "cancelled",
                        !.attempt = IF @ \in {"prepared", "executing"} THEN "cancelled" ELSE @]
    /\ UNCHANGED <<ctl, host, world>> /\ Keep

-----------------------------------------------------------------------------
(* request(): save the revision, claim, prepare the workspace, admit it. *)

Request ==
    /\ At("idle") /\ ~db.admitted
    /\ \/ db.attempt = "none" /\ Check /\ db.status = "active" /\ Go("save")
       \/ db.attempt = "prepared" /\ Check /\ ClaimLive /\ Go("init")
    /\ UNCHANGED <<db, host, world>> /\ Keep

SaveRevision ==
    /\ At("save")
    /\ db' = [db EXCEPT !.saved = IF @ = "none" THEN "current" ELSE @]
    /\ Go("claim") /\ UNCHANGED <<host, world>> /\ Keep

\* claim_work() at the saved revision.  A managed claim names the session resource
\* of the connection of this host, and no other.
Claim ==
    /\ At("claim") /\ Check /\ db.status = "active" /\ db.saved = "current"
    /\ db' = [db EXCEPT !.held = TRUE, !.attempt = "prepared", !.op = "intent",
                        !.meaning = db.spec, !.allowed = world.ws]
    /\ IF db.mode = "managed"
       THEN host' = [host EXCEPT !.conn = "open"] /\ world' = [world EXCEPT !.group = "alive"]
       ELSE UNCHANGED <<host, world>>
    /\ Go("init") /\ Keep

\* initialize(): a stored preparation is only compared; left-overs are not adopted.
Prepared ==
    /\ At("init") /\ db.prepared = world.ws
    /\ Go("admit") /\ UNCHANGED <<db, host, world>> /\ Keep

MakeObjects ==
    /\ At("init") /\ db.prepared = None /\ world.ws.bytes = "empty" /\ ~db.objects /\ ClaimLive
    /\ db' = [db EXCEPT !.objects = TRUE]
    /\ Go("lease") /\ UNCHANGED <<host, world>> /\ Keep

\* source_use(): the Kernel takes the lease of the checkout and fetches from it.
AskForSource ==
    /\ At("lease") /\ OpenToUse(Kernel)
    /\ Go("objects") /\ UNCHANGED <<db, host, world>>

CopyObjects ==
    /\ At("objects") /\ ClaimLive /\ EndUse(Kernel)
    /\ db' = [db EXCEPT !.fetched = TRUE]
    /\ Go("materialize") /\ UNCHANGED <<host, world>>

\* Mutant: capture() digests the bytes and not when they were written.
WroteUndated(bytes) == [bytes |-> bytes, at |-> world.ws.at]

\* What capture() digests after these bytes were written: other times, and so another content.
Wrote(bytes) == [bytes |-> bytes, at |-> world.ws.at + 1]

\* materialize(): file by file; an exception leaves a part of them.
Materialize ==
    /\ At("materialize") /\ ClaimLive
    /\ \/ /\ world.ws.bytes = "empty"
          /\ world' = [world EXCEPT !.ws = Wrote("partial")] /\ UNCHANGED ctl
       \/ /\ world.ws.bytes \in {"empty", "partial"}
          /\ world' = [world EXCEPT !.ws = Wrote(Base)] /\ Go("prepared")
    /\ UNCHANGED <<db, host>> /\ Keep

\* The files are compared with the tree before the preparation is stored.
StorePrepared ==
    /\ At("prepared") /\ world.ws.bytes = Base /\ ClaimLive
    /\ db' = [db EXCEPT !.prepared = world.ws]
    /\ Go("admit") /\ UNCHANGED <<host, world>> /\ Keep

\* accept_ordinary_preparation()
AdmitPrepared ==
    /\ At("admit") /\ ClaimLive /\ db.attempt = "prepared" /\ db.op = "intent" /\ world.ws = db.prepared
    /\ db' = [db EXCEPT !.admitted = TRUE, !.allowed = world.ws]
    /\ Return /\ UNCHANGED <<host, world>> /\ Keep

-----------------------------------------------------------------------------
(* start(), and the managed turn over the connection of this host. *)

\* _close_unlocked(): what a close may make of the connection and of its process group.  The
\* group is gone, or could not be stopped, or the wait after SIGKILL raises, when its process
\* is already forgotten; a close that finds no process and no answer takes it for gone.
Closings ==
    CASE host.conn = "open" -> {[conn |-> "settled", group |-> "dead"],
                                [conn |-> "unsettled", group |-> world.group]}
                               \cup IF KillMayHang THEN {[conn |-> "hung", group |-> world.group]} ELSE {}
      [] host.conn = "hung" -> {[conn |-> "settled", group |-> world.group]}
      [] OTHER              -> {[conn |-> host.conn, group |-> world.group]}

StillOpen == [conn |-> host.conn, group |-> world.group]

\* A pull worker is told that it may begin.
StartPull ==
    /\ At("idle") /\ db.mode = "pull" /\ db.admitted /\ db.attempt = "prepared"
    /\ Check /\ ClaimLive
    /\ db' = [db EXCEPT !.attempt = "executing"]
    /\ UNCHANGED <<ctl, host, world>> /\ Keep

\* Managed: the witness of the owned group comes first.  A start that was dispatched
\* before is never repeated, whatever became of it.
StartManaged ==
    /\ At("idle") /\ db.mode = "managed" /\ db.prepared # None /\ db.op = "intent"
    /\ db.attempt \in {"prepared", "executing"} /\ Check /\ ClaimLive
    /\ host.conn = "open" /\ world.group = "alive"
    /\ db' = [db EXCEPT !.started = TRUE]
    /\ Go("begin") /\ UNCHANGED <<host, world>> /\ Keep

BeginAttempt ==
    /\ At("begin") /\ db.status = "active" /\ db.attempt \in {"prepared", "executing"}
    /\ db' = [db EXCEPT !.attempt = "executing"]
    /\ Go("dispatch") /\ UNCHANGED <<host, world>> /\ Keep

\* claim_owned_operation() for the runtime Operation.
DispatchTurn ==
    /\ At("dispatch") /\ db.op = "intent" /\ ClaimLive /\ Permitted /\ db.started /\ db.ended = {}
    /\ db' = [db EXCEPT !.op = "dispatched"]
    /\ Go("turn") /\ UNCHANGED <<host, world>> /\ Keep

\* runtime.start(): authorize() is the last cut before the turn.  The answer may be no
\* receipt, or not come, which closes the connection.
StartTurn ==
    /\ At("turn") /\ Check /\ ClaimLive /\ Permitted /\ db.ended = {} /\ world.group = "alive"
    /\ \E c \in {StillOpen} \cup Closings :
         /\ world' = [world EXCEPT !.turn = "running", !.turns = @ + 1, !.group = c.group]
         /\ \/ c = StillOpen /\ host' = [host EXCEPT !.handle = "known"] /\ Go("accepted")
            \/ host' = [host EXCEPT !.conn = c.conn] /\ Return
    /\ UNCHANGED db /\ Keep

\* request(): thread/start, or the read of the thread by runtime.observe() and candidate(),
\* has no answer, and closes the connection.  An observation is then unknown, no more.
LoseConnection ==
    /\ host.conn = "open" /\ (At("turn") \/ At("accepted") \/ (At("idle") /\ host.handle = "known"))
    /\ \E c \in Closings :
         /\ world' = [world EXCEPT !.group = c.group] /\ host' = [host EXCEPT !.conn = c.conn]
         /\ IF At("accepted") /\ c.conn # "hung" THEN UNCHANGED ctl ELSE Return
    /\ UNCHANGED db /\ Keep

ObserveTurn ==
    /\ At("accepted")
    /\ db' = [db EXCEPT !.op = "accepted"]
    /\ Go("receipt") /\ UNCHANGED <<host, world>> /\ Keep

StoreReceipt ==
    /\ At("receipt")
    /\ db' = [db EXCEPT !.receipt = TRUE]
    /\ Return /\ UNCHANGED <<host, world>> /\ Keep

\* finish(): the candidate of an ended turn is collected, then the group is retired.
Finish ==
    /\ At("idle") /\ host.handle = "known" /\ Check /\ world.turn = "ended" /\ host.conn = "open"
    /\ ctl' = [Quiet EXCEPT !.pc = "collect", !.ret = "close"]
    /\ UNCHANGED <<db, host, world>> /\ Keep

\* runtime.cancel() remembers that it was called, and closes the connection once only.
Cancelled == IF host.handle = "known" /\ ctl.ret # "close" THEN "cancelled" ELSE host.handle

\* Mutant: the group is taken for settled when it was told to stop.
RetireHopeful ==
    /\ At("close")
    /\ \E g \in {world.group, "dead"} : world' = [world EXCEPT !.group = g]
    /\ host' = [conn |-> "settled", handle |-> Cancelled]
    /\ Go("witness") /\ UNCHANGED db /\ Keep

\* connection.close(), by finish(), by stop() or by runtime.cancel(), also of a connection
\* that was closed before.  A wait that raises ends the call.
Retire ==
    /\ At("close")
    /\ \E c \in Closings :
         /\ world' = [world EXCEPT !.group = c.group]
         /\ host' = [conn |-> c.conn, handle |-> Cancelled]
         /\ IF c.conn = "hung" THEN Return ELSE Go("witness")
    /\ UNCHANGED db /\ Keep

\* witness(): only the connection that the claim names can say that its group ended.
Witness ==
    /\ At("witness") /\ host.conn = "settled" /\ db.held /\ db.started
    /\ db' = IF ctl.ret = "close" THEN [db EXCEPT !.ended = @ \cup {"complete"}]
             ELSE [db EXCEPT !.ended = @ \cup {"stop"}, !.cancel = "settled"]
    /\ Return /\ UNCHANGED <<host, world>> /\ Keep

\* OrdinaryManaged.stop(), also what finish() does when its authority is gone.  A second
\* stop() closes again, unless the handle is known: that cancel() was made before.
StopManaged ==
    /\ At("idle") /\ db.held /\ db.mode = "managed" /\ db.cancel # "settled"
    /\ db' = [db EXCEPT !.cancel = "intent"]
    /\ Go(IF host.conn # "none" /\ host.handle # "cancelled" THEN "close" ELSE "witness")
    /\ UNCHANGED <<host, world>> /\ Keep

\* quiesce() of a pull worker: its promise, not a proof.
Quiesce ==
    /\ At("idle") /\ db.mode = "pull" /\ db.attempt = "executing" /\ db.ended = {}
    /\ Check /\ ClaimLive
    /\ db' = [db EXCEPT !.ended = {"complete"}]
    /\ UNCHANGED <<ctl, host, world>> /\ Keep

\* reconcile(): the owner takes the content of the settled workspace for the Attempt's.
Reconcile ==
    /\ At("idle") /\ db.held /\ db.ended # {} /\ Settled("none") /\ ~Permitted
    /\ db' = [db EXCEPT !.allowed = world.ws]
    /\ UNCHANGED <<ctl, host, world>> /\ Keep

-----------------------------------------------------------------------------
(* report(): submit, collect, finish, check, review, decide. *)

Submit ==
    /\ db.submitted = None /\ db.ended # {} /\ Settled("none") /\ Permitted
    /\ db' = [db EXCEPT !.submitted = world.ws]

Report ==
    /\ At("idle") /\ db.attempt \in {"executing", "finished"} /\ db.accepted = None /\ db.rejected = None
    /\ Check /\ ClaimLive
    /\ \/ Submit
       \/ db.submitted = world.ws /\ UNCHANGED db
    /\ ctl' = [Quiet EXCEPT !.pc = "collect", !.ret = "finish", !.had = db.submitted # None]
    /\ UNCHANGED <<host, world>> /\ Keep

\* restore() and collect(): what is retained is compared with the workspace.
CollectRetained ==
    /\ At("collect") /\ db.kept = world.ws
    /\ Go(ctl.ret) /\ UNCHANGED <<db, host, world>> /\ Keep

\* A collection that did not finish is never overwritten.
Collect ==
    /\ At("collect") /\ db.kept = None /\ ~db.index
    /\ db' = [db EXCEPT !.index = TRUE]
    /\ ctl' = [ctl EXCEPT !.pc = "patch", !.before = world.ws]
    /\ UNCHANGED <<host, world>> /\ Keep

StorePatch ==
    /\ At("patch") /\ world.ws = ctl.before
    /\ db' = [db EXCEPT !.patch = ctl.before]
    /\ Go("candidate") /\ UNCHANGED <<host, world>> /\ Keep

StoreCandidate ==
    /\ At("candidate")
    /\ db' = [db EXCEPT !.kept = ctl.before]
    /\ Go(ctl.ret) /\ UNCHANGED <<host, world>> /\ Keep

\* A review that was asked for is looked up before anything else is done.
FinishAttempt ==
    /\ At("finish") /\ db.status = "active" /\ db.attempt \in {"executing", "finished"}
    /\ db' = [db EXCEPT !.attempt = "finished"]
    /\ Go(IF ctl.had /\ db.review \in {"dispatched", "unknown"} THEN "lookup" ELSE "pure")
    /\ UNCHANGED <<host, world>> /\ Keep

\* The checks of paths and bytes: reserve and dispatch, then store and settle the result.
ReservePure ==
    /\ At("pure") /\ db.pure # "reserved" /\ ClaimLive /\ CandidateOK("none")
    /\ IF db.pure = "none" THEN db' = [db EXCEPT !.pure = "reserved"] /\ Go("purely")
       ELSE UNCHANGED db /\ Go(IF db.pure = "pass" THEN "commands" ELSE "reject")
    /\ UNCHANGED <<host, world>> /\ Keep

RunPure ==
    /\ At("purely") /\ ClaimLive
    /\ LET ok == db.kept.bytes \in Proper /\ world.ws = db.submitted IN
       /\ db' = [db EXCEPT !.pure = IF ok THEN "pass" ELSE "fail"]
       /\ Go(IF ok THEN "commands" ELSE "reject")
    /\ UNCHANGED <<host, world>> /\ Keep

-----------------------------------------------------------------------------
(* check("commands"): each command once, with an owner, a result and a proof. *)

\* Stored evidence is used again; so are the results, when all of them are there.
Commands ==
    /\ At("commands") /\ ClaimLive /\ CandidateOK("none")
    /\ \/ db.evidence # None /\ UNCHANGED db /\ Go(IF db.evidence = "pass" THEN "review" ELSE "reject")
       \/ /\ db.evidence = None /\ \A i \in Runs : db.run[i] = "settled"
          /\ UNCHANGED db /\ Go("evidence")
       \/ /\ db.evidence = None /\ \A i \in Runs : db.result[i] = None
          /\ UNCHANGED db /\ Go("reserve")
    /\ UNCHANGED <<host, world>> /\ Keep

ReserveRun ==
    /\ At("reserve") /\ db.run[ctl.i] \in {"none", "intent"} /\ ClaimLive
    /\ db' = [db EXCEPT !.run[ctl.i] = "intent"]
    /\ Go("deliver") /\ UNCHANGED <<host, world>> /\ Keep

\* dispatch(), which an Operation with an uncertain delivery does not get again.
DispatchRun ==
    /\ At("deliver") /\ db.run[ctl.i] = "intent" /\ ClaimLive
    /\ db.submitted = world.ws
    /\ db' = [db EXCEPT !.run[ctl.i] = "dispatched"]
    /\ Go("owner") /\ UNCHANGED <<host, world>> /\ Keep

BindOwner ==
    /\ At("owner")
    /\ db' = [db EXCEPT !.run[ctl.i] = "owned"]
    /\ ctl' = [ctl EXCEPT !.pc = "run", !.before = world.ws]
    /\ UNCHANGED <<host, world>> /\ Keep

\* run_verification_command(), after check_operation_delivery().
Run ==
    /\ At("run") /\ ClaimLive /\ CandidateOK("run")
    /\ world' = [world EXCEPT !.ran[ctl.i] = Append(@, world.ws)]
    /\ Go("running") /\ UNCHANGED <<db, host>> /\ Keep

\* The command ends and its group is retired.  persist() records the settlement, with
\* the digest of the result, only when the group is known to be gone.
RunEnds ==
    /\ At("running")
    /\ \/ /\ db' = [db EXCEPT !.run[ctl.i] = "ended"]
          /\ \E ok \in {"ok", "bad"} : ctl' = [ctl EXCEPT !.pc = "result", !.ret = ok]
       \/ UNCHANGED db /\ Return
    /\ UNCHANGED <<host, world>> /\ Keep

\* A command that changed the candidate has no result.
StoreResult ==
    /\ At("result") /\ world.ws = ctl.before
    /\ db' = [db EXCEPT !.run[ctl.i] = "kept", !.result[ctl.i] = ctl.ret]
    /\ Go("settle") /\ UNCHANGED <<host, world>> /\ Keep

SettleRun ==
    /\ At("settle")
    /\ db' = [db EXCEPT !.run[ctl.i] = "settled"]
    /\ ctl' = [ctl EXCEPT !.i = IF @ < LastRun THEN @ + 1 ELSE 1,
                          !.pc = IF ctl.i < LastRun THEN "reserve" ELSE "evidence",
                          !.ret = None, !.before = None]
    /\ UNCHANGED <<host, world>> /\ Keep

StoreEvidence ==
    /\ At("evidence")
    /\ LET ok == \A i \in Runs : db.result[i] = "ok" IN
       /\ db' = [db EXCEPT !.evidence = IF ok THEN "pass" ELSE "fail"]
       /\ Go(IF ok THEN "review" ELSE "reject")
    /\ UNCHANGED <<host, world>> /\ Keep

-----------------------------------------------------------------------------
(* dispatch_product_review() and the native Kilo session. *)

\* The intent; a stored receipt is the outcome.
Review ==
    /\ At("review") /\ ClaimLive
    /\ \/ /\ db.verdict # None
          /\ db' = [db EXCEPT !.review = "accepted", !.reviewed = TRUE]
          /\ Go("outcome")
       \/ /\ db.verdict = None /\ db.review \in {"none", "intent"}
          /\ db' = [db EXCEPT !.review = "intent"]
          /\ Go("prompt")
    /\ UNCHANGED <<host, world>> /\ Keep

DispatchReview ==
    /\ At("prompt") /\ db.review = "intent" /\ ClaimLive
    /\ db.submitted = world.ws
    /\ db' = [db EXCEPT !.review = "dispatched"]
    /\ Go("session") /\ UNCHANGED <<host, world>> /\ Keep

\* _call(): the authority of the Operation is checked last, before the request leaves.
MayCall == ClaimLive /\ CandidateOK("review")

\* _binding(): the session of this review is known.
Bound == db.session

\* POST /session; its identity is stored before anything is asked in it.
OpenSession ==
    /\ At("session") /\ MayCall /\ ~Bound
    /\ db' = [db EXCEPT !.session = TRUE]
    /\ ctl' = [ctl EXCEPT !.pc = "ask", !.before = world.ws]
    /\ UNCHANGED <<host, world>> /\ Keep

\* POST /message, the sole prompt; it carries the collected candidate.
Ask ==
    /\ At("ask") /\ MayCall
    /\ world' = [world EXCEPT !.chat = "asked", !.asked = Append(@, db.kept)]
    /\ Go("reply") /\ UNCHANGED <<db, host>> /\ Keep

\* _receipt(): a completed reply of the reviewer, of the schema that was asked for.
Receipt == world.chat \in Verdicts

\* reconcile(): the answer to the sole prompt of the session that is bound.
Found == Bound /\ Receipt

Reply ==
    /\ At("reply") /\ Found
    /\ db' = [db EXCEPT !.verdict = world.chat]
    /\ Go("observeReview") /\ UNCHANGED <<host, world>> /\ Keep

\* Any failure on the way is an unknown outcome, which ends the report.
ReviewUnknown ==
    /\ ctl.pc \in {"session", "ask", "reply", "lookup"} /\ db.verdict = None
    /\ db' = [db EXCEPT !.review = "unknown"]
    /\ Return /\ UNCHANGED <<host, world>> /\ Keep

\* reconcile(), under no_new_prompt: the answer is found, or nothing is known.
Lookup ==
    /\ At("lookup") /\ (Found \/ db.verdict # None)
    /\ db' = [db EXCEPT !.verdict = IF @ = None THEN world.chat ELSE @,
                        !.review = "accepted", !.reviewed = TRUE]
    /\ Go("pure") /\ UNCHANGED <<host, world>> /\ Keep

ObserveReview ==
    /\ At("observeReview")
    /\ db' = [db EXCEPT !.review = "accepted", !.reviewed = TRUE]
    /\ Go("outcome") /\ UNCHANGED <<host, world>> /\ Keep

\* _review_outcome()
Outcome ==
    /\ At("outcome")
    /\ Go(IF db.verdict = "approve" THEN "current" ELSE "reject")
    /\ UNCHANGED <<db, host, world>> /\ Keep

Reject ==
    /\ At("reject") /\ ~db.revoked /\ world.late # "deadline"
    /\ db' = [db EXCEPT !.rejected = IF db.verdict = None THEN "failed" ELSE db.verdict]
    /\ Return /\ UNCHANGED <<host, world>> /\ Keep

\* current_subject(), then the Program must be the one the report began with.
Current ==
    /\ At("current") /\ Check /\ ClaimLive /\ CandidateOK("none")
    /\ Go("accept") /\ UNCHANGED <<db, host, world>> /\ Keep

Accept ==
    /\ At("accept") /\ db.status = "active" /\ ~db.revoked /\ db.meaning = Approved
    /\ world.late # "deadline"
    /\ db' = [db EXCEPT !.accepted = db.kept]
    /\ Return /\ UNCHANGED <<host, world>> /\ Keep

-----------------------------------------------------------------------------
(* OrdinarySync.publish(): the pull request, then the comment that refers to it. *)

\* accepted(): the unit is satisfied by this Attempt, and its bytes are still there.
Accepted == db.accepted # None /\ db.meaning = Approved /\ db.kept # None /\ world.ws = db.submitted

Publication ==
    /\ At("idle") /\ Accepted /\ ~db.settled["comment"]
    /\ ctl' = [Quiet EXCEPT !.pc = "topic"]
    /\ UNCHANGED <<db, host, world>> /\ Keep

\* The random topic is drawn once, in the intent; the artifact repeats it.
Topic ==
    /\ At("topic") /\ db.topic # "stored"
    /\ db' = [db EXCEPT !.topic = IF @ = "none" THEN "intent" ELSE "stored"]
    /\ UNCHANGED <<ctl, host, world>> /\ Keep

\* authorize_publication(): an earlier authorization is returned as it is.
AuthorizePublication ==
    /\ At("topic") /\ db.topic = "stored"
    /\ \/ db.pub[ctl.act] # "none" /\ UNCHANGED db
       \/ /\ db.pub[ctl.act] = "none" /\ ClaimKept /\ CandidateOK(ctl.act)
          /\ db' = [db EXCEPT !.pub[ctl.act] = "intent"]
    /\ Go("publish") /\ UNCHANGED <<host, world>> /\ Keep

DispatchPublication ==
    /\ At("publish") /\ db.pub[ctl.act] = "intent" /\ ClaimKept /\ CandidateOK(ctl.act)
    /\ db' = [db EXCEPT !.pub[ctl.act] = "dispatched"]
    /\ UNCHANGED <<ctl, host, world>> /\ Keep

\* Mutant: whether the effect was sent is only remembered by its Operation.
SendOrReadUnmarked ==
    /\ At("publish") /\ db.pub[ctl.act] # "intent"
    /\ IF /\ db.pub[ctl.act] = "dispatched" /\ ~db.native[ctl.act]
          /\ ctl.act = "comment" => world.comment = << >> /\ Proposal = Approved
       THEN db' = [db EXCEPT !.send[ctl.act] = TRUE] /\ Go("send")
       ELSE UNCHANGED db /\ Go("readback")
    /\ UNCHANGED <<host, world>> /\ Keep

\* physical-send is stored before the effect is sent, and forbids to send it again.
\* A comment is looked for first.
SendOrRead ==
    /\ At("publish") /\ db.pub[ctl.act] # "intent"
    /\ IF /\ db.pub[ctl.act] = "dispatched" /\ ~db.native[ctl.act] /\ ~db.send[ctl.act]
          /\ ctl.act = "comment" => world.comment = << >> /\ Proposal = Approved
       THEN db' = [db EXCEPT !.send[ctl.act] = TRUE] /\ Go("send")
       ELSE UNCHANGED db /\ Go("readback")
    /\ UNCHANGED <<host, world>> /\ Keep

\* before_send() is the last cut.  The effect happens or not, the answer comes or not;
\* an exception ends the call, but for one of the comment.
Send ==
    /\ At("send") /\ (ctl.act = "pr" => Proposal = Approved)
    /\ Accepted /\ ClaimKept /\ CandidateOK(ctl.act) /\ db.pub[ctl.act] = "dispatched"
    /\ world' \in {world, [world EXCEPT ![ctl.act] = Append(@, db.kept)]}
    /\ Go("readback") \/ Return
    /\ UNCHANGED <<db, host>> /\ Keep

\* _pr_readback() and _comments(): exactly one effect with this marker, as far as the
\* forge answers, while the native meaning is the approved one.
Readback ==
    /\ At("readback") /\ Accepted
    /\ \/ /\ Len(world[ctl.act]) = 1 /\ Proposal = Approved
          /\ db' = [db EXCEPT !.native[ctl.act] = TRUE] /\ Go("observe")
       \/ /\ db' = [db EXCEPT !.pub[ctl.act] = IF @ = "dispatched" THEN "unknown" ELSE @]
          /\ Return
    /\ UNCHANGED <<host, world>> /\ Keep

ObservePublication ==
    /\ At("observe")
    /\ db' = [db EXCEPT !.pub[ctl.act] = "accepted"]
    /\ Go("settlePublication") /\ UNCHANGED <<host, world>> /\ Keep

SettlePublication ==
    /\ At("settlePublication")
    /\ db' = [db EXCEPT !.settled[ctl.act] = TRUE]
    /\ ctl' = IF ctl.act = "pr" THEN [Quiet EXCEPT !.pc = "topic", !.act = "comment"] ELSE Quiet
    /\ UNCHANGED <<host, world>> /\ Keep

-----------------------------------------------------------------------------
(* Failures and the world. *)

\* A call ends by an exception; a lease of the source is given back.
Abandon ==
    /\ InCall /\ Return
    /\ IF At("objects") THEN Kill(Kernel) ELSE Keep
    /\ UNCHANGED <<db, host, world>>

\* The host is killed.  The group of its connection and a command may live on.
Crash ==
    /\ InCall \/ host # NoHost
    /\ Return /\ host' = NoHost
    /\ IF At("objects") THEN Kill(Kernel) ELSE Keep
    /\ UNCHANGED <<db, world>>

\* Anyone who can write the workspace does, at any moment, also bytes it had before.
Edit(bytes) ==
    /\ world.ws.bytes # "empty" /\ world.changes < MaxChanges
    /\ world' = [world EXCEPT !.ws = Wrote(bytes), !.changes = @ + 1]
    /\ UNCHANGED <<db, ctl, host>> /\ Keep

NativeChanges ==
    /\ db.status # "none" /\ world.meaning < MaxMeaning /\ world.changes < MaxChanges
    /\ world' = [world EXCEPT !.meaning = @ + 1, !.changes = @ + 1]
    /\ UNCHANGED <<db, ctl, host>> /\ Keep

\* First the lease of the claim ends, unless it is renewed, and then the authority.
TimePasses ==
    /\ db.status # "none" /\ world.late # "deadline" /\ world.changes < MaxChanges
    /\ world' = [world EXCEPT !.changes = @ + 1,
                              !.late = IF @ = "no" /\ db.held THEN "lease" ELSE "deadline"]
    /\ UNCHANGED <<db, ctl, host>> /\ Keep

TurnEnds ==
    /\ world.turn = "running" /\ world.group = "alive"
    /\ world' = [world EXCEPT !.turn = "ended"]
    /\ UNCHANGED <<db, ctl, host>> /\ Keep

\* The reviewer answers; or somebody else writes into the session.
ReviewerWrites ==
    /\ world.chat = "asked"
    /\ \E v \in Verdicts \cup {"other"} : world' = [world EXCEPT !.chat = v]
    /\ UNCHANGED <<db, ctl, host>> /\ Keep

\* The other users of the cache, and the Kernel where it acquires before a request;
\* the cache is followed until the objects are copied.
CacheStep ==
    /\ ~db.fetched
    /\ \/ GitEnds
       \/ \E u \in Users : Acquire(u) /\ (u = Kernel => At("idle") \/ step[u] = "leasing")
       \/ \E u \in Users \ {Kernel} : OpenToUse(u) \/ EndUse(u) \/ (step[u] # "out" /\ Kill(u))
       \/ At("idle") /\ step[Kernel] # "out" /\ Kill(Kernel)
    /\ UNCHANGED <<db, ctl, host, world>>

Handle ==
    \/ Approve \/ Activate \/ Stop
    \/ Request \/ SaveRevision \/ Claim \/ Prepared \/ MakeObjects \/ AskForSource \/ CopyObjects
    \/ Materialize \/ StorePrepared \/ AdmitPrepared
    \/ StartPull \/ StartManaged \/ BeginAttempt \/ DispatchTurn \/ StartTurn \/ LoseConnection \/ ObserveTurn
    \/ StoreReceipt \/ Finish \/ Retire \/ Witness \/ StopManaged \/ Quiesce \/ Reconcile
    \/ Report \/ CollectRetained \/ Collect \/ StorePatch \/ StoreCandidate \/ FinishAttempt
    \/ ReservePure \/ RunPure \/ Commands \/ ReserveRun \/ DispatchRun \/ BindOwner \/ Run \/ RunEnds
    \/ StoreResult \/ SettleRun \/ StoreEvidence
    \/ Review \/ DispatchReview \/ OpenSession \/ Ask \/ Reply \/ ReviewUnknown \/ Lookup
    \/ ObserveReview \/ Outcome \/ Reject \/ Current \/ Accept
    \/ Publication \/ Topic \/ AuthorizePublication \/ DispatchPublication \/ SendOrRead \/ Send
    \/ Readback \/ ObservePublication \/ SettlePublication

Environment ==
    \/ Abandon \/ Crash \/ NativeChanges \/ TimePasses \/ TurnEnds \/ ReviewerWrites
    \/ CacheStep \/ \E bytes \in Drafts : Edit(bytes)

Next == Handle \/ Environment

Spec == Init /\ [][Next]_vars

-----------------------------------------------------------------------------
(* Properties. *)

(* Whatever is retried after lost answers, exceptions and crashes, the world *)
(* sees one turn, one run of each command, one prompt to the reviewer, one   *)
(* pull request and one comment.  (start(), check(), dispatch_product_       *)
(* review(), publish().)                                                     *)
EffectsOnce ==
    /\ world.turns <= 1 /\ Len(world.asked) <= 1
    /\ \A i \in Runs : Len(world.ran[i]) <= 1
    /\ Len(world.pr) <= 1 /\ Len(world.comment) <= 1

(* The accepted content is the one that was submitted and collected; every   *)
(* command ran on it and passed, and the reviewer was asked about it and     *)
(* approved, whoever wrote the workspace in between.  What is published is   *)
(* what was accepted, and a comment points at an existing pull request.      *)
(* (report(), collect(), check(), publish().)                                *)
AcceptedAsChecked ==
    /\ db.accepted # None =>
         /\ db.accepted.bytes \in Proper
         /\ db.accepted = db.submitted /\ db.accepted = db.patch
         /\ \A i \in Runs : world.ran[i] = <<db.accepted>> /\ db.result[i] = "ok"
         /\ world.asked = <<db.accepted>> /\ db.verdict = "approve"
    /\ \A a \in Effects : world[a] # << >> => world[a] = <<db.accepted>>
    /\ world.comment # << >> => world.pr # << >>

(* A managed claim that counts as settled has no live process group, however *)
(* often its connection was closed, by itself, by finish() or by stop().     *)
(* (witness(), finish(), stop(), _close_unlocked().)                         *)
SettledIsQuiet ==
    db.mode = "managed" /\ db.ended # {} => world.group = "dead"

(* After the owner's stop nothing is started or sent any more, whichever     *)
(* call the stop came into.  (stop_ordinary_program(), check_operation_      *)
(* delivery().)                                                              *)
SilentAfterStop ==
    [][db.revoked => /\ world'.turns = world.turns /\ world'.ran = world.ran
                     /\ world'.asked = world.asked /\ world'.pr = world.pr
                     /\ world'.comment = world.comment]_vars

-----------------------------------------------------------------------------
(* The inductive strengthening, in parts. *)

\* The records have their fields, and what indexes them is in range.
DbOK ==
    /\ DOMAIN db = {"mode", "status", "spec", "revoked", "saved", "attempt", "meaning", "held", "allowed",
                    "started", "ended", "submitted", "objects", "fetched", "prepared", "admitted", "op", "receipt",
                    "cancel", "index", "patch", "kept", "pure", "run", "result", "evidence", "review", "session",
                    "verdict", "reviewed", "accepted", "rejected", "topic", "pub", "send", "native", "settled"}
    /\ DOMAIN db.run = Runs /\ DOMAIN db.result = Runs /\ DOMAIN db.send = Effects

CtlOK == DOMAIN ctl = {"pc", "i", "before", "had", "ret", "act"} /\ ctl.i \in Runs /\ ctl.act \in Effects

WorldOK ==
    /\ DOMAIN world = {"ws", "changes", "meaning", "late", "group", "turn", "turns", "ran", "chat",
                       "asked", "pr", "comment"}
    /\ DOMAIN world.ran = Runs /\ world.ws \in Contents

OrdinaryTypeOK == DbOK /\ CtlOK /\ WorldOK /\ DOMAIN host = {"conn", "handle"}

\* The Attempt is claimed once, its turn is dispatched once, and a connection that says
\* its group has ended is right.
ClaimedOnce ==
    /\ ctl.pc \in {"save", "claim"} => db.attempt = "none"
    /\ db.attempt = "none" => db.op = "none" /\ ~db.held /\ db.ended = {}
    /\ db.op \in {"none", "intent"} \/ At("turn") => world.turns = 0
    /\ ctl.pc \in {"turn", "accepted"} => db.op \notin {"none", "intent"}
    /\ world.turns \in {0, 1}

\* If the wait after SIGKILL returns in time, a connection that says so has no group left.
ConnectionTrue ==
    ~KillMayHang => host.conn # "hung" /\ (host.conn = "settled" => world.group = "dead") /\ SettledIsQuiet

\* The content is collected once, not before it was submitted to the report that goes on,
\* and the report checks it only if it is the submitted one.
Collecting == {"collect", "patch", "candidate"}
Checking == {"reserve", "deliver", "owner", "run", "running", "result", "settle", "evidence"}
Reviewing == {"review", "prompt", "session", "ask", "reply", "observeReview", "outcome", "current", "accept"}
Reporting == {"finish", "lookup", "pure", "purely", "commands", "reject"} \cup Checking \cup Reviewing

\* c is the content d, or an earlier one.
Upto(c, d) == c = d \/ c.at < d.at

CollectedOnce ==
    /\ db.kept # None => db.kept = db.patch /\ db.index /\ db.kept \in Contents /\ Upto(db.kept, world.ws)
    /\ ctl.pc \in Collecting => ctl.ret \in {"finish", "close"}
    /\ ctl.pc \in Collecting /\ ctl.ret = "finish" =>
        /\ db.submitted \in Contents /\ db.accepted = None
        /\ Upto(db.submitted, IF At("collect") THEN world.ws ELSE ctl.before)
    /\ ctl.pc \in {"patch", "candidate"} =>
        db.kept = None /\ db.index /\ ctl.before \in Contents /\ Upto(ctl.before, world.ws)
    /\ At("candidate") => db.patch = ctl.before
    /\ ctl.pc \in Reporting => /\ db.kept # None /\ db.submitted \in Contents /\ db.accepted = None
                               /\ Upto(db.submitted, db.kept)
    /\ ctl.pc \in Reporting \ {"finish", "lookup", "pure", "reject"} => db.submitted = db.kept
    /\ db.pure = "pass" => db.kept # None /\ db.kept.bytes \in Proper

\* A command runs once, on the submitted bytes, and its result is stored once.
RunsOnce ==
    /\ \A i \in Runs :
        /\ IF world.ran[i] = << >> THEN db.result[i] = None
           ELSE /\ world.ran[i] = <<db.submitted>> /\ db.submitted # None
                /\ db.run[i] \notin {"none", "intent", "dispatched"}
        /\ db.result[i] # None => db.run[i] \in {"kept", "settled"}
    /\ At("owner") => db.run[ctl.i] = "dispatched"
    /\ At("run") => db.run[ctl.i] = "owned" /\ world.ran[ctl.i] = << >>
    /\ ctl.pc \in {"running", "result", "settle"} => world.ran[ctl.i] # << >>
    /\ ctl.pc \in {"running", "result"} => db.result[ctl.i] = None
    /\ At("settle") => db.run[ctl.i] = "kept"
    /\ db.evidence = "pass" => \A i \in Runs : db.result[i] = "ok"
    /\ ctl.pc \in Checking \cup Reviewing \cup {"commands"} => db.pure = "pass"
    /\ ctl.pc \in Reviewing => db.evidence = "pass"

\* The reviewer is asked once, about the collected bytes, before there is a verdict.
AskedOnce ==
    /\ ~db.session \/ At("ask") => world.asked = << >>
    /\ At("ask") => db.session
    /\ world.asked = << >> \/ (world.asked = <<db.kept>> /\ db.kept # None)
    /\ world.chat # "none" \/ db.verdict # None => world.asked # << >>
    /\ ctl.pc \in {"current", "accept"} => db.verdict = "approve"

\* An effect is sent once, for an accepted candidate, and the comment after the pull request.
SentOnce ==
    /\ \A a \in Effects : /\ ~db.send[a] => world[a] = << >>
                          /\ world[a] # << >> => db.accepted # None
    /\ At("send") => world[ctl.act] = << >> /\ db.send[ctl.act]
    /\ ctl.pc \in {"observe", "settlePublication"} => world[ctl.act] # << >>
    /\ ctl.act = "comment" => world.pr # << >>
    /\ db.accepted # None => db.accepted = db.kept

OrdinaryInv ==
    /\ OrdinaryTypeOK /\ ClaimedOnce /\ CollectedOnce /\ RunsOnce /\ AskedOnce /\ SentOnce
    /\ AcceptedAsChecked /\ ConnectionTrue /\ CacheInv
=============================================================================
