----------------------------- MODULE ServedWork -----------------------------
(***************************************************************************)
(* The served surface of one Program: adapters/served_local.py, the client *)
(* of served_client.py, ports/served.py and core/served.py.                *)
(*                                                                         *)
(* A host process owns the store and answers frames, one at a time, on the *)
(* channels of a worker session and of an owner session.  A command names  *)
(* the revision its caller has seen; it is journalled before it runs and   *)
(* its receipt after it.  It runs in several transactions, and between two *)
(* of them the code calls out (source readers, workspace, reviewer, native *)
(* runtime): on the store's own thread such a callback can admit another   *)
(* decision or answer another channel, so calls nest.  The host may die at *)
(* any moment, answers get lost, and clients repeat their commands.  What  *)
(* a command does inside is OrdinaryWork's and WorkOwnership's subject;    *)
(* here a command is the list of its transactions.                         *)
(***************************************************************************)
EXTENDS Integers, Sequences, FiniteSets

CONSTANTS
    Modes,         \* kinds of handoff: "pull" and "managed"
    Requests,      \* what clients send, for each kind: records [key, action, rev, claim, of]
    NoClaim,       \* no claim command
    MaxOther,      \* bound: decisions taken outside the served commands
    MaxDepth,      \* bound: a frame, and frames answered inside its callbacks
    MaxHosts,      \* bound: host processes, one after the other
    MaxEvents,     \* bound: events of one projection
    Capacity,      \* events a projection retains
    MaxListed,     \* commands a snapshot lists
    MaxHandoffs,   \* handoffs a worker session keeps
    MaxChannels,   \* channels a session has at a time
    MaxSeen,       \* decisions a notifier remembers
    KillMayHang    \* the wait after SIGKILL may exceed its time limit

WorkerActions == {"claim", "start", "quiesce", "renew", "submit", "report"}
OwnerActions == {"approve", "stop", "start-managed", "reconcile"}

\* What the client program agrees to send: a claim id for the actions on a claim and no other, the attempt
\* to remedy for a claim only, and the revision -1 (no Program yet) for an approval only.
WellFormed(req) ==
    /\ req.action \in WorkerActions \cup OwnerActions
    /\ (req.claim # NoClaim) = (req.action \in WorkerActions \ {"claim"})
    /\ req.of # NoClaim => req.action = "claim"
    /\ req.rev \in Int /\ req.rev >= (IF req.action = "approve" THEN -1 ELSE 0)

ASSUME ServedAssumption ==
    /\ \A m \in Modes : \A r \in Requests[m] : WellFormed(r)
    /\ Modes \subseteq {"pull", "managed"} /\ MaxOther \in Nat /\ MaxDepth \in Nat \ {0} /\ MaxHosts \in Nat \ {0}
    /\ MaxEvents \in Nat /\ {Capacity, MaxListed, MaxHandoffs, MaxChannels, MaxSeen} \subseteq Nat \ {0}
    /\ KillMayHang \in BOOLEAN

VARIABLES
    prog,      \* the Program's head: revision, specification, status
    att,       \* the Attempt of each claim command
    ledger,    \* the journalled commands and their receipts
    runtime,   \* the managed process group
    host,      \* the memory of the host: sessions, handoffs, notifier
    proj,      \* its projection: producer, last sequence, last fingerprint
    calls,     \* the frames being answered, the innermost last
    reader,    \* a client that follows the events
    log,       \* ghost: the transactions of commands, each at its revision
    answer     \* ghost: what this step tells a client

servedVars == <<prog, att, ledger, runtime, host, proj, calls, reader, log, answer>>
store == <<prog, att, ledger, runtime>>

Side(req) == IF req.action \in OwnerActions THEN "owner" ELSE "worker"
Op(req) == <<Side(req), req.key>>
Claims == UNION {{r.key : r \in {q \in Requests[m] : q.action = "claim"}} : m \in Modes}

\* What a notifier may announce of an Attempt, each under an identity of its own.
Decisions == Claims \X {"review", "rejection"}

NoSession == [open |-> FALSE, spec |-> 0, bound |-> NoClaim, run |-> "none"]
NewHost == [up |-> TRUE, worker |-> NoSession, owner |-> NoSession, handoffs |-> {},
            seen |-> {}, sent |-> [d \in Decisions |-> 0], dropped |-> FALSE]

NoAnswer == [op |-> NoClaim, exact |-> NoClaim, value |-> "unknown"]
Silent == answer' = NoAnswer

ServedInit ==
    /\ \E m \in Modes : prog = [rev |-> -1, spec |-> 0, status |-> "absent", mode |-> m, other |-> 0]
    /\ att = [k \in Claims |-> [status |-> "none", spec |-> 0, of |-> NoClaim, review |-> "none"]]
    /\ ledger = << >> /\ runtime = "none"
    /\ host = NewHost /\ proj = [producer |-> 1, seq |-> 0, last |-> "none"]
    /\ calls = << >>
    /\ reader = [producer |-> 0, seq |-> 0, current |-> FALSE, told |-> "gap"]
    /\ log = {} /\ answer = NoAnswer

----------------------------------------------------------------------------
(* Sessions and channels.                                                   *)

\* A host binds a session to the approval it recovered, the owner's also to a handoff, if there is one, and
\* perhaps to the managed run of it.  It revokes the session it had, whose channels close: an answer that
\* was under way on one is lost.
OpenSession(s) ==
    /\ host.up /\ calls = << >>
    /\ s = "worker" => prog.spec > 0
    /\ \E b \in IF s = "worker" \/ \A k \in Claims : att[k].status = "none" THEN {NoClaim}
              ELSE {k \in Claims : att[k].status # "none"} :
       \E m \in IF prog.mode = "managed" /\ b # NoClaim THEN {"none", "idle"} ELSE {"none"} :
         host' = [host EXCEPT ![s] = [open |-> TRUE, spec |-> prog.spec, bound |-> b, run |-> m],
                              !.handoffs = IF s = "worker" THEN {} ELSE @]
    /\ UNCHANGED <<store, proj, calls, reader, log>>

\* Each frame comes on a channel of its own, which the host attaches for it and detaches after it.
Attach(s) ==
    /\ host.up /\ host[s].open
    /\ Cardinality({i \in DOMAIN calls : Side(calls[i].req) = s}) < MaxChannels

\* The store's thread listens between calls, and in the callbacks of one.
Listening == Len(calls) < MaxDepth /\ (calls # << >> => calls[Len(calls)].pc \in {"check", "run"})

----------------------------------------------------------------------------
(* Commands.                                                                *)

Steps ==
    [action \in WorkerActions \cup OwnerActions |->
        CASE action = "claim" -> <<"claim", "prepare">>
          [] action = "report" -> <<"submit", "finish", "judge">>
          [] action = "start-managed" -> <<"start", "dispatch">>
          [] action = "stop" -> <<"stop", "retire">>
          [] OTHER -> <<action>>]

\* The steps that admit a decision of the Program, each a new revision.
Decides(e) == e.step \in {"claim", "start", "finish", "stop", "approve"} \/ (e.step = "judge" /\ e.result = "accepted")

\* What the journal binds a command to, besides its own fields.
Exact(req) ==
    [req |-> req,
     bind |-> CASE req.action = "stop" -> <<host.owner.spec, host.owner.bound>>
                [] req.action \in {"start-managed", "reconcile"} -> <<0, host.owner.bound>>
                [] OTHER -> <<0, NoClaim>>]

\* What each capability admits, before it looks at the journal or the Program: a worker has room for a
\* handoff or holds the one it names, of the right kind; an owner has what the host bound for the action.
ClaimAdmitted(req) == req.key \in host.handoffs \/ Cardinality(host.handoffs) < MaxHandoffs
StartAdmitted(req) == req.claim \in host.handoffs /\ prog.mode = "pull"
QuiesceAdmitted(req) == req.claim \in host.handoffs /\ prog.mode = "pull"
RenewAdmitted(req) == req.claim \in host.handoffs
CandidateAdmitted(req) == req.claim \in host.handoffs
StopAdmitted == host.owner.spec > 0
StartManagedAdmitted == host.owner.run # "none"
ReconcileAdmitted == host.owner.bound # NoClaim

Admitted(req) ==
    CASE req.action = "claim" -> ClaimAdmitted(req)
      [] req.action = "start" -> StartAdmitted(req)
      [] req.action = "quiesce" -> QuiesceAdmitted(req)
      [] req.action = "renew" -> RenewAdmitted(req)
      [] req.action \in {"submit", "report"} -> CandidateAdmitted(req)
      [] req.action = "stop" -> StopAdmitted
      [] req.action = "start-managed" -> StartManagedAdmitted
      [] req.action = "reconcile" -> ReconcileAdmitted
      [] OTHER -> TRUE

Target(req) == IF req.action = "start-managed" THEN host.owner.bound ELSE req.claim

\* The caller's revision is the Program's, and a new start finds an unstarted Attempt.
CallerCurrent(req) ==
    /\ prog.rev = req.rev
    /\ req.action \in {"start", "start-managed"} => att[Target(req)].status \in {"claimed", "ready"}

\* OrdinaryProgram.check: the approval the session holds is that of the current work.
Approved == prog.status \in {"draft", "active"} /\ host.worker.spec = prog.spec

NewCall(req, pc) ==
    [req |-> req, exact |-> Exact(req), target |-> Target(req), pc |-> pc,
     todo |-> Steps[req.action], at |-> req.rev, result |-> "accepted"]

Intent(frame) ==
    IF Op(frame.req) \in DOMAIN ledger THEN ledger
    ELSE [o \in DOMAIN ledger \cup {Op(frame.req)} |->
            IF o \in DOMAIN ledger THEN ledger[o] ELSE [exact |-> frame.exact, receipt |-> "none"]]

Tell(frame, value) == answer' = [op |-> Op(frame.req), exact |-> frame.exact, value |-> value]

SameInputIgnored(req) == TRUE
SameInput(req) == ledger[Op(req)].exact = Exact(req)

\* A new worker command first consults the approval, which calls out.
BeginWorker(req) ==
    /\ Listening /\ Side(req) = "worker" /\ Attach("worker") /\ Admitted(req) /\ Op(req) \notin DOMAIN ledger
    /\ calls' = Append(calls, NewCall(req, "check"))
    /\ UNCHANGED <<store, host, proj, reader, log>>

\* A new owner command compares the revision and is journalled at once; a managed run then keeps its handoff.
BeginOwner(req) ==
    /\ Listening /\ Side(req) = "owner" /\ Attach("owner") /\ Admitted(req) /\ Op(req) \notin DOMAIN ledger
    /\ CallerCurrent(req)
    /\ calls' = Append(calls, NewCall(req, "run"))
    /\ ledger' = Intent(NewCall(req, "run"))
    /\ host' = IF req.action = "start-managed" THEN [host EXCEPT !.owner.run = IF @ = "idle" THEN "held" ELSE @] ELSE host
    /\ UNCHANGED <<prog, att, runtime, log>>

Top == calls[Len(calls)]
Running(pc) == calls # << >> /\ Top.pc = pc
Popped == SubSeq(calls, 1, Len(calls) - 1)

\* After the check: the revision is read, and the command journalled (again, if a callback served it).
Journal ==
    /\ Running("check") /\ Approved /\ CallerCurrent(Top.req)
    /\ Op(Top.req) \in DOMAIN ledger => ledger[Op(Top.req)].exact = Top.exact
    /\ ledger' = Intent(Top) /\ calls' = [calls EXCEPT ![Len(calls)].pc = "run"]
    /\ UNCHANGED <<prog, att, runtime, host, log>>

\* A callback raises, a check fails, authority has lapsed, the workspace differs...: the channel is closed
\* without an answer, as it is at once for a malformed, unbound, stale or conflicting frame.
CallRefused ==
    /\ calls # << >> /\ Top.pc # "reply"
    /\ calls' = Popped
    /\ UNCHANGED <<store, host, proj, reader, log>>

----------------------------------------------------------------------------
(* The transactions of a command.                                           *)

\* A transaction compares the revision with the caller's, advanced by the command's own decisions.
AtRevisionLater == prog.rev >= Top.at
AtRevision == prog.rev = Top.at

Turn(step) == Running("run") /\ Head(Top.todo) = step

\* The transaction is over; the next one, or the receipt, follows.
Advance(rev, result) ==
    /\ calls' = [calls EXCEPT ![Len(calls)] =
                   [Top EXCEPT !.todo = Tail(@), !.at = rev, !.result = result,
                               !.pc = IF Tail(Top.todo) = << >> THEN "record" ELSE "run"]]
    /\ log' = log \cup {[op |-> Op(Top.req), step |-> Head(Top.todo), rev |-> prog.rev, result |-> result]}

Decide(status) ==
    /\ prog' = [prog EXCEPT !.rev = @ + 1, !.status = status]
    /\ UNCHANGED <<ledger>>

Live == {"claimed", "ready", "running"}
Withdrawn(a) == IF a.status \in Live THEN [a EXCEPT !.status = "withdrawn"] ELSE a

\* A unit is claimed when no Attempt of it is live; a successor names the rejected Attempt it remedies.
Claimable(req) ==
    /\ prog.status = "active" /\ att[req.key].status = "none"
    /\ \A k \in Claims : att[k].status \notin Live \cup {"accepted"}
    /\ LET used == {k \in Claims : att[k].status # "none"}
           latest == {k \in used : \A j \in used : att[j].of # k}
       IN  IF used = {} THEN req.of = NoClaim ELSE req.of \in latest /\ att[req.of].status = "rejected"

StepClaim ==
    /\ Turn("claim") /\ AtRevision /\ Claimable(Top.req) /\ Decide(prog.status)
    /\ att' = [att EXCEPT ![Top.req.key] = [status |-> "claimed", spec |-> prog.spec, of |-> Top.req.of, review |-> "none"]]
    /\ Advance(prog.rev + 1, "accepted")
    /\ UNCHANGED <<runtime, host>>

\* The workspace is prepared by a callback, and admitted at the claim's revision.
StepPrepare ==
    /\ Turn("prepare") /\ AtRevision /\ Approved /\ att[Top.req.key].status = "claimed"
    /\ att' = [att EXCEPT ![Top.req.key].status = "ready"]
    /\ Advance(prog.rev, "accepted")
    /\ UNCHANGED <<prog, ledger, runtime, host>>

StepStart ==
    /\ Turn("start") /\ AtRevision /\ Approved /\ att[Top.target].status = "ready" /\ Decide(prog.status)
    /\ att' = [att EXCEPT ![Top.target].status = "running"]
    /\ Advance(prog.rev + 1, "accepted")
    /\ UNCHANGED <<runtime, host>>

\* A close raises in its wait after SIGKILL: the process of the group is forgotten, and the call ends.
CloseHangs ==
    /\ KillMayHang /\ host.owner.run = "held"
    /\ host' = [host EXCEPT !.owner.run = "lost"] /\ calls' = Popped /\ UNCHANGED log

\* The runtime starts after the last check of its delivery, at the revision of the start.  A request
\* without an answer closes the connection.
StepDispatch ==
    /\ Turn("dispatch") /\ AtRevision /\ Approved /\ host.owner.run = "held"
    /\ runtime' = "live"
    /\ \/ Advance(prog.rev, "accepted") /\ UNCHANGED host
       \/ CloseHangs
    /\ UNCHANGED <<prog, att, ledger>>

\* Records of a claim that admit no decision: the proof of quiescence, a renewal, the submitted candidate.
StepRecord ==
    /\ Running("run") /\ Head(Top.todo) \in {"quiesce", "renew", "submit"}
    /\ AtRevision /\ Advance(prog.rev, Top.result)
    /\ UNCHANGED <<store, host>>

\* The owner takes over a changed workspace.
StepReconcile ==
    /\ Turn("reconcile") /\ AtRevision /\ Advance(prog.rev, Top.result)
    /\ UNCHANGED <<store, host>>

\* report() ends a running Attempt; after an unknown review it has ended already.
StepFinish ==
    /\ Turn("finish") /\ AtRevision /\ UNCHANGED <<runtime, host>>
    /\ \/ /\ att[Top.target].status = "running" /\ Decide(prog.status)
          /\ att' = [att EXCEPT ![Top.target].status = "finished"]
          /\ Advance(prog.rev + 1, "accepted")
       \/ /\ att[Top.target].status = "finished"
          /\ calls' = [calls EXCEPT ![Len(calls)].todo = Tail(@)]
          /\ UNCHANGED <<prog, att, ledger, log>>

\* The review is dispatched before there is an outcome, and may stay so, or become unknown.
StepAsk ==
    /\ Turn("judge") /\ AtRevision /\ Approved /\ att[Top.target].review = "none"
    /\ att' = [att EXCEPT ![Top.target].review = "open"]
    /\ UNCHANGED <<prog, ledger, runtime, host, calls, log>>

Judged(a, status) == [a EXCEPT !.status = status, !.review = IF @ = "open" THEN "resolved" ELSE @]

\* Checks, review and acceptance, under the guard of the report's revision.
StepJudge ==
    /\ Turn("judge") /\ AtRevision /\ Approved /\ UNCHANGED <<runtime, host>>
    /\ \/ /\ Decide("completed") /\ att' = [att EXCEPT ![Top.target] = Judged(@, "accepted")]
          /\ Advance(prog.rev + 1, "accepted")
       \/ /\ att' = [att EXCEPT ![Top.target] = Judged(@, "rejected")]
          /\ Advance(prog.rev, "rejected") /\ UNCHANGED <<prog, ledger>>
       \/ /\ att[Top.target].review = "open"
          /\ Advance(prog.rev, "review_unknown") /\ UNCHANGED <<prog, att, ledger>>

\* STOP cancels work that is not over, and revokes its budget.
StepStop ==
    /\ Turn("stop") /\ AtRevision /\ UNCHANGED <<runtime, host>>
    /\ \/ /\ prog.status \in {"draft", "active"} /\ Decide("cancelled")
          /\ att' = [k \in Claims |-> Withdrawn(att[k])]
          /\ Advance(prog.rev + 1, "unknown-settlement")
       \/ /\ prog.status \in {"cancelled", "completed"}
          /\ Advance(prog.rev, "unknown-settlement") /\ UNCHANGED <<prog, att, ledger>>

\* The bound managed run, if it was started here, retires its own process group, or cannot tell.  A
\* connection that forgot its process takes the group for gone.
StepRetire ==
    /\ Turn("retire") /\ host.owner.run # "idle"
    /\ \/ /\ host.owner.run \in {"held", "lost"}
          /\ runtime' = IF host.owner.run = "held" THEN "gone" ELSE runtime
          /\ Advance(prog.rev, "settled") /\ UNCHANGED host
       \/ runtime' = runtime /\ Advance(prog.rev, "unknown-settlement") /\ UNCHANGED host
       \/ runtime' = runtime /\ CloseHangs
    /\ UNCHANGED <<prog, att, ledger>>

\* A first approval creates the Program; a later one amends it and withdraws live Attempts.
StepApprove ==
    /\ Turn("approve") /\ AtRevision /\ prog.status \in {"absent", "draft", "active"}
    /\ prog' = [prog EXCEPT !.rev = @ + 1, !.spec = @ + 1, !.status = IF @ = "absent" THEN "draft" ELSE @]
    /\ att' = [k \in Claims |-> Withdrawn(att[k])]
    /\ host' = [host EXCEPT !.owner.spec = prog.spec + 1]
    /\ Advance(prog.rev + 1, "approved")
    /\ UNCHANGED <<ledger, runtime>>

\* The receipt is written once; a command that a callback served meanwhile finds its own.
Record ==
    /\ Running("record") /\ ledger[Op(Top.req)].receipt \in {"none", Top.result}
    /\ ledger' = [ledger EXCEPT ![Op(Top.req)].receipt = Top.result]
    /\ calls' = [calls EXCEPT ![Len(calls)].pc = "reply"]
    /\ host' = IF Top.req.action = "claim" THEN [host EXCEPT !.handoffs = @ \cup {Top.req.key}] ELSE host
    /\ UNCHANGED <<prog, att, runtime, log>>

----------------------------------------------------------------------------
(* The projection, its events, and the notifier.                            *)

\* A snapshot whose fingerprint differs from the last one's leaves an event.
Snapshot ==
    [proj EXCEPT !.seq = IF proj.last = "changed" THEN @ + 1 ELSE @, !.last = "same"]

\* The decisions of an Attempt that its owner may still have to make: a review that was dispatched and has
\* no receipt, a kept rejection.  A report's receipt tells of the same decision under the same identity.
ReviewOpen(k) == att[k].review = "open"
RejectionKept(k) == att[k].status = "rejected"

\* They are pending while the work they are about is neither over nor amended.
Applicable(k) ==
    /\ prog.status \in {"draft", "active"} /\ att[k].spec = prog.spec
    /\ \A j \in Claims : att[j].status # "accepted"

Pending ==
    {d \in Decisions : Applicable(d[1]) /\ (IF d[2] = "review" THEN ReviewOpen(d[1]) ELSE RejectionKept(d[1]))}

\* Each decision once, while the datagrams go out and the notifier has room.
Publish ==
    \E sent \in SUBSET (Pending \ host.seen) :
        /\ Cardinality(host.seen \cup sent) <= MaxSeen
        /\ host' = [host EXCEPT !.seen = @ \cup sent,
                                !.sent = [d \in Decisions |-> IF d \in sent THEN @[d] + 1 ELSE @[d]],
                                !.dropped = @ \/ sent # Pending \ host.seen]

\* After each report, a repeated one too, the host takes a snapshot and publishes its decisions.
Announce == Publish /\ Snapshot.seq <= MaxEvents /\ proj' = Snapshot

\* The answer goes out, after a report's decisions; if the channel was closed it is lost.
Reply ==
    /\ Running("reply") /\ calls' = Popped
    /\ IF Top.req.action = "report" THEN Announce ELSE UNCHANGED <<host, proj>>
    /\ Tell(Top, Top.result) \/ Silent
    /\ UNCHANGED <<store, reader, log>>

\* A repeated command is answered from its journal, a report after its decisions; a claim also gets its
\* handoff back.
Repeat(req) ==
    /\ Listening /\ Attach(Side(req)) /\ Admitted(req) /\ Op(req) \in DOMAIN ledger /\ SameInput(req)
    /\ LET known == ledger[Op(req)].receipt
       IN  /\ Tell(NewCall(req, "reply"), IF known = "none" THEN "unknown" ELSE known)
           /\ IF req.action = "report" THEN Announce
              ELSE /\ host' = IF req.action = "claim" /\ known # "none"
                              THEN [host EXCEPT !.handoffs = @ \cup {req.key}] ELSE host
                   /\ UNCHANGED proj
    /\ UNCHANGED <<store, calls, reader, log>>

\* A reader takes a snapshot, and its position with it.
ReadSnapshot ==
    /\ Listening /\ \E s \in {"worker", "owner"} : Attach(s)
    /\ Snapshot.seq <= MaxEvents /\ proj' = Snapshot
    /\ reader' = [producer |-> proj.producer, seq |-> Snapshot.seq, current |-> TRUE, told |-> "snapshot"]
    /\ UNCHANGED <<store, host, calls, log>>

\* So does any other client.
OtherSnapshot ==
    /\ Listening /\ \E s \in {"worker", "owner"} : Attach(s)
    /\ Snapshot.seq <= MaxEvents /\ proj' = Snapshot
    /\ UNCHANGED <<store, host, calls, reader, log>>

GapInSequence(after, p) == after.seq # p.seq
\* ProgressBuffer.read: another producer, a position ahead, an event dropped or any retained event is a gap.
Gap(after, p) ==
    \/ after.producer # p.producer \/ after.seq > p.seq
    \/ p.seq > 0 /\ after.seq < (IF p.seq > Capacity THEN p.seq - Capacity ELSE 0)
    \/ after.seq < p.seq

\* The snapshot lists at most so many commands; with more, every read is a gap.
Covered == Cardinality(DOMAIN ledger) <= MaxListed

\* A reader asks for the events after its position; after a gap it needs a snapshot.
ReadEvents ==
    /\ Listening /\ \E s \in {"worker", "owner"} : Attach(s)
    /\ reader.told # "gap"
    /\ Snapshot.seq <= MaxEvents /\ proj' = Snapshot
    /\ reader' = [reader EXCEPT !.told = IF Gap(reader, Snapshot) \/ ~Covered THEN "gap" ELSE "nothing new"]
    /\ UNCHANGED <<store, host, calls, log>>

\* A reader asks for one record of its snapshot, and gets it at its own position only.
ReadRecord ==
    /\ Listening /\ \E s \in {"worker", "owner"} : Attach(s)
    /\ reader.told # "gap"
    /\ Snapshot.seq <= MaxEvents /\ proj' = Snapshot
    /\ reader' = [reader EXCEPT !.told =
                     IF <<reader.producer, reader.seq>> = <<proj.producer, Snapshot.seq>> THEN "record" ELSE "gap"]
    /\ UNCHANGED <<store, host, calls, log>>

\* A write, or a deadline that passes, changes what the next snapshot will say.
Changed ==
    /\ proj' = [proj EXCEPT !.last = IF @ = "none" THEN "none" ELSE "changed"]
    /\ reader' = [reader EXCEPT !.current = FALSE, !.told = IF @ = "gap" THEN "gap" ELSE "before"]

----------------------------------------------------------------------------
(* The rest of the world.                                                   *)

\* A decision taken outside the served commands, perhaps by a callback: activation, amendment, cancellation.
OtherDecision ==
    /\ host.up /\ Listening /\ prog.other < MaxOther
    /\ \E s \in {"active", "amended", "cancelled"} :
         /\ CASE s = "active" -> prog.status = "draft"
              [] s = "amended" -> prog.status = "active"
              [] OTHER -> prog.status \in {"draft", "active"}
         /\ prog' = [prog EXCEPT !.rev = @ + 1, !.other = @ + 1, !.spec = IF s = "amended" THEN @ + 1 ELSE @,
                                !.status = IF s = "amended" THEN @ ELSE s]
         /\ att' = IF s = "active" THEN att ELSE [k \in Claims |-> Withdrawn(att[k])]
    /\ UNCHANGED <<ledger, runtime, host, calls, log>>

\* The original review is recovered.
ReviewResolves ==
    /\ host.up /\ Listening
    /\ \E k \in {j \in Claims : ReviewOpen(j)} : att' = [att EXCEPT ![k].review = "resolved"]
    /\ UNCHANGED <<prog, ledger, runtime, host, calls, log>>

\* A deadline of the work or of a claim passes, which the snapshot shows.
DeadlinePasses ==
    /\ host.up /\ Listening /\ proj.last # "changed" /\ prog.spec > 0
    /\ UNCHANGED <<store, host, calls, log>>

\* The host dies; what it held in memory is gone, and a new host has a new producer.
Crash ==
    /\ host.up /\ host' = [NewHost EXCEPT !.up = FALSE] /\ calls' = << >>
    /\ UNCHANGED <<store, proj, reader, log>>

Restart ==
    /\ ~host.up /\ proj.producer < MaxHosts
    /\ host' = NewHost /\ proj' = [producer |-> proj.producer + 1, seq |-> 0, last |-> "none"]
    /\ UNCHANGED <<store, calls, reader, log>>

Writes ==
    \/ \E r \in Requests[prog.mode] : BeginOwner(r)
    \/ Journal \/ StepClaim \/ StepPrepare \/ StepStart \/ StepDispatch \/ StepRecord \/ StepReconcile \/ StepFinish
    \/ StepAsk \/ StepJudge \/ StepStop \/ StepRetire \/ StepApprove \/ Record \/ OtherDecision
    \/ ReviewResolves \/ DeadlinePasses

ServedNext ==
    \/ Writes /\ Changed /\ Silent
    \/ Reply \/ \E r \in Requests[prog.mode] : Repeat(r)
    \/ /\ \/ \E s \in {"worker", "owner"} : OpenSession(s)
          \/ \E r \in Requests[prog.mode] : BeginWorker(r)
          \/ CallRefused \/ ReadSnapshot \/ OtherSnapshot \/ ReadEvents \/ ReadRecord \/ Crash \/ Restart
       /\ Silent

ServedSpec == ServedInit /\ [][ServedNext]_servedVars

----------------------------------------------------------------------------
\* Every transaction of a command was journalled first, happened once, and found the revision its caller
\* named, advanced by the command's own decisions alone: no decision of another client, of a callback or of
\* an earlier host came in between (the expected_revision of every served command).
CommandsAtRevision ==
    \A e \in log :
        /\ e.op \in DOMAIN ledger
        /\ e.step # "retire" =>
             e.rev = ledger[e.op].exact.req.rev
                       + Cardinality({f \in log : f.op = e.op /\ Decides(f) /\ f.rev < e.rev})
        /\ \A f \in log : f.op = e.op /\ f.step = e.step => f.rev = e.rev

\* A client told anything but "unknown" was told the one receipt of exactly its own request, and all of that
\* command's transactions had happened; if the wait after SIGKILL returns in time, a STOP told as settled left
\* no managed process behind, however often its connection was closed.
AnswersTrue ==
    [][ /\ answer'.value # "unknown" =>
             /\ ledger'[answer'.op] = [exact |-> answer'.exact, receipt |-> answer'.value]
             /\ LET steps == Steps[answer'.exact.req.action]
                IN  \E e \in log' : e.op = answer'.op /\ e.step = steps[Len(steps)] /\ e.result = answer'.value
        /\ \A o \in DOMAIN ledger' : ledger'[o].receipt = "settled" /\ ~KillMayHang => runtime' = "gone" ]_servedVars

\* A reader told that nothing is new, or given a record, holds the facts of the store as they are
\* (OwnerProjection.events and the record request), and a notifier announces no decision twice, whichever
\* reports are repeated, also inside of each other.
ObserversInformed ==
    [][ /\ reader'.told \in {"nothing new", "record"} => reader'.current
        /\ \A d \in Decisions : host'.sent[d] <= 1 ]_servedVars

-----------------------------------------------------------------------------
(* The inductive invariant, in parts. *)

Results == {"accepted", "rejected", "review_unknown", "unknown-settlement", "settled", "approved"}
Sent == Requests[prog.mode]
Exacts == [req : Sent, bind : Nat \X (Claims \cup {NoClaim})]
Sessions == [open : BOOLEAN, spec : Nat, bound : Claims \cup {NoClaim}, run : {"none", "idle", "held", "lost"}]
Attempts ==
    [status : Live \cup {"none", "withdrawn", "finished", "rejected", "accepted"}, spec : Nat,
     of : Claims \cup {NoClaim}, review : {"none", "open", "resolved"}]

\* What a list of transactions may be, once some of them are over.
Remainders(seq) == {SubSeq(seq, i, Len(seq)) : i \in 1..(Len(seq) + 1)}
Calls ==
    [req : Sent, exact : Exacts, target : Claims \cup {NoClaim} \cup {r.claim : r \in Sent},
     pc : {"check", "run", "record", "reply"}, todo : UNION {Remainders(Steps[r.action]) : r \in Sent},
     at : Int, result : Results]

ServedTypeOK ==
    /\ prog \in [rev : Int, spec : Nat, status : {"absent", "draft", "active", "completed", "cancelled"},
                 mode : Modes, other : Nat]
    /\ att \in [Claims -> Attempts]
    /\ ledger \in [DOMAIN ledger -> [exact : Exacts, receipt : Results \cup {"none"}]]
    /\ runtime \in {"none", "live", "gone"}
    /\ host \in [up : BOOLEAN, worker : Sessions, owner : Sessions, handoffs : SUBSET Claims,
                 seen : SUBSET Decisions, sent : [Decisions -> Nat], dropped : BOOLEAN]
    /\ proj \in [producer : Nat, seq : Nat, last : {"none", "same", "changed"}]
    /\ calls \in Seq(Calls)
    /\ reader \in [producer : Nat, seq : Nat, current : BOOLEAN,
                   told : {"gap", "snapshot", "nothing new", "record", "before"}]
    /\ IsFiniteSet(log) /\ \A e \in log : e.rev \in Int

Over(p) == p.status \in {"completed", "cancelled"}
Ended == {"finished", "rejected", "accepted"}
InLog(done, op, step, result) == \E e \in done : e.op = op /\ e.step = step /\ e.result = result
LastStep(req) == Steps[req.action][Len(Steps[req.action])]
DecisionsOf(done, op) == {f \in done : f.op = op /\ Decides(f)}

\* A journalled command is its caller's, and its receipt is the result of its last transaction.
Journalled ==
    \A op \in DOMAIN ledger :
        /\ Op(ledger[op].exact.req) = op
        /\ ledger[op].receipt # "none" => InLog(log, op, LastStep(ledger[op].exact.req), ledger[op].receipt)

\* A transaction was one of its command; a decision is in the Program's past, a workspace is prepared for a
\* claim that is there, a judged Attempt has ended, and after a settlement nothing runs or will.
Transacted ==
    \A e \in log :
        LET req == ledger[e.op].exact.req
        IN  /\ \E i \in DOMAIN Steps[req.action] : Steps[req.action][i] = e.step
            /\ Decides(e) /\ e.step # "stop" => e.rev < prog.rev
            /\ e.step = "prepare" => req.key \in Claims /\ att[req.key].status # "none"
            /\ e.step = "judge" => req.claim \in Claims /\ att[req.claim].status \in Ended
            /\ e.result = "settled" => Over(prog) /\ (~KillMayHang => runtime = "gone")

StepsLeft(todo) == {todo[i] : i \in DOMAIN todo}

\* A call that runs its transactions stands at the revision that its command's decisions led to, and what
\* of its next transactions an earlier call of the same command has done was done at this revision.
AtItsRevision(frame, done) ==
    LET op == Op(frame.req)
    IN  /\ Head(frame.todo) # "retire" =>
             /\ frame.at = frame.req.rev + Cardinality(DecisionsOf(done, op))
             /\ \A f \in DecisionsOf(done, op) : f.rev < frame.at
             /\ \A e \in done : e.op = op /\ e.step \in StepsLeft(frame.todo) => e.rev = frame.at
        /\ Side(frame.req) = "owner" => \A e \in done : e.op = op => e.step \notin StepsLeft(frame.todo)

\* What a call under way knows of the Program, the Attempts, the journal and the transactions.
FrameOK(frame, p, tried, journal, done) ==
    LET op == Op(frame.req)
        all == Steps[frame.req.action]
    IN  /\ frame.exact.req = frame.req
        /\ frame.req.action = "report" => frame.target \in Claims /\ frame.target = frame.req.claim
        /\ frame.pc = "check" => Side(frame.req) = "worker" /\ frame.todo = all /\ frame.at = frame.req.rev
        /\ frame.pc # "check" => op \in DOMAIN journal /\ journal[op].exact = frame.exact
        /\ frame.pc = "run" =>
             /\ frame.todo # << >> /\ frame.todo \in Remainders(all) /\ AtItsRevision(frame, done)
             /\ Head(frame.todo) = "judge" => tried[frame.target].status \in Ended
             /\ Head(frame.todo) = "retire" => Over(p)
        /\ frame.pc \in {"check", "run"} => frame.result # "settled"
        /\ frame.pc \in {"record", "reply"} => InLog(done, op, all[Len(all)], frame.result)
        /\ frame.pc = "reply" => journal[op].receipt = frame.result

FramesOK == \A i \in DOMAIN calls : FrameOK(calls[i], prog, att, ledger, log)

\* Calls of one command nest only while the outer one has not looked at the journal.
CallsNest ==
    \A i, j \in DOMAIN calls :
        i < j /\ calls[i].pc # "check" => Op(calls[i].req) # Op(calls[j].req)

\* A reader whose facts are not those of the store will see it by its position.
ReaderSees ==
    /\ reader.told # "gap" /\ reader.producer = proj.producer =>
         /\ reader.seq <= proj.seq /\ proj.last # "none"
         /\ ~reader.current => reader.seq < proj.seq \/ proj.last = "changed"
    /\ reader.told \in {"nothing new", "record"} => reader.current
    /\ reader.producer <= proj.producer

\* The notifier remembers what it sent.
SentSeen == \A d \in Decisions : host.sent[d] = (IF d \in host.seen THEN 1 ELSE 0)

\* No process is forgotten when each wait returns in time.
NoneLost == ~KillMayHang => host.owner.run # "lost"

ServedInv ==
    /\ ServedTypeOK /\ CommandsAtRevision /\ Journalled /\ Transacted /\ FramesOK /\ CallsNest
    /\ ReaderSees /\ SentSeen /\ NoneLost

=============================================================================
