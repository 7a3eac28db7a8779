--------------------------- MODULE TaskExecution ---------------------------
(***************************************************************************)
(* One frozen task, run and recovered by run_task() of                     *)
(* adapters/task_execution.py, with the application flow of                *)
(* ports/application.py, the Codex runtime and its stdio connection, and   *)
(* the delivery of the pull request.                                       *)
(*                                                                         *)
(* The store lets one controller in at a time.  A process calls run_task() *)
(* again and again, may be killed at every durable step, and is replaced   *)
(* by another one, which knows what is durable and nothing else.  It owns  *)
(* one Codex connection with its process group, and may start verification *)
(* commands, each in a group of its own.  Groups outlive a killed process. *)
(* A stop is a signal to a process or the deadline of the task; the code   *)
(* polls for it and then records it for good.                              *)
(***************************************************************************)
EXTENDS Naturals, Sequences, FiniteSets

CONSTANTS
    Processes,     \* controller processes, each with one Codex connection
    LastCommand,   \* the number of verification commands of the task
    Contents,      \* the contents a workspace can have
    Base,          \* the content of the frozen base commit
    Proper,        \* contents that pass the changed-paths and structural checks
    KillMayHang,   \* whether wait() after SIGKILL may exceed its time limit
    None

ASSUME TaskAssumption ==
    /\ LastCommand \in Nat \ {0}
    /\ Base \in Contents /\ Proper \subseteq Contents \ {Base}
    /\ KillMayHang \in BOOLEAN
    /\ None \notin Processes \cup Contents
    /\ None \notin {"ok", "bad", "stopped", "not_started", "clean", "dirty", "pass", "fail", "yes"}

VARIABLES
    program,      \* "none", "draft", "active": the Program and its work budget
    attempt,      \* status of the one Attempt
    runtime,      \* status of its runtime Operation
    receipt,      \* runtime-receipt: the process whose group runs the turn
    outcome,      \* terminal-outcome: what is known of the candidate
    candidate,    \* the recorded candidate commit
    rejected,     \* the rejected-result exists
    accepted,     \* the head of the acceptance
    reserved,     \* the commands with a TOOL reservation
    bound,        \* those with a command-owner artifact
    result,       \* result[i]: the durable result of command i
    settledFact,  \* the commands with a settlement fact that says TRUE
    integrity,    \* integrity[i]: the workspace after command i
    verdict,      \* the stored result of the verification-commands check
    revoked,      \* the work budget is revoked
    cancel,       \* status of the cancel Operation
    settlement,   \* its owned-group-settlement
    cancelReply,  \* its receipt: what the runtime said of the group
    confirmed,    \* its terminal fact
    pr,           \* status of the pull request Operation
    prKnown,      \* its known-reference
    ctl,          \* memory of the run_task() call under way
    live,         \* the processes that run
    owners,       \* owners[p]: the commands whose Popen p still holds
    conn,         \* conn[p]: the connection of p
    signal,       \* the processes told to stop
    late,         \* the deadline has passed
    group,        \* group[p]: the Codex process group of p
    turn,         \* the turn: [by, state]
    proc,         \* proc[i]: the process group of command i
    ws,           \* the workspace: [head, content]
    ranOn,        \* history: ranOn[i], what command i was started on, in order
    turns,        \* history: turns started
    prs           \* pull requests on the forge, by head

workVars == <<program, attempt, runtime, receipt, outcome, candidate, rejected, accepted>>
commandVars == <<reserved, bound, result, settledFact, integrity, verdict>>
cancelVars == <<revoked, cancel, settlement, cancelReply, confirmed>>
prVars == <<pr, prKnown>>
processVars == <<live, owners, conn, signal, late>>
worldVars == <<group, turn, proc, ws, ranOn, turns, prs>>
vars == <<workVars, commandVars, cancelVars, prVars, ctl, processVars, worldVars>>

Commands == 1..LastCommand
NoConnection == [open |-> FALSE, settled |-> "unknown"]
Idle == [p |-> None, pc |-> "off", latched |-> FALSE, stopping |-> FALSE, pending |-> {},
         derived |-> None, i |-> 0, run |-> None, ctx |-> None, ret |-> None,
         record |-> None, raised |-> FALSE]

Init ==
    /\ program = "none" /\ attempt = "none" /\ runtime = "none"
    /\ receipt = None /\ outcome = None /\ candidate = None
    /\ rejected = FALSE /\ accepted = None
    /\ reserved = {} /\ bound = {} /\ settledFact = {} /\ verdict = None
    /\ result = [i \in Commands |-> None] /\ integrity = [i \in Commands |-> None]
    /\ revoked = FALSE /\ cancel = "none" /\ settlement = None
    /\ cancelReply = None /\ confirmed = FALSE
    /\ pr = "none" /\ prKnown = FALSE
    /\ ctl = Idle /\ live = {} /\ signal = {} /\ late = FALSE
    /\ owners = [p \in Processes |-> {}]
    /\ conn = [p \in Processes |-> NoConnection]
    /\ group = [p \in Processes |-> "none"]
    /\ turn = None /\ proc = [i \in Commands |-> "none"]
    /\ ws = None /\ ranOn = [i \in Commands |-> << >>]
    /\ turns = 0 /\ prs = << >>

-----------------------------------------------------------------------------
(* What a step may look at. *)

At(pc) == ctl.pc = pc
Go(pc) == ctl' = [ctl EXCEPT !.pc = pc]

\* cancellation_requested_now()
Signalled == ctl.latched \/ ctl.p \in signal

\* check_work_authority() and decision_time() >= deadline
Lapsed == revoked \/ late

\* Mutant: only what this process was told counts, not a stored revocation.
AuthorizedInMemory == ~Signalled /\ ~late

\* authority_current()
Authorized == ~Signalled /\ ~Lapsed

CancelAttempted == cancel \notin {"none", "intent"}

\* record_cancellation(): the budget is revoked first, then the intent is written.
RecordCancellation ==
    /\ revoked' = TRUE
    /\ cancel' = IF cancel = "none" THEN "intent" ELSE cancel
    /\ UNCHANGED <<settlement, cancelReply, confirmed>>

\* A poll whose answer is not used at once.
Poll == IF Signalled THEN RecordCancellation ELSE UNCHANGED cancelVars

\* Mutant: a stored result is enough, whatever became of the process group.
UnresolvedByResult == {i \in reserved : result[i] = None}

\* _command_settled(), _command_integrity() and _command_recovery()
Unresolved ==
    {i \in reserved : \/ result[i] = None
                      \/ i \notin settledFact
                      \/ (result[i] = "ok" /\ integrity[i] = None)}

-----------------------------------------------------------------------------
(* The processes. *)

\* A process starts, and its CodexStdio starts the app-server in a group of its own.
\* What a process outside of run_task() does is put between the calls of the others.
StartProcess(p) ==
    /\ At("off") /\ p \notin live /\ group[p] = "none"
    /\ live' = live \cup {p}
    /\ group' = [group EXCEPT ![p] = "alive"]
    /\ conn' = [conn EXCEPT ![p] = [open |-> TRUE, settled |-> "unknown"]]
    /\ UNCHANGED <<workVars, commandVars, cancelVars, prVars, ctl, owners, signal, late,
                   turn, proc, ws, ranOn, turns, prs>>

\* The head of run_task(): a cancellation of an earlier call is found again.
Enter(p) ==
    /\ At("off") /\ p \in live
    /\ ctl' = [Idle EXCEPT !.p = p, !.pc = "admit"]
    /\ UNCHANGED <<workVars, commandVars, cancelVars, prVars, processVars, worldVars>>

\* The call returns.  Its caller may have passed command_owners, and keep them.
Leave ==
    /\ ctl' = Idle
    /\ owners' \in {owners, [owners EXCEPT ![ctl.p] = {}]}

\* The process is killed, or ends after its last call or an exception.  All groups
\* stay; GroupDies is what becomes of the one with the turn.  When the process was
\* about to record a cancellation, the revocation alone may be durable.
Crash(p) ==
    /\ p \in live /\ ctl.p \in {None, p}
    /\ live' = live \ {p}
    /\ ctl' = IF ctl.p = p THEN Idle ELSE ctl
    /\ owners' = [owners EXCEPT ![p] = {}]
    /\ conn' = [conn EXCEPT ![p] = NoConnection] /\ signal' = signal \ {p}
    /\ revoked' \in {revoked, revoked \/ (ctl.p = p /\ program # "none" /\ (Signalled \/ late))}
    /\ UNCHANGED <<workVars, commandVars, cancel, settlement, cancelReply, confirmed, prVars,
                   late, worldVars>>

\* The owner's signal, and the passing of the deadline; a stop that this call
\* or the store knows already is not asked for again.
StopKnown == ctl.latched \/ (At("off") /\ cancel # "none")

Signal(p) ==
    /\ p \in live \ signal /\ ctl.p = p /\ ~StopKnown
    /\ signal' = signal \cup {p}
    /\ UNCHANGED <<workVars, commandVars, cancelVars, prVars, ctl, live, owners, conn, late, worldVars>>

Expire ==
    /\ ~late /\ program # "none" /\ ~StopKnown
    /\ late' = TRUE
    /\ UNCHANGED <<workVars, commandVars, cancelVars, prVars, ctl, live, owners, conn, signal, worldVars>>

-----------------------------------------------------------------------------
(* Admission, recovery and the workspace. *)

\* accept_work_budget() with the mode record, then the activation.
Admit ==
    /\ At("admit") /\ program = "none"
    /\ program' = "draft"
    /\ UNCHANGED <<attempt, runtime, receipt, outcome, candidate, rejected, accepted,
                   commandVars, cancelVars, prVars, ctl, processVars, worldVars>>

Activate ==
    /\ At("admit") /\ program # "none"
    /\ program' = "active"
    /\ Poll
    /\ LET stop == Signalled \/ cancel # "none" IN
       ctl' = [ctl EXCEPT !.pc = "recover", !.latched = stop, !.stopping = stop]
    /\ UNCHANGED <<attempt, runtime, receipt, outcome, candidate, rejected, accepted,
                   commandVars, prVars, processVars, worldVars>>

\* _command_recovery(): the commands whose original owner this process still
\* holds are retired, and the fact is recorded.  Commands that are settled but
\* have no result can only be cancelled.
Recover ==
    /\ At("recover")
    /\ UNCHANGED <<workVars, reserved, bound, result, integrity, verdict, cancelVars, prVars,
                   processVars, group, turn, ws, ranOn, turns, prs>>
    /\ LET retired == {i \in Unresolved \cap owners[ctl.p] \cap bound :
                          result[i] = None \/ i \notin settledFact} IN
       \E gone \in SUBSET {i \in retired : proc[i] = "alive"} :
          /\ proc' = [i \in Commands |-> IF i \in gone THEN "dead" ELSE proc[i]]
          /\ settledFact' = settledFact \cup {i \in retired : proc'[i] = "dead"}
    /\ LET pending == Unresolved'
           allSettled == pending # {} /\ pending \subseteq settledFact'
           stop == ctl.stopping \/ allSettled
       IN ctl' = [ctl EXCEPT !.pending = pending, !.stopping = stop,
                             !.latched = ctl.latched \/ allSettled,
                             !.pc = IF stop /\ attempt = "none" THEN "nodispatch"
                                    ELSE IF pending # {} THEN "after" ELSE "workspace"]

\* prepare_workspace(): the frozen base, the objects and the clone.
Prepared == IF ws = None THEN [head |-> Base, content |-> Base] ELSE ws

PrepareWorkspace ==
    /\ At("workspace")
    /\ ws' = Prepared
    /\ Go(IF attempt = "none" /\ ws'.content # ws'.head THEN "raised"
          ELSE IF accepted # None THEN "end"
          ELSE IF ctl.stopping \/ rejected THEN "after" ELSE "advance")
    /\ UNCHANGED <<workVars, commandVars, cancelVars, prVars, processVars, group, turn, proc,
                   ranOn, turns, prs>>

-----------------------------------------------------------------------------
(* advance_work_unit(): one Attempt, one dispatch, observed until it ends. *)

\* It is not called after a stop, with an unresolved command, or after a rejection.
Advancing == At("advance")

\* The places where a polled stop request makes the function return.
ReturnsOnStop ==
    \/ Advancing /\ attempt = "none"
    \/ Advancing /\ attempt = "executing" /\ runtime = "intent"
    \/ At("ended") /\ attempt # "executing"
    \/ At("decide")

StopSeen ==
    /\ ReturnsOnStop /\ Signalled
    /\ RecordCancellation
    /\ ctl' = [ctl EXCEPT !.pc = "after", !.stopping = TRUE]
    /\ UNCHANGED <<workVars, commandVars, prVars, processVars, worldVars>>

\* authorize() of a start refuses: the cancellation is recorded.
StartRefused ==
    /\ ctl.pc \in {"start", "turn"} /\ ~Authorized
    /\ RecordCancellation
    /\ ctl' = [ctl EXCEPT !.pc = "after", !.latched = TRUE, !.stopping = TRUE]
    /\ UNCHANGED <<workVars, commandVars, prVars, processVars, worldVars>>

\* check_work_authority() or the deadline refuses a new step.
AuthorityRefused ==
    /\ \/ At("verify") /\ Lapsed
       \/ ReturnsOnStop /\ ~Signalled /\ (IF At("ended") THEN late ELSE Lapsed)
    /\ ctl' = [ctl EXCEPT !.pc = "after", !.stopping = attempt # "none"]
    /\ UNCHANGED <<workVars, commandVars, cancelVars, prVars, processVars, worldVars>>

\* The Attempt and the intent of its Operation are one commit.
PrepareAttempt ==
    /\ Advancing /\ attempt = "none" /\ Authorized
    /\ attempt' = "prepared" /\ runtime' = "intent"
    /\ UNCHANGED <<program, receipt, outcome, candidate, rejected, accepted,
                   commandVars, cancelVars, prVars, ctl, processVars, worldVars>>

StartAttempt ==
    /\ Advancing /\ attempt = "prepared"
    /\ attempt' = "executing"
    /\ UNCHANGED <<program, runtime, receipt, outcome, candidate, rejected, accepted,
                   commandVars, cancelVars, prVars, ctl, processVars, worldVars>>

\* A receipt that was stored but not observed.
ObserveReceipt ==
    /\ Advancing /\ receipt # None /\ runtime \in {"dispatched", "unknown"}
    /\ runtime' = "accepted"
    /\ UNCHANGED <<program, attempt, receipt, outcome, candidate, rejected, accepted,
                   commandVars, cancelVars, prVars, ctl, processVars, worldVars>>

\* An outcome that was stored but not observed, in this call or an earlier one.
ObserveTerminal ==
    /\ Advancing \/ At("ended")
    /\ outcome # None /\ runtime = "accepted"
    /\ runtime' = "terminal"
    /\ UNCHANGED <<program, attempt, receipt, outcome, candidate, rejected, accepted,
                   commandVars, cancelVars, prVars, ctl, processVars, worldVars>>

FinishAttempt ==
    /\ Advancing \/ At("ended")
    /\ runtime = "terminal" /\ attempt = "executing"
    /\ attempt' = "finished"
    /\ UNCHANGED <<program, runtime, receipt, outcome, candidate, rejected, accepted,
                   commandVars, cancelVars, prVars, ctl, processVars, worldVars>>

\* An end without candidate is final.  A delivery without receipt stays unknown:
\* reconcile() of a new CodexRuntime has no proof of absence, so nothing is
\* delivered again.
NothingToDo ==
    /\ Advancing
    /\ \/ attempt = "finished" /\ outcome \in {"absent", "not_requested"} /\ UNCHANGED runtime
       \/ receipt = None /\ runtime \in {"dispatched", "unknown"} /\ runtime' \in {runtime, "unknown"}
    /\ Poll
    /\ Go("after")
    /\ UNCHANGED <<program, attempt, receipt, outcome, candidate, rejected, accepted,
                   commandVars, prVars, processVars, worldVars>>

ClaimRuntime ==
    /\ Advancing /\ attempt = "executing" /\ runtime = "intent" /\ Authorized
    /\ runtime' = "dispatched"
    /\ Go("start")
    /\ UNCHANGED <<program, attempt, receipt, outcome, candidate, rejected, accepted,
                   commandVars, cancelVars, prVars, processVars, worldVars>>

\* CodexRuntime.start(): thread/start, then turn/start after authorize() again.
StartThread ==
    /\ At("start") /\ Authorized /\ conn[ctl.p].open
    /\ Go("turn")
    /\ UNCHANGED <<workVars, commandVars, cancelVars, prVars, processVars, worldVars>>

\* The turn begins; its reply may be lost, which closes the connection.
StartTurn(reply) ==
    /\ At("turn") /\ Authorized /\ conn[ctl.p].open
    /\ turn' = [by |-> ctl.p, state |-> "running"] /\ turns' = turns + 1
    /\ IF reply THEN Go("receipt") ELSE ctl' = [ctl EXCEPT !.pc = "close", !.ret = "failed"]
    /\ UNCHANGED <<workVars, commandVars, cancelVars, prVars, processVars, group, proc, ws, ranOn, prs>>

\* The handle and the group are stored together before the receipt is accepted.
StoreReceipt ==
    /\ At("receipt")
    /\ receipt' = ctl.p
    /\ Poll
    /\ Go("advance")
    /\ UNCHANGED <<program, attempt, runtime, outcome, candidate, rejected, accepted,
                   commandVars, prVars, processVars, worldVars>>

\* CodexRuntime.start(), restore() and observe() fail when the connection is
\* closed already; an exception is passed on while there is authority.
Failed ==
    /\ \/ At("failed")
       \/ ctl.pc \in {"start", "turn"} /\ Authorized /\ ~conn[ctl.p].open
    /\ IF Authorized
       THEN UNCHANGED cancelVars /\ Go("raised")
       ELSE /\ RecordCancellation
            /\ ctl' = [ctl EXCEPT !.pc = "after", !.latched = TRUE, !.stopping = TRUE]
    /\ UNCHANGED <<workVars, commandVars, prVars, processVars, worldVars>>

\* CodexRuntime._read(): the state of the turn, or nothing.
Reads == {None} \cup IF conn[ctl.p].open /\ turn # None THEN {turn.state} ELSE {}

Watching ==
    /\ Advancing
    /\ \/ runtime = "accepted" /\ outcome = None
       \/ attempt = "finished" /\ outcome \in {"present", "unknown"}

\* restore() and observe()
Watch ==
    /\ Watching
    /\ \E r \in Reads :
          IF r \in {None, "running"} THEN Go("after")
          ELSE ctl' = [ctl EXCEPT !.pc = "candidate", !.run = r]
    /\ Poll
    /\ UNCHANGED <<workVars, commandVars, prVars, processVars, worldVars>>


-----------------------------------------------------------------------------
(* The candidate: retrieved, recorded, installed. *)

\* WorkUncertain: the call ends with the commands that are unresolved now.
Uncertain == ctl' = [ctl EXCEPT !.pc = "after", !.pending = Unresolved, !.i = 0, !.derived = None]

\* TaskCollector.runtime_candidate(): a recorded candidate is installed again, so
\* that nothing left behind becomes part of it.
Derivation == IF candidate = None THEN ws ELSE [head |-> candidate, content |-> candidate]

\* CodexRuntime.candidate()
Retrieve ==
    /\ At("candidate")
    /\ Poll
    /\ \/ /\ Signalled \/ ctl.run # "completed"
          /\ ctl' = [ctl EXCEPT !.pc = "outcome", !.derived = "absent", !.run = None] /\ UNCHANGED ws
       \/ /\ ~Signalled /\ ctl.run = "completed"
          /\ ctl' = [ctl EXCEPT !.pc = "outcome", !.derived = "unknown", !.run = None] /\ UNCHANGED ws
       \/ /\ ~Signalled /\ ctl.run = "completed" /\ conn[ctl.p].open
          /\ IF Unresolved # {}
             THEN Uncertain /\ UNCHANGED ws
             ELSE /\ ws' = Derivation
                  /\ ctl' = [ctl EXCEPT !.pc = "outcome", !.derived = ws'.content, !.run = None]
    /\ UNCHANGED <<workVars, commandVars, prVars, processVars, group, turn, proc, ranOn, turns, prs>>

StoreOutcome ==
    /\ At("outcome")
    /\ Poll
    /\ outcome' = IF attempt # "executing" THEN outcome
                  ELSE IF Signalled THEN "not_requested"
                  ELSE IF ctl.derived \in {"absent", "unknown"} THEN ctl.derived ELSE "present"
    /\ Go("ended")
    /\ UNCHANGED <<program, attempt, runtime, receipt, candidate, rejected, accepted,
                   commandVars, prVars, processVars, worldVars>>

NoCandidate ==
    /\ At("ended") /\ attempt # "executing" /\ ~Signalled
    /\ ctl.derived \in {"absent", "unknown"}
    /\ Go("after")
    /\ UNCHANGED <<workVars, commandVars, cancelVars, prVars, processVars, worldVars>>

\* TaskCollector.collect(): the commit is recorded first, then installed.
Collect ==
    /\ At("ended") /\ attempt # "executing" /\ ~Signalled /\ ~late
    /\ ctl.derived \notin {"absent", "unknown"}
    /\ IF Unresolved # {}
       THEN Uncertain /\ UNCHANGED candidate
       ELSE /\ candidate' = IF candidate = None THEN ws.content ELSE candidate
            /\ Go("install")
    /\ UNCHANGED <<program, attempt, runtime, receipt, outcome, rejected, accepted,
                   commandVars, cancelVars, prVars, processVars, worldVars>>

\* _install_candidate(), and the comparison with what was retrieved.
Install ==
    /\ At("install")
    /\ ws' = [head |-> candidate, content |-> candidate]
    /\ ctl' = [ctl EXCEPT !.pc = IF ctl.derived = candidate THEN "verify" ELSE "failed", !.derived = None]
    /\ UNCHANGED <<workVars, commandVars, cancelVars, prVars, processVars, group, turn, proc,
                   ranOn, turns, prs>>

-----------------------------------------------------------------------------
(* receive_candidate() with TaskChecks: each command is reserved, bound to its *)
(* owner, started, retired and weighed; its durable result is never replaced.  *)

\* The changed paths are allowed ones, and the structural checks pass.
StructurallySound(head) == head \in Proper

\* Authority, the stored result of an earlier call, and what the commands need.
Verify ==
    /\ At("verify") /\ ~Lapsed
    /\ IF verdict # None THEN Go("decide") /\ UNCHANGED verdict
       ELSE IF Unresolved # {} THEN Uncertain /\ UNCHANGED verdict
       ELSE IF Signalled \/ ~StructurallySound(candidate) \/ ws.content # ws.head
       THEN verdict' = "fail" /\ Go("decide")
       ELSE ctl' = [ctl EXCEPT !.pc = "commands", !.i = 1] /\ UNCHANGED verdict
    /\ Poll
    /\ UNCHANGED <<workVars, reserved, bound, result, settledFact, integrity, prVars,
                   processVars, worldVars>>

\* Without authority the check fails; the failure is stored like any other.
CheckRefused ==
    /\ At("commands") /\ ~Authorized /\ ctl.i \in Commands
    /\ RecordCancellation
    /\ verdict' = "fail"
    /\ ctl' = [ctl EXCEPT !.pc = "decide", !.latched = TRUE]
    /\ UNCHANGED <<workVars, reserved, bound, result, settledFact, integrity, prVars,
                   processVars, worldVars>>

\* Mutant: the reservation is not durable before the command starts.
ReserveInMemory ==
    /\ At("commands") /\ ctl.i \in Commands /\ Authorized
    /\ Go(IF result[ctl.i] # None THEN "weigh" ELSE "bind")
    /\ UNCHANGED <<workVars, commandVars, cancelVars, prVars, processVars, worldVars>>

\* The next command: its earlier result, or a new TOOL reservation.
Reserve ==
    /\ At("commands") /\ ctl.i \in Commands /\ Authorized
    /\ IF result[ctl.i] # None THEN Go("weigh") /\ UNCHANGED reserved
       ELSE IF ctl.i \in reserved THEN Uncertain /\ UNCHANGED reserved
       ELSE reserved' = reserved \cup {ctl.i} /\ Go("bind")
    /\ UNCHANGED <<workVars, bound, result, settledFact, integrity, verdict, cancelVars, prVars,
                   processVars, worldVars>>

\* The delivery claim and the command-owner artifact.
Bind ==
    /\ At("bind")
    /\ bound' = bound \cup {ctl.i}
    /\ owners' = [owners EXCEPT ![ctl.p] = @ \cup {ctl.i}]
    /\ Go("spawn")
    /\ UNCHANGED <<workVars, reserved, result, settledFact, integrity, verdict, cancelVars, prVars,
                   live, conn, signal, late, worldVars>>

\* _run_command(): the command starts, unless authority ended.
Spawn ==
    /\ At("spawn")
    /\ IF Authorized
       THEN /\ proc' = [proc EXCEPT ![ctl.i] = "alive"]
            /\ ranOn' = [ranOn EXCEPT ![ctl.i] = Append(@, ws.content)]
            /\ Go("running")
            /\ UNCHANGED cancelVars
       ELSE /\ RecordCancellation
            /\ ctl' = [ctl EXCEPT !.pc = "store", !.run = "not_started", !.latched = TRUE]
            /\ UNCHANGED <<proc, ranOn>>
    /\ UNCHANGED <<workVars, commandVars, prVars, processVars, group, turn, ws, turns, prs>>

\* It ends, or is stopped for its time, its output or its authority; then its
\* group is killed, which may leave something of it.
EndCommand ==
    /\ At("running")
    /\ \E r \in {"ok", "bad", "stopped"} : ctl' = [ctl EXCEPT !.pc = "store", !.run = r]
    /\ proc' \in {proc, [proc EXCEPT ![ctl.i] = "dead"]}
    /\ UNCHANGED <<workVars, commandVars, cancelVars, prVars, processVars, group, turn, ws,
                   ranOn, turns, prs>>

\* check_work_dispatch() refuses in the middle of it: there is no result, only
\* the settlement of the group.
CommandAborted ==
    /\ At("running") /\ Lapsed
    /\ proc' \in {proc, [proc EXCEPT ![ctl.i] = "dead"]}
    /\ settledFact' = IF proc'[ctl.i] = "dead" THEN settledFact \cup {ctl.i} ELSE settledFact
    /\ ctl' = [ctl EXCEPT !.pc = "after", !.stopping = TRUE, !.i = 0]
    /\ UNCHANGED <<workVars, reserved, bound, result, integrity, verdict, cancelVars, prVars,
                   processVars, group, turn, ws, ranOn, turns, prs>>

\* OwnedVerificationCommand.persist(): the result, then the settlement.
StoreResult ==
    /\ At("store")
    /\ result' = [result EXCEPT ![ctl.i] = ctl.run]
    /\ ctl' = [ctl EXCEPT !.pc = "fact", !.run = None]
    /\ UNCHANGED <<workVars, reserved, bound, settledFact, integrity, verdict, cancelVars, prVars,
                   processVars, worldVars>>

\* Mutant: the end of the command counts as the end of its group.
StoreFactUnproven ==
    /\ At("fact")
    /\ settledFact' = settledFact \cup {ctl.i} /\ Go("capture")
    /\ UNCHANGED <<workVars, reserved, bound, result, integrity, verdict, cancelVars, prVars,
                   processVars, worldVars>>

StoreFact ==
    /\ At("fact")
    /\ IF proc[ctl.i] = "alive"
       THEN UNCHANGED settledFact /\ Go("weigh")
       ELSE settledFact' = settledFact \cup {ctl.i} /\ Go("capture")
    /\ UNCHANGED <<workVars, reserved, bound, result, integrity, verdict, cancelVars, prVars,
                   processVars, worldVars>>

\* _capture_command_integrity(): git status may fail.
Capture ==
    /\ At("capture")
    /\ \E clean \in {"dirty"} \cup IF ws.content = ws.head THEN {"clean"} ELSE {} :
          integrity' = [integrity EXCEPT ![ctl.i] = clean]
    /\ Go("weigh")
    /\ UNCHANGED <<workVars, reserved, bound, result, settledFact, verdict, cancelVars, prVars,
                   processVars, worldVars>>

\* A command of this or of an earlier call is counted only when it is settled.
Weigh ==
    /\ At("weigh")
    /\ IF ctl.i \in Unresolved THEN Uncertain /\ UNCHANGED verdict
       ELSE IF result[ctl.i] \in {"stopped", "not_started"} THEN verdict' = "fail" /\ Go("decide")
       ELSE ctl' = [ctl EXCEPT !.pc = "commands", !.i = ctl.i + 1] /\ UNCHANGED verdict
    /\ UNCHANGED <<workVars, reserved, bound, result, settledFact, integrity, cancelVars, prVars,
                   processVars, worldVars>>

Judge ==
    /\ At("commands") /\ ctl.i \notin Commands
    /\ verdict' = IF \A i \in Commands : result[i] = "ok" /\ integrity[i] = "clean"
                  THEN "pass" ELSE "fail"
    /\ Go("decide")
    /\ UNCHANGED <<workVars, reserved, bound, result, settledFact, integrity, cancelVars, prVars,
                   processVars, worldVars>>

\* verify_candidate(): every check of the policy has passing evidence.
Accepts == verdict = "pass"

\* admit_accepted(): the unit is satisfied by exactly the verified head.
AdmitAccepted == accepted' = candidate /\ UNCHANGED rejected

\* The candidate is rejected, or satisfies the unit.
Decide ==
    /\ At("decide") /\ Authorized
    /\ IF Accepts
       THEN AdmitAccepted
       ELSE rejected' = TRUE /\ UNCHANGED accepted
    /\ Go("after")
    /\ UNCHANGED <<program, attempt, runtime, receipt, outcome, candidate,
                   commandVars, cancelVars, prVars, processVars, worldVars>>


-----------------------------------------------------------------------------
(* CodexStdio.close() with before_owned_close() and after_owned_close(): when   *)
(* the task is being stopped, the settlement of the group is recorded with it.  *)

\* A request fails: the connection closes, and the caller goes on or fails.
AfterFailure == [start |-> "failed", turn |-> "failed", receipt |-> "receipt",
                 advance |-> "after", candidate |-> "candidate", restore |-> "unreconciled",
                 interrupt |-> "retire"]

ConnectionFails ==
    /\ ctl.pc \in DOMAIN AfterFailure /\ conn[ctl.p].open
    /\ At("advance") => Watching
    /\ ctl.pc \in {"start", "turn"} => Authorized
    /\ \E ret \in {AfterFailure[ctl.pc]} \cup IF At("interrupt") THEN {"cancelFailed"} ELSE {} :
          ctl' = [ctl EXCEPT !.pc = "close", !.ret = ret]
    /\ UNCHANGED <<workVars, commandVars, cancelVars, prVars, processVars, worldVars>>

\* What a close can say of the target of the cancellation.
Target ==
    IF runtime \in {"none", "intent"}
    THEN [handle |-> FALSE, fenced |-> runtime = "intent", expected |-> ctl.p,
          reconciled |-> TRUE, defer |-> FALSE]
    ELSE [handle |-> runtime \in {"accepted", "terminal"}, fenced |-> TRUE, expected |-> receipt,
          reconciled |-> runtime \in {"accepted", "terminal"} /\ receipt = ctl.p, defer |-> FALSE]

\* before_owned_close()
BeforeClose ==
    /\ At("close")
    /\ LET stop == Signalled \/ late
           observe == stop /\ ctl.ctx = None /\ settlement = None
       IN /\ ctl' = [ctl EXCEPT !.pc = "stop", !.ctx = IF observe THEN Target ELSE @,
                                !.latched = @ \/ stop]
          /\ revoked' = (revoked \/ stop)
          /\ cancel' = IF observe /\ ~CancelAttempted THEN "dispatched"
                       ELSE IF stop /\ cancel = "none" THEN "intent" ELSE cancel
    /\ UNCHANGED <<workVars, commandVars, settlement, cancelReply, confirmed, prVars,
                   processVars, worldVars>>

\* Where the caller of close() goes on: an exception ends run_task(), except
\* where it is caught.
Resumed(raised) ==
    IF ~raised \/ ctl.ret \in {"retired", "unsent", "uncancelled", "cancelFailed"} THEN ctl.ret
    ELSE IF ctl.ret \in {"retire", "replied"} THEN "cancelFailed" ELSE "raised"

\* after_owned_close()
AfterClose(settled, raised) ==
    /\ conn' = [conn EXCEPT ![ctl.p] = [open |-> FALSE, settled |-> settled]]
    /\ IF ctl.ctx # None /\ ~ctl.ctx.defer
       THEN ctl' = [ctl EXCEPT !.pc = "record", !.ret = Resumed(raised), !.ctx = None,
                !.record = [handle |-> ctl.ctx.handle, fenced |-> ctl.ctx.fenced, owned |-> ctl.p,
                            expected |-> ctl.ctx.expected, settled |-> settled,
                            reconciled |-> ctl.ctx.reconciled, transport |-> settled # "unknown"]]
       ELSE ctl' = [ctl EXCEPT !.pc = Resumed(raised), !.ctx = None, !.ret = None, !.raised = raised]

\* Mutant: a group that was signalled counts as settled.
StopGroupHopeful ==
    /\ At("stop")
    /\ group' \in {group, [group EXCEPT ![ctl.p] = "dead"]}
    /\ AfterClose("yes", FALSE)
    /\ turn' = IF turn # None /\ turn.by = ctl.p /\ turn.state = "running" /\ group'[ctl.p] = "dead"
               THEN [turn EXCEPT !.state = "interrupted"] ELSE turn
    /\ UNCHANGED <<workVars, commandVars, cancelVars, prVars, live, owners, signal, late,
                   proc, ws, ranOn, turns, prs>>

\* _stop(): SIGTERM, SIGKILL and a look at the group.  When the last wait() takes
\* too long it raises, and the connection, which is closed by then, has learnt
\* nothing; a second close() of it finds no process and takes that for the end.
StopGroup ==
    /\ At("stop")
    /\ \/ /\ conn[ctl.p].open
          /\ \/ /\ group' = [group EXCEPT ![ctl.p] = "dead"]
                /\ AfterClose("yes", FALSE)
             \/ /\ group[ctl.p] = "alive" /\ UNCHANGED group
                /\ AfterClose("no", FALSE)
             \/ /\ KillMayHang /\ group[ctl.p] = "alive" /\ UNCHANGED group
                /\ AfterClose("unknown", TRUE)
       \/ /\ ~conn[ctl.p].open
          /\ AfterClose(IF conn[ctl.p].settled = "unknown" THEN "yes" ELSE conn[ctl.p].settled, FALSE)
          /\ UNCHANGED group
    /\ turn' = IF turn # None /\ turn.by = ctl.p /\ turn.state = "running" /\ group'[ctl.p] = "dead"
               THEN [turn EXCEPT !.state = "interrupted"] ELSE turn
    /\ UNCHANGED <<workVars, commandVars, cancelVars, prVars, live, owners, signal, late,
                   proc, ws, ranOn, turns, prs>>

\* persist_settlement(): the artifact is immutable; then it is observed.
StoreSettlement ==
    /\ At("record")
    /\ IF settlement \in {None, ctl.record}
       THEN settlement' = ctl.record /\ Go("observe")
       ELSE UNCHANGED settlement /\ Go("raised")
    /\ UNCHANGED <<workVars, commandVars, revoked, cancel, cancelReply, confirmed, prVars,
                   processVars, worldVars>>

Proves(s) == s # None /\ s.settled = "yes" /\ s.reconciled /\ s.transport

ObserveSettlement ==
    /\ At("observe")
    /\ cancel' = IF Proves(ctl.record) THEN "accepted"
                 ELSE IF cancel = "accepted" THEN cancel ELSE "unknown"
    /\ ctl' = [ctl EXCEPT !.pc = ctl.ret, !.record = None, !.ret = None]
    /\ UNCHANGED <<workVars, commandVars, revoked, settlement, cancelReply, confirmed, prVars,
                   processVars, worldVars>>

-----------------------------------------------------------------------------
(* The stop: the loop over the Attempts in run_task(). *)

\* What follows advance_work_unit().
After ==
    /\ At("after")
    /\ LET stop == ctl.stopping \/ Signalled IN
       \/ /\ attempt # "none" /\ (stop \/ (late /\ accepted = None))
          /\ RecordCancellation
          /\ ctl' = [ctl EXCEPT !.pc = "target", !.stopping = stop, !.latched = TRUE]
       \/ /\ attempt = "none" /\ stop
          /\ Poll
          /\ ctl' = [ctl EXCEPT !.pc = "nodispatch", !.stopping = stop]
       \/ /\ ~stop /\ (late /\ accepted = None => attempt = "none")
          /\ UNCHANGED cancelVars
          /\ Go("end")
    /\ UNCHANGED <<workVars, commandVars, prVars, processVars, worldVars>>

\* Nothing was dispatched: the Attempt is cancelled.
CancelBeforeDispatch ==
    /\ At("target") /\ runtime = "intent"
    /\ attempt' = "cancelled"
    /\ Go("nodispatch")
    /\ UNCHANGED <<program, runtime, receipt, outcome, candidate, rejected, accepted,
                   commandVars, cancelVars, prVars, processVars, worldVars>>

\* A receipt that was stored but not observed.
RecoverTarget ==
    /\ At("target") /\ receipt # None /\ runtime \in {"dispatched", "unknown"}
    /\ runtime' = "accepted"
    /\ UNCHANGED <<program, attempt, receipt, outcome, candidate, rejected, accepted,
                   commandVars, cancelVars, prVars, ctl, processVars, worldVars>>

\* read_settlement_record(): it must be about this turn and its group.
Fits(s) == s.handle /\ s.fenced /\ s.expected = receipt /\ (s.reconciled => s.owned = receipt)

\* What earlier calls left decides; a cancellation that was tried is not repeated.
ReviewTarget ==
    /\ At("target") /\ runtime # "intent"
    /\ receipt # None => runtime \notin {"dispatched", "unknown"}
    /\ IF receipt = None THEN Go("unreconciled")
       ELSE IF settlement # None /\ ~Fits(settlement) THEN Go("raised")
       ELSE IF Proves(settlement) THEN Go("confirm")
       ELSE IF ~CancelAttempted THEN Go(IF ctl.p = receipt THEN "restore" ELSE "unreconciled")
       ELSE IF settlement = None /\ cancelReply # None
       THEN ctl' = [ctl EXCEPT !.pc = "record", !.ret = "target",
               !.record = [handle |-> TRUE, fenced |-> TRUE, owned |-> receipt, expected |-> receipt,
                           settled |-> cancelReply, reconciled |-> TRUE, transport |-> TRUE]]
       ELSE Go("uncertain")
    /\ UNCHANGED <<workVars, commandVars, cancelVars, prVars, processVars, worldVars>>

\* mark_cancellation_uncertain()
MarkUncertain ==
    /\ At("uncertain")
    /\ cancel' = IF cancel = "dispatched" THEN "unknown" ELSE cancel
    /\ Go("end")
    /\ UNCHANGED <<workVars, commandVars, revoked, settlement, cancelReply, confirmed, prVars,
                   processVars, worldVars>>

\* settle_unreconciled_target(): this process gives up its own group, which is
\* no proof about the group of the turn.
SettleUnreconciled ==
    /\ At("unreconciled")
    /\ IF CancelAttempted THEN Go("end") /\ UNCHANGED cancel
       ELSE /\ cancel' = "dispatched"
            /\ ctl' = [ctl EXCEPT !.pc = "close", !.ret = "retired",
                  !.ctx = [handle |-> receipt # None, fenced |-> TRUE, expected |-> receipt,
                           reconciled |-> FALSE, defer |-> TRUE]]
    /\ UNCHANGED <<workVars, commandVars, revoked, settlement, cancelReply, confirmed, prVars,
                   processVars, worldVars>>

Retired ==
    /\ At("retired")
    /\ ctl' = [ctl EXCEPT !.pc = "record", !.ret = "end",
          !.record = [handle |-> receipt # None, fenced |-> TRUE, owned |-> ctl.p, expected |-> receipt,
                      settled |-> conn[ctl.p].settled, reconciled |-> FALSE, transport |-> ~ctl.raised]]
    /\ UNCHANGED <<workVars, commandVars, cancelVars, prVars, processVars, worldVars>>


\* restore() in the process that owns the turn, then the claim of the cancellation.
Restore ==
    /\ At("restore")
    /\ \E r \in Reads :
          IF r = None THEN Go("unreconciled") /\ UNCHANGED cancel
          ELSE /\ cancel' = "dispatched"
               /\ ctl' = [ctl EXCEPT !.pc = "interrupt",
                     !.ctx = [handle |-> TRUE, fenced |-> TRUE, expected |-> receipt,
                              reconciled |-> TRUE, defer |-> TRUE]]
    /\ UNCHANGED <<workVars, commandVars, revoked, settlement, cancelReply, confirmed, prVars,
                   processVars, worldVars>>

\* CodexRuntime.cancel(): turn/interrupt, whose answer proves nothing, and close().
Interrupt ==
    /\ At("interrupt")
    /\ turn' \in {turn, [turn EXCEPT !.state = IF @ = "running" THEN "interrupted" ELSE @]}
    /\ ctl' = [ctl EXCEPT !.pc = "close", !.ret = "replied"]
    /\ UNCHANGED <<workVars, commandVars, cancelVars, prVars, processVars, group, proc, ws,
                   ranOn, turns, prs>>

\* turn/interrupt failed, which closed the connection.
Retire ==
    /\ At("retire")
    /\ ctl' = [ctl EXCEPT !.pc = "close", !.ret = "replied"]
    /\ UNCHANGED <<workVars, commandVars, cancelVars, prVars, processVars, worldVars>>

\* The reply is kept before it is weighed.
StoreReply ==
    /\ At("replied")
    /\ cancelReply' = conn[ctl.p].settled
    /\ ctl' = [ctl EXCEPT !.pc = "record", !.ret = "weighReply",
          !.record = [handle |-> TRUE, fenced |-> TRUE, owned |-> ctl.p, expected |-> receipt,
                      settled |-> conn[ctl.p].settled, reconciled |-> TRUE, transport |-> TRUE]]
    /\ UNCHANGED <<workVars, commandVars, revoked, cancel, settlement, confirmed, prVars,
                   processVars, worldVars>>

\* runtime.cancel() raised: close() is called once more, for its settlement.
CancelFailed ==
    /\ At("cancelFailed")
    /\ ctl' = IF settlement = None
              THEN [ctl EXCEPT !.pc = "close", !.ret = "uncancelled", !.raised = FALSE]
              ELSE [ctl EXCEPT !.pc = "uncancelled", !.raised = FALSE]
    /\ UNCHANGED <<workVars, commandVars, cancelVars, prVars, processVars, worldVars>>

WeighSettlement ==
    /\ ctl.pc \in {"weighReply", "uncancelled"}
    /\ Go(IF settlement # None /\ ~Fits(settlement) THEN "raised"
          ELSE IF Proves(settlement) THEN "confirm"
          ELSE IF At("uncancelled") THEN "uncertain" ELSE "end")
    /\ UNCHANGED <<workVars, commandVars, cancelVars, prVars, processVars, worldVars>>

\* finish_settled_cancellation(): the fact, the Operations and the Attempt, one
\* commit after the other; each is skipped when it was done before.
Confirm ==
    /\ At("confirm")
    /\ confirmed' = TRUE
    /\ \/ /\ ~confirmed /\ UNCHANGED <<cancel, runtime, attempt, ctl>>
       \/ /\ confirmed /\ cancel # "accepted"
          /\ cancel' = "accepted" /\ UNCHANGED <<runtime, attempt, ctl>>
       \/ /\ confirmed /\ cancel = "accepted" /\ runtime # "terminal"
          /\ runtime' = "terminal" /\ UNCHANGED <<cancel, attempt, ctl>>
       \/ /\ confirmed /\ cancel = "accepted" /\ runtime = "terminal"
          /\ attempt' = IF attempt = "executing" THEN "finished" ELSE attempt
          /\ Go("end") /\ UNCHANGED <<cancel, runtime>>
    /\ UNCHANGED <<program, receipt, outcome, candidate, rejected, accepted, commandVars,
                   revoked, settlement, cancelReply, prVars, processVars, worldVars>>

\* settle_without_dispatch(): the first time the own group is closed; later the
\* stored settlement decides.
SettleWithoutDispatch ==
    /\ At("nodispatch")
    /\ revoked' = TRUE
    /\ IF settlement # None
       THEN IF settlement.handle \/ settlement.fenced \/ settlement.expected # settlement.owned
            THEN UNCHANGED cancel /\ Go("raised")
            ELSE /\ cancel' = IF Proves(settlement) THEN "accepted"
                              ELSE IF cancel = "dispatched" THEN "unknown" ELSE cancel
                 /\ Go("end")
       ELSE IF CancelAttempted THEN UNCHANGED cancel /\ Go("end")
       ELSE /\ cancel' = "dispatched"
            /\ ctl' = [ctl EXCEPT !.pc = "close", !.ret = "unsent", !.latched = TRUE,
                  !.ctx = [handle |-> FALSE, fenced |-> FALSE, expected |-> ctl.p,
                           reconciled |-> TRUE, defer |-> TRUE]]
    /\ UNCHANGED <<workVars, commandVars, settlement, cancelReply, confirmed, prVars,
                   processVars, worldVars>>

Unsent ==
    /\ At("unsent")
    /\ ctl' = [ctl EXCEPT !.pc = "record", !.ret = "end",
          !.record = [handle |-> FALSE, fenced |-> FALSE, owned |-> ctl.p, expected |-> ctl.p,
                      settled |-> conn[ctl.p].settled, reconciled |-> ~ctl.raised,
                      transport |-> ~ctl.raised]]
    /\ UNCHANGED <<workVars, commandVars, cancelVars, prVars, processVars, worldVars>>

-----------------------------------------------------------------------------
(* The end of the call, and the delivery of the pull request. *)

\* The result is returned.  A stop blocks a pull request that was not sent yet,
\* not the observation of one that was.
End ==
    /\ At("end")
    /\ Poll
    /\ \/ /\ \/ ctl.pending # {} \/ accepted = None
             \/ (ctl.stopping \/ Signalled \/ late) /\ pr \in {"none", "intent"}
          /\ Leave
       \/ /\ ctl.pending = {} /\ accepted # None
          /\ ~(ctl.stopping \/ Signalled \/ late) \/ pr \notin {"none", "intent"}
          /\ Go("deliver") /\ UNCHANGED owners
    /\ UNCHANGED <<workVars, commandVars, prVars, live, conn, signal, late, worldVars>>

\* deliver_reference_pr(): intent, then claim.
IntendPR ==
    /\ At("deliver") /\ pr = "none"
    /\ IF Lapsed THEN UNCHANGED pr /\ Leave ELSE pr' = "intent" /\ UNCHANGED <<ctl, owners>>
    /\ UNCHANGED <<workVars, commandVars, cancelVars, prKnown, live, conn, signal, late, worldVars>>

ClaimPR ==
    /\ At("deliver") /\ pr = "intent"
    /\ IF Authorized THEN pr' = "dispatched" /\ Go("apply") /\ UNCHANGED <<cancelVars, owners>>
       ELSE RecordCancellation /\ Leave /\ UNCHANGED pr
    /\ UNCHANGED <<workVars, commandVars, prKnown, live, conn, signal, late, worldVars>>

\* Forge.apply(), with authority checked again; its reference is kept at once.
Apply ==
    /\ At("apply")
    /\ \/ /\ ~Authorized /\ RecordCancellation /\ Leave
          /\ UNCHANGED <<prs, prKnown>>
       \/ /\ Authorized
          /\ \E r \in {"accepted", "unknown", "rejected"}, created \in BOOLEAN :
                /\ r = "accepted" => created
                /\ r = "rejected" => ~created
                /\ prs' = IF created THEN Append(prs, accepted) ELSE prs
                /\ prKnown' = (r = "accepted")
                /\ ctl' = [ctl EXCEPT !.pc = "applied", !.run = r]
          /\ UNCHANGED <<cancelVars, owners>>
    /\ UNCHANGED <<workVars, commandVars, pr, live, conn, signal, late, group, turn, proc, ws,
                   ranOn, turns>>

ObserveApplied ==
    /\ At("applied")
    /\ pr' = ctl.run
    /\ Leave
    /\ Poll
    /\ UNCHANGED <<workVars, commandVars, prKnown, live, conn, signal, late, worldVars>>

\* Forge.reconcile() by the known reference; without one it stays unknown.
ReconcilePR ==
    /\ At("deliver") /\ pr \notin {"none", "intent"}
    /\ pr' \in IF pr \in {"dispatched", "unknown"}
               THEN {"unknown"} \cup IF prKnown THEN {"accepted"} ELSE {} ELSE {pr}
    /\ Leave
    /\ Poll
    /\ UNCHANGED <<workVars, commandVars, prKnown, live, conn, signal, late, worldVars>>

-----------------------------------------------------------------------------
(* The world: the worker of the turn, the commands, the groups nobody owns. *)

Edit ==
    /\ \/ turn # None /\ turn.state = "running" /\ group[turn.by] = "alive"
       \/ \E i \in Commands : proc[i] = "alive"
    /\ ws' \in {[ws EXCEPT !.content = c] : c \in Contents}
    /\ UNCHANGED <<workVars, commandVars, cancelVars, prVars, ctl, processVars, group, turn,
                   proc, ranOn, turns, prs>>

TurnEnds ==
    /\ turn # None /\ turn.state = "running" /\ group[turn.by] = "alive"
    /\ turn' \in {[turn EXCEPT !.state = t] : t \in {"completed", "failed"}}
    /\ UNCHANGED <<workVars, commandVars, cancelVars, prVars, ctl, processVars, group, proc, ws,
                   ranOn, turns, prs>>

GroupDies(p) ==
    /\ turn # None /\ turn.by = p /\ group[p] = "alive" /\ p \notin live
    /\ group' = [group EXCEPT ![p] = "dead"]
    /\ turn' = IF turn.state = "running" THEN [turn EXCEPT !.state = "interrupted"] ELSE turn
    /\ UNCHANGED <<workVars, commandVars, cancelVars, prVars, ctl, processVars, proc, ws,
                   ranOn, turns, prs>>

CommandDies(i) ==
    /\ proc[i] = "alive" /\ ~(At("running") /\ ctl.i = i)
    /\ proc' = [proc EXCEPT ![i] = "dead"]
    /\ UNCHANGED <<workVars, commandVars, cancelVars, prVars, ctl, processVars, group, turn, ws,
                   ranOn, turns, prs>>

-----------------------------------------------------------------------------
Step ==
    \/ Admit \/ Activate \/ Recover \/ PrepareWorkspace
    \/ StopSeen \/ StartRefused \/ AuthorityRefused
    \/ PrepareAttempt \/ StartAttempt \/ ObserveReceipt \/ ObserveTerminal \/ FinishAttempt
    \/ NothingToDo \/ ClaimRuntime \/ StartThread \/ (\E reply \in BOOLEAN : StartTurn(reply))
    \/ StoreReceipt \/ Failed \/ Watch
    \/ Retrieve \/ StoreOutcome \/ NoCandidate \/ Collect \/ Install
    \/ Verify \/ CheckRefused \/ Reserve \/ Bind \/ Spawn \/ EndCommand \/ CommandAborted
    \/ StoreResult \/ StoreFact \/ Capture \/ Weigh \/ Judge \/ Decide
    \/ BeforeClose \/ StopGroup \/ StoreSettlement \/ ObserveSettlement
    \/ After \/ CancelBeforeDispatch \/ RecoverTarget \/ ReviewTarget \/ MarkUncertain
    \/ SettleUnreconciled \/ Retired \/ Restore \/ Interrupt \/ Retire \/ StoreReply
    \/ CancelFailed \/ WeighSettlement \/ Confirm \/ SettleWithoutDispatch \/ Unsent
    \/ End \/ IntendPR \/ ClaimPR \/ Apply \/ ObserveApplied \/ ReconcilePR

Next ==
    \/ Step \/ ConnectionFails
    \/ \E p \in Processes : StartProcess(p) \/ Enter(p) \/ Crash(p) \/ Signal(p) \/ GroupDies(p)
    \/ Expire \/ Edit \/ TurnEnds
    \/ \E i \in Commands : CommandDies(i)

Spec == Init /\ [][Next]_vars

-----------------------------------------------------------------------------
(* task_status() and its properties. *)

\* export_task_store(): settlement_state, with the lease of a claim run out.
CancelSettled ==
    /\ cancel = "accepted" /\ Proves(settlement)
    /\ runtime \in {"none", "intent"} \/ (runtime = "terminal" /\ attempt = "finished" /\ confirmed)

\* task_status(), the conditions the properties tell apart.
Condition ==
    IF Unresolved # {} /\ ~(Unresolved \subseteq settledFact /\ CancelSettled) THEN "cancel_uncertain"
    ELSE IF accepted # None THEN "accepted"
    ELSE IF cancel # "none" /\ CancelSettled
         THEN IF runtime = "terminal" THEN "cancelled" ELSE "cancelled_no_dispatch"
    ELSE IF cancel = "intent" THEN "cancel_requested"
    ELSE IF cancel # "none" THEN IF Proves(settlement) THEN "cancel_in_progress" ELSE "cancel_uncertain"
    ELSE "other"

\* A command of the task is executed at most once, whatever crashes in between (a
\* reservation without result is uncertain work, not permission to repeat it); so are the
\* turn and the pull request, which is for the accepted head.
CommandsRunOnce ==
    /\ \A i \in Commands : Len(ranOn[i]) <= 1
    /\ turns <= 1
    /\ Len(prs) <= 1 /\ \A k \in DOMAIN prs : prs[k] = accepted

\* "cancelled" is said only when the group of the turn and every command are
\* gone; "cancelled_no_dispatch" only when there never was a turn.
CancelledIsQuiet ==
    /\ Condition = "cancelled" => /\ turn # None => group[turn.by] = "dead"
                                  /\ \A i \in Commands : proc[i] # "alive"
    /\ Condition = "cancelled_no_dispatch" => turn = None

\* Every command of an accepted candidate was started on exactly its content.
AcceptedAsVerified ==
    accepted # None => /\ candidate = accepted /\ accepted \in Proper
                       /\ \A i \in Commands : ranOn[i] = <<accepted>> /\ proc[i] = "dead"

\* Once the work budget is revoked nothing new is started, in this or in any later
\* call: no turn, no command, no pull request.  It is the first thing a
\* cancellation writes, and may be all that is left of it after a crash.
NothingNewAfterStop ==
    [][revoked => /\ turns' = turns /\ ranOn' = ranOn /\ prs' = prs]_vars

\* The controller rewrites the workspace only when no command lives that may
\* still write to it.
WorkspaceNotShared ==
    [][(\E i \in Commands : proc[i] = "alive") /\ ws' # ws => ctl' = ctl]_vars

-----------------------------------------------------------------------------
(* The inductive strengthening, in parts. *)

\* Where the call is or, while its connection is being closed, where it goes on.
Closing == {"close", "stop", "record", "observe"}
Returns == {"receipt", "failed", "after", "candidate", "unreconciled", "retire", "cancelFailed", "replied",
            "retired", "unsent", "uncancelled", "target", "end", "weighReply", "raised"}
Place == IF ctl.pc \in Closing THEN ctl.ret ELSE ctl.pc

CallTypeOK ==
    /\ ctl = [p |-> ctl.p, pc |-> ctl.pc, latched |-> ctl.latched, stopping |-> ctl.stopping,
              pending |-> ctl.pending, derived |-> ctl.derived, i |-> ctl.i, run |-> ctl.run,
              ctx |-> ctl.ctx, ret |-> ctl.ret, record |-> ctl.record, raised |-> ctl.raised]
    /\ live \subseteq Processes
    /\ IF ctl.pc = "off" THEN ctl.p = None ELSE ctl.p \in live
    /\ ctl.pc \in Closing => ctl.ret \in Returns

\* The Attempt has one turn, the receipt names the process that started it, and a
\* candidate is only looked at when the turn has ended.
AfterTheTurn == {"candidate", "outcome", "ended", "install", "verify", "commands", "bind", "spawn",
                 "running", "store", "fact", "capture", "weigh"}

TurnOnce ==
    /\ turns \in {0, 1}
    /\ turns = 0 => turn = None
    /\ turns = 1 => turn = [by |-> turn.by, state |-> turn.state] /\ turn.by \in Processes
    /\ runtime \in {"none", "intent"} \/ Place \in {"start", "turn"} => turns = 0
    /\ Place \in {"start", "turn"} => runtime \notin {"none", "intent"}
    /\ attempt = "none" => runtime = "none"
    /\ receipt # None => turns = 1 /\ turn.by = receipt
    /\ Place = "receipt" => turns = 1 /\ turn.by = ctl.p
    /\ Place \in AfterTheTurn /\ turn # None => turn.state # "running"

\* What is durable about the commands follows their order: a command is reserved when all
\* before it have results, and nothing is known of one that is not reserved.
Before(i) == 1..(i - 1)

CommandsInOrder ==
    /\ reserved \subseteq Commands
    /\ DOMAIN result = Commands /\ DOMAIN integrity = Commands /\ DOMAIN ranOn = Commands
    /\ proc \in [Commands -> {"none", "alive", "dead"}]
    /\ \A i \in Commands :
        /\ IF i \in reserved THEN \A j \in Before(i) : result[j] # None
           ELSE ranOn[i] = << >> /\ result[i] = None /\ integrity[i] = None /\ i \notin settledFact
        /\ IF ranOn[i] = << >> THEN proc[i] = "none" /\ result[i] \in {None, "not_started"}
           ELSE ranOn[i] = <<ranOn[i][1]>> /\ proc[i] # "none"
        /\ proc[i] = "alive" => i \notin settledFact
        /\ integrity[i] # None => i \in settledFact
    /\ reserved # {} => candidate \in Proper

\* The loop over the commands: the one it is at, and what the workspace holds.  Only the
\* command it is at can be unresolved.
Looping == {"commands", "bind", "spawn", "running", "store", "fact", "capture", "weigh"}
Fresh == {"bind", "spawn", "running", "store", "fact", "capture"}   \* reserved in this call

\* Everything before command i left the workspace as it was.
CleanBefore(i) == \A j \in Before(i) : integrity[j] = "clean"

LoopInOrder ==
    /\ Place \in {"workspace", "install"} => Unresolved = {}
    /\ Place \in Looping \cup {"verify"} => ws = [head |-> candidate, content |-> ws.content]
    /\ Place \in Looping =>
        /\ verdict = None /\ candidate \in Proper
        /\ ctl.i \in 1..(LastCommand + 1) /\ \A j \in Before(ctl.i) : result[j] # None
        /\ Unresolved \subseteq {ctl.i}
    /\ Place = "commands" => Unresolved = {}
    /\ Place \in Looping \ {"commands"} => ctl.i \in Commands
    /\ Place \in Fresh =>
        /\ ctl.i \in reserved /\ integrity[ctl.i] = None
        /\ \A k \in reserved : k <= ctl.i
    /\ Place \in {"bind", "spawn"} => ranOn[ctl.i] = << >>
    /\ Place = "running" => ranOn[ctl.i] # << >>
    /\ Place = "store" => ctl.run # None /\ (ranOn[ctl.i] = << >> => ctl.run = "not_started")
    /\ Place \in {"fact", "capture", "weigh"} => result[ctl.i] # None
    /\ Place \in Fresh => IF Place = "capture" THEN ctl.i \in settledFact ELSE ctl.i \notin settledFact
    /\ Place \in {"commands", "bind", "spawn"} /\ CleanBefore(ctl.i) => ws.content = candidate
    /\ Place = "weigh" /\ CleanBefore(ctl.i + 1) => ws.content = candidate

\* A command was started on the candidate unless one before it is known to have changed it.
StartedOnCandidate ==
    \A i \in Commands : ranOn[i] # << >> /\ CleanBefore(i) => ranOn[i] = <<candidate>>

\* A passing verdict rests on all results, and an acceptance on a passing verdict.
VerdictBacked ==
    /\ verdict = "pass" => /\ candidate \in Proper
                           /\ \A i \in Commands : result[i] = "ok" /\ integrity[i] = "clean"
    /\ accepted # None => verdict = "pass" /\ accepted = candidate

\* The pull request is asked for once, after the acceptance.
RequestOnce ==
    /\ pr \in {"none", "intent"} \/ Place = "apply" => prs = << >>
    /\ prs = << >> \/ prs = <<accepted>>
    /\ pr # "none" \/ Place \in {"deliver", "apply"} => accepted # None
    /\ Place = "apply" => pr \notin {"none", "intent"}
    /\ Place = "applied" => ctl.run \notin {"none", "intent"} /\ pr # "none"

\* What a connection says of its group is true, if kill() never hangs.
ConnectionsTrue ==
    /\ DOMAIN group = Processes
    /\ conn \in [Processes -> [open : BOOLEAN, settled : {"unknown", "yes", "no"}]]
    /\ ~KillMayHang => \A p \in Processes :
          /\ conn[p].settled = "yes" => group[p] = "dead"
          /\ p \in live => conn[p].open \/ conn[p].settled # "unknown"

Gone(p) == p \in Processes /\ (~KillMayHang => group[p] = "dead")

\* So is what is recorded of it, and the cancellation is confirmed only for the group of
\* the turn.
RecordsTrue ==
    /\ settlement # None => settlement.owned \in Processes /\ (settlement.settled = "yes" => Gone(settlement.owned))
    /\ ctl.pc \in {"record", "observe"} =>
          ctl.record.owned \in Processes /\ (ctl.record.settled = "yes" => Gone(ctl.record.owned))
    /\ cancelReply = "yes" => Gone(receipt)
    /\ Place \in {"restore", "interrupt", "retire", "replied", "cancelFailed"} => ctl.p = receipt
    /\ confirmed \/ Place = "confirm" => Proves(settlement) /\ settlement.owned = receipt

TaskInv ==
    /\ CallTypeOK /\ TurnOnce /\ CommandsInOrder /\ LoopInOrder /\ StartedOnCandidate
    /\ VerdictBacked /\ RequestOnce /\ ConnectionsTrue /\ RecordsTrue
=============================================================================
