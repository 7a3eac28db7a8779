------------------------ MODULE TaskExecutionProofs ------------------------
(***************************************************************************)
(* Theorems about the task: what is executed once, what an acceptance      *)
(* rests on, and what a cancellation promises.                             *)
(***************************************************************************)
EXTENDS TaskExecution, TLAPS

-----------------------------------------------------------------------------
(* The call under way. *)

\* The end of a close: the caller goes on, perhaps after a settlement is recorded.
LEMMA CloseEnds ==
    ASSUME CallTypeOK, At("stop"), UNCHANGED live,
           NEW settled, NEW raised \in BOOLEAN, AfterClose(settled, raised)
    PROVE  CallTypeOK'
<1>1. Resumed(raised) \in Returns
    BY DEF At, CallTypeOK, Closing, Returns, Resumed
<1>2. ctl.p \in live /\ live \subseteq Processes
    BY DEF At, CallTypeOK
<1>3. CASE ctl.ctx # None /\ ~ctl.ctx.defer
    <2> DEFINE r == [handle |-> ctl.ctx.handle, fenced |-> ctl.ctx.fenced, owned |-> ctl.p,
                     expected |-> ctl.ctx.expected, settled |-> settled,
                     reconciled |-> ctl.ctx.reconciled, transport |-> settled # "unknown"]
    <2>1. ctl' = [ctl EXCEPT !.pc = "record", !.ret = Resumed(raised), !.ctx = None, !.record = r]
        BY <1>3 DEF AfterClose
    <2> HIDE DEF r
    <2> QED
        BY <2>1, <1>1, <1>2 DEF CallTypeOK, Closing, Returns
<1>4. CASE ~(ctl.ctx # None /\ ~ctl.ctx.defer)
    <2>1. ctl' = [ctl EXCEPT !.pc = Resumed(raised), !.ctx = None, !.ret = None, !.raised = raised]
        BY <1>4, Zenon DEF AfterClose
    <2> QED
        BY <2>1, <1>1, <1>2 DEF CallTypeOK, Closing, Returns
<1> QED
    BY <1>3, <1>4

\* A step within the call keeps its record, and its process.
LEMMA CallStep ==
    ASSUME CallTypeOK, Step PROVE CallTypeOK'
<1>1. CASE Admit \/ PrepareAttempt \/ StartAttempt \/ ObserveReceipt \/ ObserveTerminal \/ FinishAttempt \/ RecoverTarget
    BY <1>1 DEF Admit, PrepareAttempt, StartAttempt, ObserveReceipt, ObserveTerminal, FinishAttempt, RecoverTarget,
        CallTypeOK, processVars
<1>2. CASE Activate
    BY <1>2 DEF Activate, At, CallTypeOK, Closing, Returns, processVars
<1>3. CASE Recover
    BY <1>3 DEF Recover, At, CallTypeOK, Closing, Returns, processVars
<1>4. CASE PrepareWorkspace
    BY <1>4 DEF PrepareWorkspace, Go, At, CallTypeOK, Closing, Returns, processVars
<1>5. CASE StopSeen \/ StartRefused \/ AuthorityRefused \/ NothingToDo
    BY <1>5 DEF StopSeen, StartRefused, AuthorityRefused, ReturnsOnStop, Advancing, NothingToDo, Go, At, CallTypeOK, Closing, Returns, processVars
<1>6. CASE ClaimRuntime \/ StartThread \/ (\E reply \in BOOLEAN : StartTurn(reply)) \/ StoreReceipt \/ Failed
    BY <1>6, ZenonT(30) DEF ClaimRuntime, StartThread, StartTurn, StoreReceipt, Failed, Advancing, Go, At, CallTypeOK, Closing, Returns, processVars
<1>7. CASE Watch \/ Retrieve \/ StoreOutcome \/ NoCandidate
    BY <1>7, ZenonT(30) DEF Watch, Watching, Retrieve, StoreOutcome, NoCandidate, Advancing, Uncertain, Go, At, CallTypeOK, Closing, Returns, processVars
<1>8. CASE Collect \/ Install \/ Verify \/ CheckRefused
    BY <1>8 DEF Collect, Install, Verify, CheckRefused, Uncertain, Go, At, CallTypeOK, Closing, Returns, processVars
<1>9. CASE Reserve \/ Bind \/ Spawn \/ EndCommand \/ CommandAborted
    BY <1>9, ZenonT(30) DEF Reserve, Bind, Spawn, EndCommand, CommandAborted, Uncertain, Go, At, CallTypeOK, Closing, Returns, processVars
<1>10. CASE StoreResult \/ StoreFact \/ Capture \/ Weigh \/ Judge \/ Decide
    BY <1>10 DEF StoreResult, StoreFact, Capture, Weigh, Judge, Decide, Uncertain, Go, At, CallTypeOK, Closing, Returns, processVars
<1>11. CASE BeforeClose
    BY <1>11 DEF BeforeClose, At, CallTypeOK, Closing, Returns, processVars
<1>12. CASE StopGroup
    <2>1. At("stop") /\ UNCHANGED live
        BY <1>12 DEF StopGroup
    <2>2. PICK settled \in {"yes", "no", "unknown", conn[ctl.p].settled}, raised \in BOOLEAN : AfterClose(settled, raised)
        BY <1>12, Zenon DEF StopGroup
    <2> QED
        BY <2>1, <2>2, CloseEnds
<1>13. CASE StoreSettlement \/ ObserveSettlement
    BY <1>13 DEF StoreSettlement, ObserveSettlement, Go, At, CallTypeOK, Closing, Returns, processVars
<1>14. CASE After \/ CancelBeforeDispatch \/ ReviewTarget \/ MarkUncertain
    BY <1>14, ZenonT(30) DEF After, CancelBeforeDispatch, ReviewTarget, MarkUncertain, Go, At, CallTypeOK, Closing, Returns, processVars
<1>15. CASE SettleUnreconciled \/ Retired \/ Restore \/ Interrupt \/ Retire
    BY <1>15 DEF SettleUnreconciled, Retired, Restore, Interrupt, Retire, Go, At, CallTypeOK, Closing, Returns, processVars
<1>16. CASE StoreReply \/ CancelFailed \/ WeighSettlement \/ Confirm
    BY <1>16 DEF StoreReply, CancelFailed, WeighSettlement, Confirm, Go, At, CallTypeOK, Closing, Returns, processVars
<1>17. CASE SettleWithoutDispatch \/ Unsent
    BY <1>17 DEF SettleWithoutDispatch, Unsent, Go, At, CallTypeOK, Closing, Returns, processVars
<1>18. CASE End \/ IntendPR \/ ClaimPR
    BY <1>18 DEF End, IntendPR, ClaimPR, Leave, Idle, Go, At, CallTypeOK, Closing, Returns, processVars
<1>19. CASE Apply
    <2>1. UNCHANGED live /\ ctl.pc = "apply"
        BY <1>19 DEF Apply, At
    <2>2. ctl' = Idle \/ \E r \in {"accepted", "unknown", "rejected"} : ctl' = [ctl EXCEPT !.pc = "applied", !.run = r]
        BY <1>19, Zenon DEF Apply, Leave
    <2>3. CASE ctl' = Idle
        BY <2>1, <2>3 DEF CallTypeOK, Closing, Idle
    <2>4. CASE \E r \in {"accepted", "unknown", "rejected"} : ctl' = [ctl EXCEPT !.pc = "applied", !.run = r]
        BY <2>1, <2>4 DEF CallTypeOK, Closing
    <2> QED
        BY <2>2, <2>3, <2>4
<1>20. CASE ObserveApplied \/ ReconcilePR
    BY <1>20 DEF ObserveApplied, ReconcilePR, Leave, Idle, At, CallTypeOK, Closing, Returns, processVars
<1> QED
    BY <1>1, <1>2, <1>3, <1>4, <1>5, <1>6, <1>7, <1>8, <1>9, <1>10, <1>11, <1>12, <1>13, <1>14, <1>15, <1>16, <1>17, <1>18, <1>19, <1>20 DEF Step

\* Where a request may fail, and where the call goes on when it does.
LEMMA FailurePlaces ==
    ASSUME ConnectionFails
    PROVE  /\ \E ret \in Returns : ctl' = [ctl EXCEPT !.pc = "close", !.ret = ret]
           /\ ctl.pc # "off" /\ UNCHANGED live
<1>1. ctl.pc \in DOMAIN AfterFailure
    BY DEF ConnectionFails
<1>2. DOMAIN AfterFailure = {"start", "turn", "receipt", "advance", "candidate", "restore", "interrupt"}
    BY DEF AfterFailure
<1>3. ctl.pc \in {"start", "turn", "receipt", "advance", "candidate", "restore", "interrupt"}
    BY <1>1, <1>2
<1>4. AfterFailure[ctl.pc] \in Returns
    BY <1>3 DEF AfterFailure, Returns
<1>5. UNCHANGED live
    BY DEF ConnectionFails, processVars
<1> QED
    BY <1>3, <1>4, <1>5 DEF ConnectionFails, Returns

\* So does every other step, with the processes that come and go.
LEMMA CallKept ==
    ASSUME CallTypeOK, [Next]_vars PROVE CallTypeOK'
<1>1. CASE Step
    BY <1>1, CallStep
<1>2. CASE ConnectionFails
    BY <1>2, FailurePlaces DEF CallTypeOK, Closing, Returns
<1>3. CASE \E p \in Processes : StartProcess(p)
    BY <1>3 DEF StartProcess, At, CallTypeOK, Closing
<1>4. CASE \E p \in Processes : Enter(p)
    BY <1>4 DEF Enter, Idle, CallTypeOK, Closing, processVars
<1>5. CASE \E p \in Processes : Crash(p)
    <2>1. PICK p \in Processes : Crash(p)
        BY <1>5
    <2>2. live' \subseteq Processes
        BY <2>1 DEF Crash, CallTypeOK
    <2>3. CASE ctl.p = p
        <3>1. ctl' = Idle
            BY <2>1, <2>3 DEF Crash
        <3> QED
            BY <3>1, <2>2 DEF Idle, CallTypeOK, Closing
    <2>4. CASE ctl.p # p
        <3>1. ctl.p = None /\ ctl' = ctl
            BY <2>1, <2>4 DEF Crash
        <3>2. None \notin live
            BY TaskAssumption DEF CallTypeOK
        <3> QED
            BY <3>1, <3>2, <2>2 DEF CallTypeOK
    <2> QED
        BY <2>3, <2>4
<1>6. ASSUME UNCHANGED <<ctl, live>> PROVE CallTypeOK'
    BY <1>6 DEF CallTypeOK
<1>7. CASE \E p \in Processes : Signal(p) \/ GroupDies(p)
    BY <1>6, <1>7 DEF Signal, GroupDies, processVars
<1>8. CASE Expire \/ Edit \/ TurnEnds \/ \E i \in Commands : CommandDies(i)
    BY <1>6, <1>8 DEF Expire, Edit, TurnEnds, CommandDies, processVars
<1>9. CASE UNCHANGED vars
    BY <1>6, <1>9 DEF vars, processVars
<1> QED
    BY <1>1, <1>2, <1>3, <1>4, <1>5, <1>7, <1>8, <1>9 DEF Next

-----------------------------------------------------------------------------
(* Steps that have nothing to do with the commands. *)

CommandPlaces == Looping \cup {"workspace", "install", "verify"}

CommandsAside ==
    /\ UNCHANGED <<commandVars, candidate, accepted, ranOn, proc>>
    /\ UNCHANGED <<ctl, ws>> \/ Place' \notin CommandPlaces

CommandsInv == CommandsInOrder /\ LoopInOrder /\ StartedOnCandidate /\ VerdictBacked

\* They keep what is known of the commands.
LEMMA AsideKeepsCommands ==
    ASSUME CommandsInv, CommandsAside PROVE CommandsInv'
<1> USE DEF CommandsAside, commandVars
<1>1. CommandsInOrder' /\ StartedOnCandidate' /\ VerdictBacked'
    BY DEF CommandsInv, CommandsInOrder, StartedOnCandidate, VerdictBacked, CleanBefore
<1>2. CASE UNCHANGED <<ctl, ws>>
    <2>1. LoopInOrder'
        BY <1>2 DEF CommandsInv, LoopInOrder, Place, Unresolved, CleanBefore
    <2> QED
        BY <1>1, <2>1 DEF CommandsInv
<1>3. CASE Place' \notin CommandPlaces
    <2>1. LoopInOrder'
        BY <1>3 DEF LoopInOrder, CommandPlaces, Looping, Fresh
    <2> QED
        BY <1>1, <2>1 DEF CommandsInv
<1> QED
    BY <1>2, <1>3

\* Where the call is before and after a close.
LEMMA ClosePlaces ==
    ASSUME CallTypeOK, BeforeClose \/ StopGroup \/ StoreSettlement \/ ObserveSettlement
    PROVE  Place' \in Returns
<1>1. CASE BeforeClose
    BY <1>1 DEF BeforeClose, At, CallTypeOK, Place, Closing
<1>2. CASE StopGroup
    <2>1. At("stop") /\ UNCHANGED live
        BY <1>2 DEF StopGroup
    <2>2. PICK settled \in {"yes", "no", "unknown", conn[ctl.p].settled}, raised \in BOOLEAN : AfterClose(settled, raised)
        BY <1>2, Zenon DEF StopGroup
    <2>3. Resumed(raised) \in Returns
        BY <2>1 DEF At, CallTypeOK, Closing, Returns, Resumed
    <2>4. \/ ctl'.pc = "record" /\ ctl'.ret = Resumed(raised)
          \/ ctl'.pc = Resumed(raised)
        BY <2>2 DEF AfterClose, CallTypeOK
    <2> QED
        BY <2>3, <2>4 DEF Place, Closing, Returns
<1>3. CASE StoreSettlement \/ ObserveSettlement
    BY <1>3 DEF StoreSettlement, ObserveSettlement, Go, At, CallTypeOK, Place, Closing, Returns
<1> QED
    BY <1>1, <1>2, <1>3

CommandWork ==
    \/ Recover \/ Collect \/ Install \/ Verify \/ CheckRefused
    \/ Reserve \/ Bind \/ Spawn \/ EndCommand \/ CommandAborted
    \/ StoreResult \/ StoreFact \/ Capture \/ Weigh \/ Judge \/ Decide
    \/ Edit \/ \E i \in Commands : CommandDies(i)

\* All steps but those of the commands are of this kind.
LEMMA StepsAside ==
    ASSUME CallTypeOK, [Next]_vars, ~CommandWork PROVE CommandsAside
<1> USE DEF CommandsAside, workVars, worldVars
<1>p. \A x : x \in CommandPlaces => x \notin Returns \cup Closing
    BY DEF CommandPlaces, Looping, Returns, Closing
<1>1. CASE Admit \/ PrepareAttempt \/ StartAttempt \/ ObserveReceipt \/ ObserveTerminal \/ FinishAttempt \/ RecoverTarget
    BY <1>1 DEF Admit, PrepareAttempt, StartAttempt, ObserveReceipt, ObserveTerminal, FinishAttempt, RecoverTarget
<1>2. CASE Activate \/ StopSeen \/ StartRefused \/ AuthorityRefused \/ NothingToDo
    BY <1>2, ZenonT(30) DEF Activate, StopSeen, StartRefused, AuthorityRefused, NothingToDo, Go, CallTypeOK, Place, Closing, Returns, CommandPlaces, Looping
<1>3. CASE ClaimRuntime \/ StartThread \/ StoreReceipt \/ Failed
    BY <1>3, ZenonT(30) DEF ClaimRuntime, StartThread, StoreReceipt, Failed, Go, CallTypeOK, Place, Closing, Returns, CommandPlaces, Looping
<1>16. CASE \E reply \in BOOLEAN : StartTurn(reply)
    BY <1>16, ZenonT(30) DEF StartTurn, Go, CallTypeOK, Place, Closing, Returns, CommandPlaces, Looping
<1>4. CASE Watch \/ StoreOutcome \/ NoCandidate
    BY <1>4 DEF Watch, StoreOutcome, NoCandidate, Go, CallTypeOK, Place, Closing, Returns, CommandPlaces, Looping
<1>5. CASE After \/ CancelBeforeDispatch \/ MarkUncertain
    BY <1>5, ZenonT(30) DEF After, CancelBeforeDispatch, MarkUncertain, Go, CallTypeOK, Place, Closing, Returns, CommandPlaces, Looping
<1>17. CASE ReviewTarget
    <2>1. Place' \in Returns \cup {"confirm", "restore", "uncertain"}
        BY <1>17, ZenonT(30) DEF ReviewTarget, Go, CallTypeOK, Place, Closing, Returns
    <2>2. UNCHANGED <<commandVars, candidate, accepted, ranOn, proc, ws>>
        BY <1>17 DEF ReviewTarget
    <2> QED
        BY <2>1, <2>2 DEF CommandPlaces, Looping, Returns
<1>6. CASE SettleUnreconciled \/ Retired \/ Restore \/ Interrupt \/ Retire
    BY <1>6, ZenonT(30) DEF SettleUnreconciled, Retired, Restore, Interrupt, Retire, Go, CallTypeOK, Place, Closing, Returns, CommandPlaces, Looping
<1>7. CASE StoreReply \/ CancelFailed \/ WeighSettlement
    BY <1>7, ZenonT(30) DEF StoreReply, CancelFailed, WeighSettlement, Go, CallTypeOK, Place, Closing, Returns, CommandPlaces, Looping
<1>8. CASE Confirm \/ SettleWithoutDispatch \/ Unsent
    BY <1>8, ZenonT(30) DEF Confirm, SettleWithoutDispatch, Unsent, Go, CallTypeOK, Place, Closing, Returns, CommandPlaces, Looping
<1>9. CASE End \/ IntendPR \/ ClaimPR
    BY <1>9 DEF End, IntendPR, ClaimPR, Leave, Idle, Go, CallTypeOK, Place, Closing, Returns, CommandPlaces, Looping
<1>10. CASE ObserveApplied \/ ReconcilePR
    BY <1>10 DEF ObserveApplied, ReconcilePR, Leave, Idle, CallTypeOK, Place, Closing, Returns, CommandPlaces, Looping
<1>11. CASE BeforeClose \/ StopGroup \/ StoreSettlement \/ ObserveSettlement
    <2>1. Place' \in Returns
        BY <1>11, ClosePlaces
    <2>2. UNCHANGED <<commandVars, candidate, accepted, ranOn, proc, ws>>
        BY <1>11 DEF BeforeClose, StopGroup, StoreSettlement, ObserveSettlement
    <2> QED
        BY <1>p, <2>1, <2>2
<1>12. CASE Apply
    <2>1. Place' \in {"off", "applied"}
        <3>1. ctl' = Idle \/ \E r \in {"accepted", "unknown", "rejected"} : ctl' = [ctl EXCEPT !.pc = "applied", !.run = r]
            BY <1>12, Zenon DEF Apply, Leave
        <3>2. ctl'.pc \in {"off", "applied"}
            <4>1. CASE ctl' = Idle
                BY <4>1 DEF Idle
            <4>2. CASE \E r \in {"accepted", "unknown", "rejected"} : ctl' = [ctl EXCEPT !.pc = "applied", !.run = r]
                BY <4>2 DEF CallTypeOK
            <4> QED
                BY <3>1, <4>1, <4>2
        <3> QED
            BY <3>2 DEF Place, Closing
    <2>2. UNCHANGED <<commandVars, candidate, accepted, ranOn, proc, ws>>
        BY <1>12 DEF Apply
    <2> QED
        BY <2>1, <2>2 DEF CommandPlaces, Looping
<1>13. CASE ConnectionFails
    <2>1. Place' \in Returns
        BY <1>13, FailurePlaces DEF CallTypeOK, Place, Closing
    <2>2. UNCHANGED <<commandVars, candidate, accepted, ranOn, proc, ws>>
        BY <1>13 DEF ConnectionFails
    <2> QED
        BY <1>p, <2>1, <2>2
<1>14. CASE \E p \in Processes : StartProcess(p) \/ Enter(p) \/ Crash(p) \/ Signal(p) \/ GroupDies(p)
    <2>1. UNCHANGED <<commandVars, candidate, accepted, ranOn, proc, ws>>
        BY <1>14 DEF StartProcess, Enter, Crash, Signal, GroupDies
    <2>2. UNCHANGED ctl \/ ctl'.pc \in {"off", "admit"}
        <3>1. CASE \E p \in Processes : StartProcess(p) \/ Signal(p) \/ GroupDies(p)
            BY <3>1 DEF StartProcess, Signal, GroupDies
        <3>2. CASE \E p \in Processes : Enter(p)
            BY <3>2 DEF Enter, Idle
        <3>3. CASE \E p \in Processes : Crash(p)
            BY <3>3 DEF Crash, Idle
        <3> QED
            BY <1>14, <3>1, <3>2, <3>3
    <2> QED
        BY <2>1, <2>2 DEF Place, Closing, CommandPlaces, Looping
<1>15. CASE Expire \/ TurnEnds \/ UNCHANGED vars
    BY <1>15 DEF Expire, TurnEnds, vars
<1>18. CASE PrepareWorkspace \/ Retrieve
    <2>1. Place' \in {"raised", "end", "after", "advance", "outcome"}
        BY <1>18, ZenonT(30) DEF PrepareWorkspace, Retrieve, Uncertain, Go, CallTypeOK, Place, Closing
    <2>2. UNCHANGED <<commandVars, candidate, accepted, ranOn, proc>>
        BY <1>18 DEF PrepareWorkspace, Retrieve
    <2> QED
        BY <2>1, <2>2 DEF CommandPlaces, Looping
<1> QED
    BY <1>1, <1>2, <1>3, <1>4, <1>5, <1>6, <1>7, <1>8, <1>9, <1>10, <1>11, <1>12, <1>13, <1>14, <1>15, <1>16, <1>17, <1>18 DEF Next, Step, CommandWork

-----------------------------------------------------------------------------
(* The steps of the commands. *)

\* A command that lives is unresolved, and what is unresolved was reserved.
LEMMA AliveUnresolved ==
    ASSUME CommandsInOrder
    PROVE  /\ Unresolved \subseteq reserved
           /\ \A i \in Commands : proc[i] = "alive" => i \in Unresolved
BY DEF CommandsInOrder, Unresolved

\* Recovery retires commands whose owner this process still holds, and sees who is left.
LEMMA RecoverKeepsCommands ==
    ASSUME CallTypeOK, CommandsInv, Recover PROVE CommandsInv'
<1>1. PICK gone \in SUBSET {i \in {i \in Unresolved \cap owners[ctl.p] \cap bound : result[i] = None \/ i \notin settledFact} : proc[i] = "alive"} :
          /\ proc' = [i \in Commands |-> IF i \in gone THEN "dead" ELSE proc[i]]
          /\ settledFact' = settledFact \cup {i \in {i \in Unresolved \cap owners[ctl.p] \cap bound : result[i] = None \/ i \notin settledFact} : proc'[i] = "dead"}
    BY DEF Recover
<1>2. UNCHANGED <<reserved, result, integrity, verdict, candidate, accepted, ranOn>>
    BY DEF Recover, workVars
<1>3. CommandsInOrder'
    BY <1>1, <1>2 DEF CommandsInv, CommandsInOrder, Unresolved
<1>4. StartedOnCandidate' /\ VerdictBacked'
    BY <1>2 DEF CommandsInv, StartedOnCandidate, VerdictBacked, CleanBefore
<1>5. Place' \in {"nodispatch", "after", "workspace"} /\ (Place' = "workspace" => Unresolved' = {})
    BY DEF Recover, CallTypeOK, Place, Closing
<1>6. LoopInOrder'
    BY <1>5 DEF LoopInOrder, Looping, Fresh
<1> QED
    BY <1>3, <1>4, <1>6 DEF CommandsInv

\* A candidate that is recorded for the first time has no commands yet.
LEMMA CollectKeepsCommands ==
    ASSUME CallTypeOK, CommandsInv, Collect PROVE CommandsInv'
<1>1. UNCHANGED <<commandVars, accepted, ranOn, proc>>
    BY DEF Collect, worldVars
<1>2. candidate # None => candidate' = candidate
    BY DEF Collect
<1>3. candidate = None => reserved = {} /\ verdict # "pass" /\ accepted = None
    BY TaskAssumption DEF CommandsInv, CommandsInOrder, VerdictBacked
<1>4. candidate = None => \A i \in Commands : ranOn[i] = << >>
    BY <1>3 DEF CommandsInv, CommandsInOrder
<1>5. CommandsInOrder'
    BY <1>1, <1>2, <1>3 DEF CommandsInv, CommandsInOrder, commandVars
<1>6. StartedOnCandidate' /\ VerdictBacked'
    BY <1>1, <1>2, <1>3, <1>4 DEF CommandsInv, StartedOnCandidate, VerdictBacked, CleanBefore, commandVars
<1>7. Place' \in {"after", "install"} /\ (Place' = "install" => Unresolved = {})
    BY DEF Collect, Uncertain, Go, CallTypeOK, Place, Closing
<1>8. LoopInOrder'
    BY <1>1, <1>7 DEF LoopInOrder, Looping, Fresh, Unresolved, commandVars
<1> QED
    BY <1>5, <1>6, <1>8 DEF CommandsInv

\* The candidate is installed when no command can write to the workspace.
LEMMA InstallKeepsCommands ==
    ASSUME CallTypeOK, CommandsInv, Install PROVE CommandsInv'
<1>1. UNCHANGED <<commandVars, candidate, accepted, ranOn, proc>> /\ ws' = [head |-> candidate, content |-> candidate]
    BY DEF Install, workVars
<1>2. CommandsInOrder' /\ StartedOnCandidate' /\ VerdictBacked'
    BY <1>1 DEF CommandsInv, CommandsInOrder, StartedOnCandidate, VerdictBacked, CleanBefore, commandVars
<1>3. Place' \in {"verify", "failed"}
    BY DEF Install, CallTypeOK, Place, Closing
<1>4. LoopInOrder'
    BY <1>1, <1>3 DEF LoopInOrder, Looping, Fresh
<1> QED
    BY <1>2, <1>4 DEF CommandsInv

\* The loop over the commands begins on a sound candidate with a clean workspace.
LEMMA VerifyKeepsCommands ==
    ASSUME CallTypeOK, CommandsInv, Verify PROVE CommandsInv'
<1>1. UNCHANGED <<reserved, result, settledFact, integrity, candidate, accepted, ranOn, proc, ws>>
    BY DEF Verify, workVars, worldVars
<1>2. verdict' = verdict \/ (verdict = None /\ verdict' = "fail")
    BY DEF Verify
<1>3. CommandsInOrder' /\ StartedOnCandidate'
    BY <1>1 DEF CommandsInv, CommandsInOrder, StartedOnCandidate, CleanBefore
<1>4. VerdictBacked'
    BY <1>1, <1>2, TaskAssumption DEF CommandsInv, VerdictBacked
<1>5. Place = "verify"
    BY DEF Verify, At, Place, Closing
<1>6. \/ Place' \in {"decide", "after"}
      \/ /\ Place' = "commands" /\ ctl'.i = 1 /\ verdict = None /\ verdict' = None
         /\ Unresolved = {} /\ candidate \in Proper /\ ws.content = ws.head
    BY DEF Verify, Uncertain, StructurallySound, Go, CallTypeOK, Place, Closing
<1>7. CASE Place' \in {"decide", "after"}
    <2>1. LoopInOrder'
        BY <1>7 DEF LoopInOrder, Looping, Fresh
    <2> QED
        BY <1>3, <1>4, <2>1 DEF CommandsInv
<1>8. CASE /\ Place' = "commands" /\ ctl'.i = 1 /\ verdict = None /\ verdict' = None
           /\ Unresolved = {} /\ candidate \in Proper /\ ws.content = ws.head
    <2>1. ws = [head |-> candidate, content |-> ws.content]
        BY <1>5 DEF CommandsInv, LoopInOrder
    <2>2. ws' = [head |-> candidate', content |-> ws'.content] /\ ws'.content = candidate'
        BY <1>1, <1>8, <2>1
    <2>3. Unresolved' = {}
        BY <1>1, <1>8 DEF Unresolved
    <2>4. 1 \in 1..(LastCommand + 1) /\ Before(1) = {}
        BY TaskAssumption DEF Before
    <2>5. LoopInOrder'
        BY <1>1, <1>8, <2>2, <2>3, <2>4 DEF LoopInOrder, Looping, Fresh, Before
    <2> QED
        BY <1>3, <1>4, <2>5 DEF CommandsInv
<1> QED
    BY <1>6, <1>7, <1>8

\* A verdict is stored, or the candidate decided on: nothing else changes.
LEMMA VerdictKeepsCommands ==
    ASSUME CallTypeOK, CommandsInv, CheckRefused \/ Judge \/ Decide PROVE CommandsInv'
<1>1. UNCHANGED <<reserved, result, settledFact, integrity, candidate, ranOn, proc, ws>>
    BY DEF CheckRefused, Judge, Decide, AdmitAccepted, workVars, commandVars, worldVars
<1>2. CommandsInOrder' /\ StartedOnCandidate'
    BY <1>1 DEF CommandsInv, CommandsInOrder, StartedOnCandidate, CleanBefore
<1>3. Place' \in {"decide", "after"}
    BY DEF CheckRefused, Judge, Decide, Go, CallTypeOK, Place, Closing
<1>4. LoopInOrder'
    BY <1>3 DEF LoopInOrder, Looping, Fresh
<1>5. CASE CheckRefused \/ Judge
    <2>1. Place = "commands" /\ verdict = None /\ candidate \in Proper
        BY <1>5 DEF CheckRefused, Judge, At, Place, Closing, CommandsInv, LoopInOrder, Looping
    <2>2. accepted' = None
        BY <1>5, <2>1, TaskAssumption DEF CheckRefused, Judge, workVars, CommandsInv, VerdictBacked
    <2>3. verdict' = "fail" \/ (verdict' = "pass" /\ \A i \in Commands : result[i] = "ok" /\ integrity[i] = "clean")
        BY <1>5 DEF CheckRefused, Judge
    <2>4. VerdictBacked'
        BY <1>1, <2>1, <2>2, <2>3 DEF VerdictBacked
    <2> QED
        BY <1>2, <1>4, <2>4 DEF CommandsInv
<1>6. CASE Decide
    <2>1. UNCHANGED verdict /\ (accepted' = accepted \/ (verdict = "pass" /\ accepted' = candidate))
        BY <1>6 DEF Decide, Accepts, AdmitAccepted, commandVars
    <2>2. VerdictBacked'
        BY <1>1, <2>1 DEF CommandsInv, VerdictBacked
    <2> QED
        BY <1>2, <1>4, <2>2 DEF CommandsInv
<1> QED
    BY <1>5, <1>6

\* A command is reserved when all before it have results and none after it is reserved.
LEMMA ReserveKeepsCommands ==
    ASSUME CallTypeOK, CommandsInv, Reserve PROVE CommandsInv'
<1>1. UNCHANGED <<result, settledFact, integrity, verdict, candidate, accepted, ranOn, proc, ws>>
    BY DEF Reserve, workVars, worldVars
<1>2. Place = "commands" /\ ctl.i \in Commands
    BY DEF Reserve, At, Place, Closing
<1>3. /\ \A j \in Before(ctl.i) : result[j] # None
      /\ verdict = None /\ candidate \in Proper /\ Unresolved = {}
      /\ ws = [head |-> candidate, content |-> ws.content]
      /\ ctl.i \in 1..(LastCommand + 1)
      /\ CleanBefore(ctl.i) => ws.content = candidate
    BY <1>2 DEF CommandsInv, LoopInOrder, Looping
<1>4. StartedOnCandidate' /\ VerdictBacked'
    BY <1>1 DEF CommandsInv, StartedOnCandidate, VerdictBacked, CleanBefore
<1>5. \/ Place' = "after" /\ UNCHANGED reserved
      \/ Place' = "weigh" /\ ctl'.i = ctl.i /\ UNCHANGED reserved /\ result[ctl.i] # None
      \/ /\ Place' = "bind" /\ ctl'.i = ctl.i /\ reserved' = reserved \cup {ctl.i}
         /\ ctl.i \notin reserved /\ result[ctl.i] = None
    BY DEF Reserve, Uncertain, Go, CallTypeOK, Place, Closing
<1>6. CASE Place' = "after" /\ UNCHANGED reserved
    <2>1. CommandsInOrder'
        BY <1>1, <1>6 DEF CommandsInv, CommandsInOrder
    <2>2. LoopInOrder'
        BY <1>6 DEF LoopInOrder, Looping, Fresh
    <2> QED
        BY <1>4, <2>1, <2>2 DEF CommandsInv
<1>7. CASE Place' = "weigh" /\ ctl'.i = ctl.i /\ UNCHANGED reserved /\ result[ctl.i] # None
    <2>1. CommandsInOrder'
        BY <1>1, <1>7 DEF CommandsInv, CommandsInOrder
    <2>2. Unresolved' = {}
        BY <1>1, <1>3, <1>7 DEF Unresolved
    <2>3. CleanBefore(ctl.i + 1) => CleanBefore(ctl.i)
        BY <1>2 DEF CleanBefore, Before, Commands
    <2>4. LoopInOrder'
        BY <1>1, <1>2, <1>3, <1>7, <2>2, <2>3 DEF LoopInOrder, Looping, Fresh, CleanBefore
    <2> QED
        BY <1>4, <2>1, <2>4 DEF CommandsInv
<1>8. CASE /\ Place' = "bind" /\ ctl'.i = ctl.i /\ reserved' = reserved \cup {ctl.i}
           /\ ctl.i \notin reserved /\ result[ctl.i] = None
    <2>1. CommandsInOrder'
        BY <1>1, <1>2, <1>3, <1>8 DEF CommandsInv, CommandsInOrder
    <2>2. Unresolved' \subseteq {ctl.i}
        BY <1>1, <1>3, <1>8 DEF Unresolved
    <2>3. ASSUME NEW k \in reserved PROVE k <= ctl.i
        <3>1. k \in Commands /\ \A j \in Before(k) : result[j] # None
            BY DEF CommandsInv, CommandsInOrder
        <3>2. ctl.i \notin Before(k)
            BY <1>8, <3>1
        <3> QED
            BY <1>2, <3>1, <3>2, TaskAssumption DEF Before, Commands
    <2>4. integrity[ctl.i] = None /\ ranOn[ctl.i] = << >> /\ ctl.i \notin settledFact
        BY <1>2, <1>8 DEF CommandsInv, CommandsInOrder
    <2>5. ctl.i <= ctl.i
        BY <1>2 DEF Commands
    <2>6. LoopInOrder'
        BY <1>1, <1>2, <1>3, <1>8, <2>2, <2>3, <2>4, <2>5 DEF LoopInOrder, Looping, Fresh, CleanBefore
    <2> QED
        BY <1>4, <2>1, <2>6 DEF CommandsInv
<1> QED
    BY <1>5, <1>6, <1>7, <1>8

\* The owner of a command is recorded before it starts.
LEMMA BindKeepsCommands ==
    ASSUME CallTypeOK, CommandsInv, Bind PROVE CommandsInv'
<1>1. UNCHANGED <<reserved, result, settledFact, integrity, verdict, candidate, accepted, ranOn, proc, ws>>
    BY DEF Bind, workVars, worldVars
<1>2. Place = "bind" /\ Place' = "spawn" /\ ctl'.i = ctl.i
    BY DEF Bind, Go, At, CallTypeOK, Place, Closing
<1>3. CommandsInOrder' /\ StartedOnCandidate' /\ VerdictBacked'
    BY <1>1 DEF CommandsInv, CommandsInOrder, StartedOnCandidate, VerdictBacked, CleanBefore
<1>4. LoopInOrder'
    BY <1>1, <1>2 DEF CommandsInv, LoopInOrder, Looping, Fresh, Unresolved, CleanBefore
<1> QED
    BY <1>3, <1>4 DEF CommandsInv

\* A command starts on the candidate unless a command before it changed the workspace.
LEMMA SpawnKeepsCommands ==
    ASSUME CallTypeOK, CommandsInv, Spawn PROVE CommandsInv'
<1>1. UNCHANGED <<reserved, result, settledFact, integrity, verdict, candidate, accepted, ws>>
    BY DEF Spawn, workVars, commandVars
<1>2. Place = "spawn" /\ ctl'.i = ctl.i
    BY DEF Spawn, Go, At, CallTypeOK, Place, Closing
<1>3. /\ \A j \in Before(ctl.i) : result[j] # None
      /\ verdict = None /\ candidate \in Proper /\ Unresolved \subseteq {ctl.i}
      /\ ws = [head |-> candidate, content |-> ws.content]
      /\ ctl.i \in 1..(LastCommand + 1) /\ ctl.i \in Commands
      /\ ctl.i \in reserved /\ integrity[ctl.i] = None
      /\ \A k \in reserved : k <= ctl.i
      /\ ranOn[ctl.i] = << >>
      /\ CleanBefore(ctl.i) => ws.content = candidate
    BY <1>2 DEF CommandsInv, LoopInOrder, Looping, Fresh
<1>4. VerdictBacked'
    BY <1>1 DEF CommandsInv, VerdictBacked
<1>5. Unresolved' = Unresolved
    BY <1>1 DEF Unresolved
<1>6. CASE Authorized
    <2>1. /\ proc' = [proc EXCEPT ![ctl.i] = "alive"] /\ Place' = "running"
          /\ ranOn' = [ranOn EXCEPT ![ctl.i] = Append(@, ws.content)]
        BY <1>6 DEF Spawn, Go, CallTypeOK, Place, Closing
    <2>2. Append(ranOn[ctl.i], ws.content) = <<ws.content>> /\ <<ws.content>> # << >>
        BY <1>3
    <2>3. ctl.i \notin settledFact
        BY <1>2 DEF CommandsInv, LoopInOrder, Fresh
    <2>4. /\ ranOn'[ctl.i] = <<ws.content>> /\ proc'[ctl.i] = "alive"
          /\ \A i \in Commands \ {ctl.i} : ranOn'[i] = ranOn[i] /\ proc'[i] = proc[i]
          /\ proc' \in [Commands -> {"none", "alive", "dead"}] /\ DOMAIN ranOn' = Commands
        BY <1>3, <2>1, <2>2 DEF CommandsInv, CommandsInOrder
    <2>5. CommandsInOrder'
        <3>1. /\ ranOn'[ctl.i] = <<ranOn'[ctl.i][1]>> /\ ranOn'[ctl.i] # << >>
              /\ \A j \in Before(ctl.i) : result[j] # None
            BY <1>3, <2>2, <2>4
        <3>2. integrity'[ctl.i] = None /\ ctl.i \in reserved'
            BY <1>1, <1>3
        <3> QED
            BY <1>1, <2>3, <2>4, <3>1, <3>2 DEF CommandsInv, CommandsInOrder
    <2>6. StartedOnCandidate'
        BY <1>1, <1>3, <2>2, <2>4 DEF CommandsInv, StartedOnCandidate, CleanBefore
    <2>7. LoopInOrder'
        BY <1>1, <1>2, <1>3, <1>5, <2>1, <2>2, <2>3, <2>4 DEF LoopInOrder, Looping, Fresh
    <2> QED
        BY <1>4, <2>5, <2>6, <2>7 DEF CommandsInv
<1>7. CASE ~Authorized
    <2>1. Place' = "store" /\ ctl'.run = "not_started" /\ UNCHANGED <<proc, ranOn>>
        BY <1>7 DEF Spawn, CallTypeOK, Place, Closing
    <2>2. CommandsInOrder' /\ StartedOnCandidate'
        BY <1>1, <2>1 DEF CommandsInv, CommandsInOrder, StartedOnCandidate, CleanBefore
    <2>3. ctl.i \notin settledFact
        BY <1>2 DEF CommandsInv, LoopInOrder, Fresh
    <2>4. LoopInOrder'
        BY <1>1, <1>2, <1>3, <1>5, <2>1, <2>3, TaskAssumption DEF LoopInOrder, Looping, Fresh
    <2> QED
        BY <1>4, <2>2, <2>4 DEF CommandsInv
<1> QED
    BY <1>6, <1>7

\* The death of a command that was started changes nothing that is recorded.
LEMMA DeathKeepsOrder ==
    ASSUME CommandsInOrder, NEW i \in Commands, ranOn[i] # << >>,
           proc' \in {proc, [proc EXCEPT ![i] = "dead"]},
           UNCHANGED <<reserved, result, integrity, settledFact, ranOn, candidate>>
    PROVE  CommandsInOrder'
<1>1. /\ proc' \in [Commands -> {"none", "alive", "dead"}]
      /\ \A j \in Commands : proc'[j] = proc[j] \/ (j = i /\ proc'[j] = "dead")
    BY DEF CommandsInOrder
<1> QED
    BY <1>1 DEF CommandsInOrder

\* A command that ends has not been weighed yet.
LEMMA EndKeepsCommands ==
    ASSUME CallTypeOK, CommandsInv, EndCommand PROVE CommandsInv'
<1>1. UNCHANGED <<reserved, result, settledFact, integrity, verdict, candidate, accepted, ranOn, ws>>
    BY DEF EndCommand, workVars, commandVars
<1>2. Place = "running" /\ Place' = "store" /\ ctl'.i = ctl.i /\ ctl'.run \in {"ok", "bad", "stopped"}
    BY DEF EndCommand, At, CallTypeOK, Place, Closing
<1>3. ctl.i \in Commands /\ ranOn[ctl.i] # << >>
    BY <1>2 DEF CommandsInv, LoopInOrder, Looping
<1>4. proc' \in {proc, [proc EXCEPT ![ctl.i] = "dead"]}
    BY DEF EndCommand
<1>5. CommandsInOrder'
    BY <1>1, <1>3, <1>4, DeathKeepsOrder DEF CommandsInv
<1>6. StartedOnCandidate' /\ VerdictBacked'
    BY <1>1 DEF CommandsInv, StartedOnCandidate, VerdictBacked, CleanBefore
<1>7. ctl'.run # None
    BY <1>2, TaskAssumption
<1>8. LoopInOrder'
    BY <1>1, <1>2, <1>3, <1>7 DEF CommandsInv, LoopInOrder, Looping, Fresh, Unresolved
<1> QED
    BY <1>5, <1>6, <1>8 DEF CommandsInv

\* A command that is aborted has no result, and its end is recorded when it was seen.
LEMMA AbortKeepsCommands ==
    ASSUME CallTypeOK, CommandsInv, CommandAborted PROVE CommandsInv'
<1>1. UNCHANGED <<reserved, result, integrity, verdict, candidate, accepted, ranOn, ws>>
    BY DEF CommandAborted, workVars
<1>2. Place = "running" /\ Place' = "after"
    BY DEF CommandAborted, At, CallTypeOK, Place, Closing
<1>3. ctl.i \in Commands /\ ranOn[ctl.i] # << >> /\ ctl.i \in reserved
    BY <1>2 DEF CommandsInv, LoopInOrder, Looping, Fresh
<1>4. /\ proc' \in [Commands -> {"none", "alive", "dead"}]
      /\ \A j \in Commands : proc'[j] = proc[j] \/ (j = ctl.i /\ proc'[j] = "dead")
    BY <1>3 DEF CommandAborted, CommandsInv, CommandsInOrder
<1>5. settledFact' = settledFact \/ (proc'[ctl.i] = "dead" /\ settledFact' = settledFact \cup {ctl.i})
    BY DEF CommandAborted
<1>6. CommandsInOrder'
    BY <1>1, <1>3, <1>4, <1>5 DEF CommandsInv, CommandsInOrder
<1>7. StartedOnCandidate' /\ VerdictBacked'
    BY <1>1 DEF CommandsInv, StartedOnCandidate, VerdictBacked, CleanBefore
<1>8. LoopInOrder'
    BY <1>2 DEF LoopInOrder, Looping, Fresh
<1> QED
    BY <1>6, <1>7, <1>8 DEF CommandsInv

\* The first result of a command is stored.
LEMMA ResultKeepsCommands ==
    ASSUME CallTypeOK, CommandsInv, StoreResult PROVE CommandsInv'
<1>1. UNCHANGED <<reserved, settledFact, integrity, verdict, candidate, accepted, ranOn, proc, ws>>
    BY DEF StoreResult, workVars, worldVars
<1>2. Place = "store" /\ Place' = "fact" /\ ctl'.i = ctl.i /\ result' = [result EXCEPT ![ctl.i] = ctl.run]
    BY DEF StoreResult, At, CallTypeOK, Place, Closing
<1>3. /\ ctl.i \in Commands /\ ctl.i \in reserved /\ verdict = None
      /\ ctl.run # None /\ (ranOn[ctl.i] = << >> => ctl.run = "not_started")
      /\ Unresolved \subseteq {ctl.i}
    BY <1>2 DEF CommandsInv, LoopInOrder, Looping, Fresh
<1>4. /\ DOMAIN result' = Commands /\ result'[ctl.i] = ctl.run
      /\ \A j \in Commands \ {ctl.i} : result'[j] = result[j]
    BY <1>2, <1>3 DEF CommandsInv, CommandsInOrder
<1>5. ASSUME NEW i \in Commands, NEW j \in Before(i), result[j] # None PROVE result'[j] # None
    <2>1. j \in Commands
        BY TaskAssumption DEF Before, Commands
    <2> QED
        BY <1>3, <1>4, <1>5, <2>1
<1>6. CommandsInOrder'
    BY <1>1, <1>3, <1>4, <1>5 DEF CommandsInv, CommandsInOrder
<1>7. StartedOnCandidate' /\ VerdictBacked'
    BY <1>1, <1>3, TaskAssumption DEF CommandsInv, StartedOnCandidate, VerdictBacked, CleanBefore
<1>8. Unresolved' \subseteq {ctl.i}
    BY <1>1, <1>3, <1>4 DEF Unresolved, CommandsInv, CommandsInOrder
<1>9. \A j \in Before(ctl.i) : result'[j] # None
    BY <1>2, <1>3, <1>5 DEF CommandsInv, LoopInOrder, Looping
<1>10. LoopInOrder'
    BY <1>1, <1>2, <1>3, <1>4, <1>8, <1>9 DEF CommandsInv, LoopInOrder, Looping, Fresh
<1> QED
    BY <1>6, <1>7, <1>10 DEF CommandsInv

\* Its end is recorded only when nothing of it lives.
LEMMA FactKeepsCommands ==
    ASSUME CallTypeOK, CommandsInv, StoreFact PROVE CommandsInv'
<1>1. UNCHANGED <<reserved, result, integrity, verdict, candidate, accepted, ranOn, proc, ws>>
    BY DEF StoreFact, workVars, worldVars
<1>2. Place = "fact" /\ ctl'.i = ctl.i
    BY DEF StoreFact, Go, At, CallTypeOK, Place, Closing
<1>3. \/ Place' = "weigh" /\ UNCHANGED settledFact
      \/ Place' = "capture" /\ proc[ctl.i] # "alive" /\ settledFact' = settledFact \cup {ctl.i}
    BY DEF StoreFact, Go, CallTypeOK, Place, Closing
<1>4. /\ ctl.i \in Commands /\ ctl.i \in reserved /\ integrity[ctl.i] = None
      /\ Unresolved \subseteq {ctl.i}
    BY <1>2 DEF CommandsInv, LoopInOrder, Looping, Fresh
<1>5. CommandsInOrder'
    BY <1>1, <1>3, <1>4 DEF CommandsInv, CommandsInOrder
<1>6. StartedOnCandidate' /\ VerdictBacked'
    BY <1>1 DEF CommandsInv, StartedOnCandidate, VerdictBacked, CleanBefore
<1>7. Unresolved' \subseteq {ctl.i}
    BY <1>1, <1>3, <1>4 DEF Unresolved
<1>8. ~CleanBefore(ctl.i + 1)
    <2>1. ctl.i \in Before(ctl.i + 1)
        BY <1>4, TaskAssumption DEF Before, Commands
    <2> QED
        BY <1>4, <2>1, TaskAssumption DEF CleanBefore
<1>9. LoopInOrder'
    BY <1>1, <1>2, <1>3, <1>4, <1>7, <1>8 DEF CommandsInv, LoopInOrder, Looping, Fresh, CleanBefore
<1> QED
    BY <1>5, <1>6, <1>9 DEF CommandsInv

\* What a command did to the workspace is recorded before the next one starts.
LEMMA CaptureKeepsCommands ==
    ASSUME CallTypeOK, CommandsInv, Capture PROVE CommandsInv'
<1>1. UNCHANGED <<reserved, result, settledFact, verdict, candidate, accepted, ranOn, proc, ws>>
    BY DEF Capture, workVars, worldVars
<1>2. Place = "capture" /\ Place' = "weigh" /\ ctl'.i = ctl.i
    BY DEF Capture, Go, At, CallTypeOK, Place, Closing
<1>3. PICK clean \in {"clean", "dirty"} :
          /\ integrity' = [integrity EXCEPT ![ctl.i] = clean]
          /\ clean = "clean" => ws.content = ws.head
    BY DEF Capture
<1>4. /\ ctl.i \in Commands /\ ctl.i \in reserved /\ ctl.i \in settledFact /\ integrity[ctl.i] = None
      /\ \A k \in reserved : k <= ctl.i
      /\ Unresolved \subseteq {ctl.i} /\ verdict = None
      /\ ws = [head |-> candidate, content |-> ws.content]
    BY <1>2 DEF CommandsInv, LoopInOrder, Looping, Fresh
<1>5. /\ DOMAIN integrity' = Commands /\ integrity'[ctl.i] = clean
      /\ \A j \in Commands \ {ctl.i} : integrity'[j] = integrity[j]
    BY <1>3, <1>4 DEF CommandsInv, CommandsInOrder
<1>6. CommandsInOrder'
    BY <1>1, <1>4, <1>5 DEF CommandsInv, CommandsInOrder
<1>7. ASSUME NEW i \in Commands, ranOn[i] # << >>, \A j \in Before(i) : integrity'[j] = "clean"
      PROVE  CleanBefore(i)
    <2>1. i <= ctl.i
        BY <1>4, <1>7 DEF CommandsInv, CommandsInOrder
    <2>2. \A j \in Before(i) : j \in Commands \ {ctl.i}
        BY <1>4, <2>1, TaskAssumption DEF Before, Commands
    <2> QED
        BY <1>5, <1>7, <2>2 DEF CleanBefore
<1>8. StartedOnCandidate'
    BY <1>1, <1>7 DEF CommandsInv, StartedOnCandidate, CleanBefore
<1>9. VerdictBacked'
    BY <1>1, <1>4, TaskAssumption DEF CommandsInv, VerdictBacked
<1>10. Unresolved' \subseteq {ctl.i}
    BY <1>1, <1>4, <1>5 DEF Unresolved, CommandsInv, CommandsInOrder
<1>11. CleanBefore(ctl.i + 1)' => ws'.content = candidate'
    <2>1. ctl.i \in Before(ctl.i + 1) /\ ctl'.i = ctl.i
        BY <1>2, <1>4, TaskAssumption DEF Before, Commands
    <2>2. CleanBefore(ctl.i + 1)' => clean = "clean"
        BY <1>5, <2>1 DEF CleanBefore, Before
    <2> QED
        BY <1>1, <1>3, <1>4, <2>2
<1>12. LoopInOrder'
    BY <1>1, <1>2, <1>4, <1>10, <1>11 DEF CommandsInv, LoopInOrder, Looping, Fresh
<1> QED
    BY <1>6, <1>8, <1>9, <1>12 DEF CommandsInv

\* The loop goes on only when the command is settled.
LEMMA WeighKeepsCommands ==
    ASSUME CallTypeOK, CommandsInv, Weigh PROVE CommandsInv'
<1>1. UNCHANGED <<reserved, result, settledFact, integrity, candidate, accepted, ranOn, proc, ws>>
    BY DEF Weigh, workVars, worldVars
<1>2. Place = "weigh"
    BY DEF Weigh, At, Place, Closing
<1>3. /\ ctl.i \in Commands /\ verdict = None /\ candidate \in Proper /\ Unresolved \subseteq {ctl.i}
      /\ ws = [head |-> candidate, content |-> ws.content] /\ result[ctl.i] # None
      /\ \A j \in Before(ctl.i) : result[j] # None
      /\ CleanBefore(ctl.i + 1) => ws.content = candidate
    BY <1>2 DEF CommandsInv, LoopInOrder, Looping
<1>4. CommandsInOrder' /\ StartedOnCandidate'
    BY <1>1 DEF CommandsInv, CommandsInOrder, StartedOnCandidate, CleanBefore
<1>5. \/ Place' = "after" /\ UNCHANGED verdict
      \/ Place' = "decide" /\ verdict' = "fail"
      \/ Place' = "commands" /\ UNCHANGED verdict /\ ctl'.i = ctl.i + 1 /\ ctl.i \notin Unresolved
    BY DEF Weigh, Uncertain, Go, CallTypeOK, Place, Closing
<1>6. VerdictBacked'
    BY <1>1, <1>3, <1>5, TaskAssumption DEF CommandsInv, VerdictBacked
<1>7. CASE Place' \in {"after", "decide"}
    <2>1. LoopInOrder'
        BY <1>7 DEF LoopInOrder, Looping, Fresh
    <2> QED
        BY <1>4, <1>6, <2>1 DEF CommandsInv
<1>8. CASE Place' = "commands" /\ UNCHANGED verdict /\ ctl'.i = ctl.i + 1 /\ ctl.i \notin Unresolved
    <2>1. Unresolved' = {}
        BY <1>1, <1>3, <1>8 DEF Unresolved
    <2>2. ctl.i + 1 \in 1..(LastCommand + 1) /\ \A j \in Before(ctl.i + 1) : j = ctl.i \/ j \in Before(ctl.i)
        BY <1>3, TaskAssumption DEF Before, Commands
    <2>3. \A j \in Before(ctl.i + 1) : result[j] # None
        BY <1>3, <2>2
    <2>4. LoopInOrder'
        BY <1>1, <1>3, <1>8, <2>1, <2>2, <2>3 DEF LoopInOrder, Looping, Fresh, CleanBefore
    <2> QED
        BY <1>4, <1>6, <2>4 DEF CommandsInv
<1> QED
    BY <1>5, <1>7, <1>8

\* The workspace is edited by the turn or by a command, and neither lives while the loop
\* relies on the workspace.
LEMMA EditKeepsCommands ==
    ASSUME CallTypeOK, TurnOnce, CommandsInv, Edit PROVE CommandsInv'
<1>1. UNCHANGED <<commandVars, candidate, accepted, ranOn, proc, ctl>>
    BY DEF Edit, workVars
<1>2. CommandsInOrder' /\ StartedOnCandidate' /\ VerdictBacked'
    BY <1>1 DEF CommandsInv, CommandsInOrder, StartedOnCandidate, VerdictBacked, CleanBefore, commandVars
<1>3. Place' = Place /\ Unresolved' = Unresolved
    BY <1>1 DEF Place, Unresolved, commandVars
<1>4. PICK c \in Contents : ws' = [ws EXCEPT !.content = c]
    BY DEF Edit
<1>5. Place \in Looping \cup {"verify"} => ws' = [head |-> candidate', content |-> ws'.content]
    BY <1>1, <1>4 DEF CommandsInv, LoopInOrder
<1>6. ASSUME Place \in Looping PROVE \E i \in Commands : proc[i] = "alive" /\ i \in Unresolved /\ i = ctl.i
    <2>1. Place \in AfterTheTurn
        BY <1>6 DEF Looping, AfterTheTurn
    <2>2. \E i \in Commands : proc[i] = "alive"
        BY <2>1 DEF Edit, TurnOnce
    <2>3. Unresolved \subseteq {ctl.i}
        BY <1>6 DEF CommandsInv, LoopInOrder
    <2> QED
        BY <2>2, <2>3, AliveUnresolved DEF CommandsInv
<1>7. Place \notin {"commands", "bind", "spawn"}
    BY <1>6 DEF CommandsInv, LoopInOrder, Looping, CommandsInOrder
<1>8. ASSUME Place = "weigh" PROVE ~CleanBefore(ctl.i + 1)
    <2>1. ctl.i \in Commands /\ proc[ctl.i] = "alive"
        BY <1>6, <1>8 DEF Looping
    <2>2. integrity[ctl.i] = None
        BY <2>1 DEF CommandsInv, CommandsInOrder
    <2>3. ctl.i \in Before(ctl.i + 1)
        BY <2>1, TaskAssumption DEF Before, Commands
    <2> QED
        BY <2>2, <2>3, TaskAssumption DEF CleanBefore
<1>9. LoopInOrder'
    BY <1>1, <1>3, <1>5, <1>7, <1>8 DEF CommandsInv, LoopInOrder, CleanBefore, commandVars
<1> QED
    BY <1>2, <1>9 DEF CommandsInv

\* A command that the controller does not wait for may end at any moment.
LEMMA DeathKeepsCommands ==
    ASSUME CommandsInv, NEW i \in Commands, CommandDies(i) PROVE CommandsInv'
<1>1. UNCHANGED <<commandVars, candidate, accepted, ranOn, ctl, ws>>
    BY DEF CommandDies, workVars
<1>2. proc[i] = "alive" /\ proc' = [proc EXCEPT ![i] = "dead"]
    BY DEF CommandDies
<1>3. ranOn[i] # << >>
    BY <1>2 DEF CommandsInv, CommandsInOrder
<1>4. CommandsInOrder'
    BY <1>1, <1>2, <1>3, DeathKeepsOrder DEF CommandsInv, commandVars
<1>5. StartedOnCandidate' /\ VerdictBacked'
    BY <1>1 DEF CommandsInv, StartedOnCandidate, VerdictBacked, CleanBefore, commandVars
<1>6. LoopInOrder'
    BY <1>1 DEF CommandsInv, LoopInOrder, Place, Unresolved, CleanBefore, commandVars
<1> QED
    BY <1>4, <1>5, <1>6 DEF CommandsInv

\* Every step keeps what is known of the commands.
LEMMA CommandsKept ==
    ASSUME CallTypeOK, TurnOnce, CommandsInv, [Next]_vars PROVE CommandsInv'
<1>1. CASE ~CommandWork
    BY <1>1, StepsAside, AsideKeepsCommands
<1>2. CASE CommandWork
    BY <1>2, RecoverKeepsCommands, CollectKeepsCommands, InstallKeepsCommands, VerifyKeepsCommands,
       VerdictKeepsCommands, ReserveKeepsCommands, BindKeepsCommands, SpawnKeepsCommands, EndKeepsCommands,
       AbortKeepsCommands, ResultKeepsCommands, FactKeepsCommands, CaptureKeepsCommands, WeighKeepsCommands,
       EditKeepsCommands, DeathKeepsCommands DEF CommandWork
<1> QED
    BY <1>1, <1>2

-----------------------------------------------------------------------------
(* Where the steps lead. *)

\* The places that nothing is known of but where the call is.
FreePlaces == {"off", "admit", "recover", "workspace", "nodispatch", "after", "advance", "raised", "end", "failed",
               "decide", "target", "unreconciled", "uncertain", "retired", "unsent", "uncancelled", "weighReply"}

FreeWork ==
    \/ Activate \/ Recover \/ PrepareWorkspace \/ StopSeen \/ StartRefused \/ AuthorityRefused \/ NothingToDo
    \/ StoreReceipt \/ Failed \/ NoCandidate \/ CheckRefused \/ CommandAborted \/ Judge \/ Decide
    \/ After \/ CancelBeforeDispatch \/ MarkUncertain \/ SettleUnreconciled \/ SettleWithoutDispatch
    \/ ObserveApplied \/ ReconcilePR

\* Steps that lead to such a place.
LEMMA FreeSteps ==
    ASSUME CallTypeOK, FreeWork
    PROVE  Place' \in FreePlaces /\ ctl'.pc \notin {"record", "observe"}
<1> USE DEF CallTypeOK, Place, Closing, FreePlaces
<1>1. CASE Activate \/ StopSeen \/ StartRefused \/ AuthorityRefused \/ NothingToDo
    BY <1>1 DEF Activate, StopSeen, StartRefused, AuthorityRefused, NothingToDo, Go
<1>2. CASE Recover \/ PrepareWorkspace
    BY <1>2, ZenonT(30) DEF Recover, PrepareWorkspace, Go
<1>3. CASE StoreReceipt \/ Failed \/ NoCandidate \/ CheckRefused \/ CommandAborted
    BY <1>3 DEF StoreReceipt, Failed, NoCandidate, CheckRefused, CommandAborted, Go
<1>4. CASE Judge \/ Decide \/ After \/ CancelBeforeDispatch \/ MarkUncertain
    BY <1>4 DEF Judge, Decide, After, CancelBeforeDispatch, MarkUncertain, Go
<1>5. CASE SettleUnreconciled \/ SettleWithoutDispatch
    BY <1>5 DEF SettleUnreconciled, SettleWithoutDispatch, Go
<1>6. CASE ObserveApplied \/ ReconcilePR
    BY <1>6 DEF ObserveApplied, ReconcilePR, Leave, Idle
<1> QED
    BY <1>1, <1>2, <1>3, <1>4, <1>5, <1>6 DEF FreeWork

CandidateWork ==
    \/ Retrieve \/ StoreOutcome \/ Collect \/ Install \/ Verify
    \/ Reserve \/ Bind \/ Spawn \/ EndCommand \/ StoreResult \/ StoreFact \/ Capture \/ Weigh

\* The work on the candidate begins and ends after the turn.
LEMMA CandidateSteps ==
    ASSUME CallTypeOK, CandidateWork
    PROVE  /\ Place \in AfterTheTurn /\ Place' \in AfterTheTurn \cup FreePlaces
           /\ ctl'.pc \notin {"record", "observe"}
           /\ UNCHANGED <<turns, turn, runtime, receipt, attempt, pr, prs, accepted>>
           /\ UNCHANGED <<settlement, cancelReply, confirmed, group, conn, live>>
<1>1. Place \in AfterTheTurn
    BY DEF CandidateWork, Retrieve, StoreOutcome, Collect, Install, Verify, Reserve, Bind, Spawn, EndCommand,
        StoreResult, StoreFact, Capture, Weigh, At, Place, Closing, AfterTheTurn
<1>2. /\ UNCHANGED <<turns, turn, runtime, receipt, attempt, pr, prs, accepted>>
      /\ UNCHANGED <<settlement, cancelReply, confirmed, group, conn, live>>
    BY DEF CandidateWork, Retrieve, StoreOutcome, Collect, Install, Verify, Reserve, Bind, Spawn, EndCommand,
        StoreResult, StoreFact, Capture, Weigh, Poll, RecordCancellation, workVars, worldVars, cancelVars, prVars, processVars
<1>3. Place' \in AfterTheTurn \cup FreePlaces /\ ctl'.pc \notin {"record", "observe"}
    <2> USE DEF CallTypeOK, Place, Closing, FreePlaces, AfterTheTurn, Uncertain, Go
    <2>1. CASE Retrieve
        BY <2>1 DEF Retrieve
    <2>2. CASE StoreOutcome \/ Collect \/ Install
        BY <2>2 DEF StoreOutcome, Collect, Install
    <2>3. CASE Verify \/ Reserve \/ Bind \/ Spawn
        BY <2>3, ZenonT(30) DEF Verify, Reserve, Bind, Spawn
    <2>4. CASE EndCommand \/ StoreResult \/ StoreFact \/ Capture \/ Weigh
        BY <2>4, ZenonT(30) DEF EndCommand, StoreResult, StoreFact, Capture, Weigh
    <2> QED
        BY <2>1, <2>2, <2>3, <2>4 DEF CandidateWork
<1> QED
    BY <1>1, <1>2, <1>3

-----------------------------------------------------------------------------
(* The turn. *)

TurnPlaces == {"start", "turn", "receipt"} \cup AfterTheTurn

\* A step to a place that says nothing of the turn, or no more than the place before.
TurnPlaced ==
    \/ Place' \notin TurnPlaces
    \/ Place' = Place /\ ctl'.p = ctl.p
    \/ Place \in AfterTheTurn /\ Place' \in AfterTheTurn

\* Such a step keeps what is known of the turn, as long as the Operation is what it was or
\* has been claimed.
LEMMA PlacedKeepsTurn ==
    ASSUME TurnOnce, TurnPlaced, UNCHANGED <<turns, turn, receipt>>,
           attempt' = attempt \/ attempt' # "none",
           runtime' = runtime \/ (runtime \notin {"none", "intent"} /\ runtime' \notin {"none", "intent"}),
           attempt' = attempt \/ attempt # "none"
    PROVE  TurnOnce'
BY DEF TurnOnce, TurnPlaced, TurnPlaces, AfterTheTurn

\* So does one that ends the turn.
LEMMA EndKeepsTurn ==
    ASSUME TurnOnce, TurnPlaced, UNCHANGED <<turns, receipt, attempt, runtime>>, turns = 1,
           NEW t, t # "running", turn' = [turn EXCEPT !.state = t]
    PROVE  TurnOnce'
BY DEF TurnOnce, TurnPlaced, TurnPlaces, AfterTheTurn

ClosingWork == ConnectionFails \/ BeforeClose \/ StopGroup \/ StoreSettlement \/ ObserveSettlement

\* A close keeps the place of its caller, unless it raises.
LEMMA ClosingSteps ==
    ASSUME CallTypeOK, ClosingWork
    PROVE  ctl'.p = ctl.p /\ (Place' = Place \/ Place' \in {"failed", "after", "unreconciled", "retire", "cancelFailed", "raised"})
<1>1. CASE ConnectionFails
    <2>1. ctl.pc \in DOMAIN AfterFailure
        BY <1>1 DEF ConnectionFails
    <2>2. DOMAIN AfterFailure = {"start", "turn", "receipt", "advance", "candidate", "restore", "interrupt"}
        BY DEF AfterFailure
    <2>3. ctl.pc \in {"start", "turn", "receipt", "advance", "candidate", "restore", "interrupt"}
        BY <2>1, <2>2
    <2>4. AfterFailure[ctl.pc] = ctl.pc \/ AfterFailure[ctl.pc] \in {"failed", "after", "unreconciled", "retire"}
        BY <2>3 DEF AfterFailure
    <2>5. PICK ret \in {AfterFailure[ctl.pc], "cancelFailed"} : ctl' = [ctl EXCEPT !.pc = "close", !.ret = ret]
        BY <1>1 DEF ConnectionFails
    <2> QED
        BY <2>3, <2>4, <2>5 DEF CallTypeOK, Place, Closing
<1>2. CASE BeforeClose
    BY <1>2 DEF BeforeClose, At, CallTypeOK, Place, Closing
<1>3. CASE StopGroup
    <2>1. PICK settled \in {"yes", "no", "unknown", conn[ctl.p].settled}, raised \in BOOLEAN : AfterClose(settled, raised)
        BY <1>3, Zenon DEF StopGroup
    <2>2. Place = ctl.ret /\ ctl.ret \in Returns
        BY <1>3 DEF StopGroup, At, Place, Closing, CallTypeOK
    <2>3. Resumed(raised) = ctl.ret \/ Resumed(raised) \in {"cancelFailed", "raised"}
        BY DEF Resumed
    <2>4. /\ ctl'.p = ctl.p
          /\ \/ ctl'.pc = "record" /\ ctl'.ret = Resumed(raised)
             \/ ctl'.pc = Resumed(raised)
        BY <2>1 DEF AfterClose, CallTypeOK
    <2> QED
        BY <2>2, <2>3, <2>4 DEF Place, Closing, Returns
<1>4. CASE StoreSettlement \/ ObserveSettlement
    BY <1>4 DEF StoreSettlement, ObserveSettlement, Go, At, CallTypeOK, Place, Closing, Returns
<1> QED
    BY <1>1, <1>2, <1>3, <1>4 DEF ClosingWork

SettlingWork ==
    \/ ReviewTarget \/ Retired \/ Restore \/ Interrupt \/ Retire \/ StoreReply \/ CancelFailed
    \/ WeighSettlement \/ Confirm \/ Unsent

SettlePlaces == {"restore", "interrupt", "retire", "replied", "cancelFailed", "confirm"}

\* Where the settlement of a cancellation leads.
LEMMA SettlingSteps ==
    ASSUME CallTypeOK, SettlingWork
    PROVE  ctl'.p = ctl.p /\ Place' \in FreePlaces \cup SettlePlaces
<1> USE DEF CallTypeOK, Place, Closing, FreePlaces, SettlePlaces
<1>1. CASE ReviewTarget
    BY <1>1 DEF ReviewTarget, Go
<1>2. CASE Retired \/ Restore \/ Interrupt \/ Retire
    BY <1>2 DEF Retired, Restore, Interrupt, Retire, Go
<1>3. CASE StoreReply \/ CancelFailed \/ WeighSettlement \/ Unsent
    BY <1>3 DEF StoreReply, CancelFailed, WeighSettlement, Unsent, Go
<1>4. CASE Confirm
    BY <1>4 DEF Confirm, At, Go
<1> QED
    BY <1>1, <1>2, <1>3, <1>4 DEF SettlingWork

RequestWork == End \/ IntendPR \/ ClaimPR \/ Apply
RequestPlaces == {"deliver", "apply", "applied"}

\* Where the delivery of the pull request leads.
LEMMA RequestSteps ==
    ASSUME CallTypeOK, RequestWork
    PROVE  /\ Place' \in {"off"} \cup RequestPlaces /\ ctl'.pc \notin Closing
           /\ UNCHANGED <<turns, turn, runtime, receipt, attempt, accepted>>
           /\ UNCHANGED <<settlement, cancelReply, confirmed, group, conn, live>>
<1>1. /\ UNCHANGED <<turns, turn, runtime, receipt, attempt, accepted>>
      /\ UNCHANGED <<settlement, cancelReply, confirmed, group, conn, live>>
    BY DEF RequestWork, End, IntendPR, ClaimPR, Apply, Poll, RecordCancellation, workVars, worldVars, cancelVars
<1>2. ctl'.pc \in {"off"} \cup RequestPlaces
    <2>1. CASE End \/ IntendPR \/ ClaimPR
        BY <2>1 DEF End, IntendPR, ClaimPR, Leave, Go, At, Idle, CallTypeOK, RequestPlaces
    <2>2. CASE Apply
        <3>1. ctl' = Idle \/ \E r \in {"accepted", "unknown", "rejected"} : ctl' = [ctl EXCEPT !.pc = "applied", !.run = r]
            BY <2>2, Zenon DEF Apply, Leave
        <3>2. CASE ctl' = Idle
            BY <3>2 DEF Idle
        <3>3. CASE \E r \in {"accepted", "unknown", "rejected"} : ctl' = [ctl EXCEPT !.pc = "applied", !.run = r]
            BY <3>3 DEF CallTypeOK, RequestPlaces
        <3> QED
            BY <3>1, <3>2, <3>3
    <2> QED
        BY <2>1, <2>2 DEF RequestWork
<1> QED
    BY <1>1, <1>2 DEF Place, Closing, RequestPlaces

\* What the controller does without moving on, what happens around it, and stuttering.
StillWork ==
    \/ Admit \/ PrepareAttempt \/ StartAttempt \/ ObserveReceipt \/ ObserveTerminal \/ FinishAttempt \/ RecoverTarget
    \/ (\E p \in Processes : StartProcess(p) \/ Signal(p) \/ GroupDies(p))
    \/ Expire \/ Edit \/ TurnEnds \/ (\E i \in Commands : CommandDies(i)) \/ UNCHANGED vars

\* All steps, by where they lead.
LEMMA StepKinds ==
    ASSUME [Next]_vars
    PROVE  \/ StillWork \/ FreeWork \/ CandidateWork \/ ClosingWork \/ SettlingWork \/ RequestWork
           \/ ClaimRuntime \/ StartThread \/ (\E reply \in BOOLEAN : StartTurn(reply)) \/ Watch
           \/ \E p \in Processes : Enter(p) \/ Crash(p)
BY Zenon DEF Next, Step, StillWork, FreeWork, CandidateWork, ClosingWork, SettlingWork, RequestWork

\* The call begins, or is lost with its process.
LEMMA OutSteps ==
    ASSUME CallTypeOK, NEW p \in Processes, Enter(p) \/ Crash(p)
    PROVE  /\ Place' \in {"off", "admit"} /\ ctl'.pc \notin Closing
           /\ UNCHANGED <<turns, turn, runtime, receipt, attempt, accepted, pr, prs>>
           /\ UNCHANGED <<settlement, cancelReply, confirmed, group>>
<1>1. /\ UNCHANGED <<turns, turn, runtime, receipt, attempt, accepted, pr, prs>>
      /\ UNCHANGED <<settlement, cancelReply, confirmed, group>>
    BY DEF Enter, Crash, workVars, worldVars, cancelVars, prVars
<1>2. CASE Enter(p)
    BY <1>1, <1>2 DEF Enter, Idle, Place, Closing
<1>3. CASE Crash(p)
    <2>1. ctl' = Idle \/ (ctl' = ctl /\ ctl.p = None)
        BY <1>3 DEF Crash
    <2>2. ctl.p = None => ctl.pc = "off"
        BY TaskAssumption DEF CallTypeOK
    <2>3. ctl'.pc = "off"
        BY <2>1, <2>2 DEF Idle
    <2> QED
        BY <1>1, <2>3 DEF Place, Closing
<1> QED
    BY <1>2, <1>3

\* Every step keeps what is known of the turn.
LEMMA TurnKept ==
    ASSUME CallTypeOK, TurnOnce, RecordsTrue, [Next]_vars PROVE TurnOnce'
<1> USE DEF workVars, worldVars
<1>1. CASE StillWork
    <2>1. UNCHANGED ctl /\ TurnPlaced
        BY <1>1 DEF StillWork, Admit, PrepareAttempt, StartAttempt, ObserveReceipt, ObserveTerminal, FinishAttempt,
            RecoverTarget, StartProcess, Signal, GroupDies, Expire, Edit, TurnEnds, CommandDies, vars, TurnPlaced, Place
    <2>2. CASE PrepareAttempt
        BY <2>1, <2>2 DEF PrepareAttempt, TurnOnce, Place
    <2>3. CASE Admit \/ StartAttempt \/ ObserveReceipt \/ ObserveTerminal \/ FinishAttempt \/ RecoverTarget
        <3>1. UNCHANGED <<turns, turn, receipt>>
            BY <2>3 DEF Admit, StartAttempt, ObserveReceipt, ObserveTerminal, FinishAttempt, RecoverTarget
        <3>2. /\ attempt' = attempt \/ (attempt' # "none" /\ attempt # "none")
              /\ runtime' = runtime \/ (runtime \notin {"none", "intent"} /\ runtime' \notin {"none", "intent"})
            BY <2>3 DEF Admit, StartAttempt, ObserveReceipt, ObserveTerminal, FinishAttempt, RecoverTarget
        <3> QED
            BY <2>1, <3>1, <3>2, PlacedKeepsTurn
    <2>4. CASE (\E p \in Processes : StartProcess(p) \/ Signal(p)) \/ Expire \/ Edit \/ (\E i \in Commands : CommandDies(i)) \/ UNCHANGED vars
        <3>1. UNCHANGED <<turns, turn, receipt, attempt, runtime>>
            BY <2>4 DEF StartProcess, Signal, Expire, Edit, CommandDies, vars
        <3> QED
            BY <2>1, <3>1, PlacedKeepsTurn
    <2>5. CASE TurnEnds
        <3>1. turns = 1 /\ UNCHANGED <<turns, receipt, attempt, runtime>>
            BY <2>5 DEF TurnEnds, TurnOnce
        <3>2. PICK t \in {"completed", "failed"} : turn' = [turn EXCEPT !.state = t]
            BY <2>5 DEF TurnEnds
        <3> QED
            BY <2>1, <3>1, <3>2, EndKeepsTurn
    <2>6. CASE \E p \in Processes : GroupDies(p)
        <3>1. turns = 1 /\ UNCHANGED <<turns, receipt, attempt, runtime>>
            BY <2>6 DEF GroupDies, TurnOnce
        <3>2. turn' = turn \/ turn' = [turn EXCEPT !.state = "interrupted"]
            BY <2>6 DEF GroupDies
        <3> QED
            BY <2>1, <3>1, <3>2, EndKeepsTurn, PlacedKeepsTurn
    <2> QED
        BY <1>1, <2>2, <2>3, <2>4, <2>5, <2>6 DEF StillWork
<1>2. CASE FreeWork
    <2>1. TurnPlaced
        BY <1>2, FreeSteps DEF TurnPlaced, TurnPlaces, AfterTheTurn, FreePlaces
    <2>2. UNCHANGED <<turns, turn>>
        BY <1>2 DEF FreeWork, Activate, Recover, PrepareWorkspace, StopSeen, StartRefused, AuthorityRefused, NothingToDo,
            StoreReceipt, Failed, NoCandidate, CheckRefused, CommandAborted, Judge, Decide, After, CancelBeforeDispatch,
            MarkUncertain, SettleUnreconciled, SettleWithoutDispatch, ObserveApplied, ReconcilePR
    <2>3. CASE StoreReceipt
        <3>1. receipt' = ctl.p /\ Place = "receipt" /\ UNCHANGED <<attempt, runtime>>
            BY <2>3 DEF StoreReceipt, At, Place, Closing
        <3> QED
            BY <2>1, <2>2, <3>1 DEF TurnOnce, TurnPlaced, TurnPlaces, AfterTheTurn
    <2>4. CASE NothingToDo
        <3>1. UNCHANGED <<receipt, attempt>> /\ (runtime' = runtime \/ (runtime \in {"dispatched", "unknown"} /\ runtime' = "unknown"))
            BY <2>4 DEF NothingToDo
        <3> QED
            BY <2>1, <2>2, <3>1, PlacedKeepsTurn
    <2>5. CASE CancelBeforeDispatch
        <3>1. UNCHANGED <<receipt, runtime>> /\ attempt' = "cancelled" /\ attempt # "none"
            BY <2>5 DEF CancelBeforeDispatch, TurnOnce
        <3> QED
            BY <2>1, <2>2, <3>1, PlacedKeepsTurn
    <2>6. CASE ~(StoreReceipt \/ NothingToDo \/ CancelBeforeDispatch)
        <3>1. UNCHANGED <<receipt, attempt, runtime>>
            BY <1>2, <2>6 DEF FreeWork, Activate, Recover, PrepareWorkspace, StopSeen, StartRefused, AuthorityRefused,
                Failed, NoCandidate, CheckRefused, CommandAborted, Judge, Decide, After,
                MarkUncertain, SettleUnreconciled, SettleWithoutDispatch, ObserveApplied, ReconcilePR
        <3> QED
            BY <2>1, <2>2, <3>1, PlacedKeepsTurn
    <2> QED
        BY <2>3, <2>4, <2>5, <2>6
<1>3. CASE CandidateWork
    <2>1. TurnPlaced
        BY <1>3, CandidateSteps DEF TurnPlaced, TurnPlaces, AfterTheTurn, FreePlaces
    <2> QED
        BY <1>3, <2>1, CandidateSteps, PlacedKeepsTurn
<1>4. CASE ClosingWork
    <2>1. TurnPlaced
        BY <1>4, ClosingSteps DEF TurnPlaced, TurnPlaces, AfterTheTurn
    <2>2. UNCHANGED <<turns, receipt, attempt, runtime>>
        BY <1>4 DEF ClosingWork, ConnectionFails, BeforeClose, StopGroup, StoreSettlement, ObserveSettlement
    <2>3. turn' = turn \/ (turn # None /\ turn' = [turn EXCEPT !.state = "interrupted"])
        BY <1>4 DEF ClosingWork, ConnectionFails, BeforeClose, StopGroup, StoreSettlement, ObserveSettlement
    <2>4. turn # None => turns = 1
        BY DEF TurnOnce
    <2> QED
        BY <2>1, <2>2, <2>3, <2>4, EndKeepsTurn, PlacedKeepsTurn
<1>5. CASE SettlingWork
    <2>1. TurnPlaced
        BY <1>5, SettlingSteps DEF TurnPlaced, TurnPlaces, AfterTheTurn, FreePlaces, SettlePlaces
    <2>2. UNCHANGED <<turns, receipt>>
        BY <1>5 DEF SettlingWork, ReviewTarget, Retired, Restore, Interrupt, Retire, StoreReply, CancelFailed,
            WeighSettlement, Confirm, Unsent
    <2>3. CASE Interrupt
        <3>1. receipt = ctl.p /\ ctl.p # None
            BY <2>3, TaskAssumption DEF Interrupt, At, Place, Closing, RecordsTrue, CallTypeOK
        <3>2. turns = 1 /\ UNCHANGED <<attempt, runtime>>
            BY <2>3, <3>1 DEF Interrupt, TurnOnce
        <3>3. turn' = turn \/ turn' = [turn EXCEPT !.state = IF @ = "running" THEN "interrupted" ELSE @]
            BY <2>3 DEF Interrupt
        <3>4. \E t : t # "running" /\ turn' \in {turn, [turn EXCEPT !.state = t]}
            BY <3>3
        <3> QED
            BY <2>1, <2>2, <3>2, <3>4, EndKeepsTurn, PlacedKeepsTurn
    <2>4. CASE Confirm
        <3>1. UNCHANGED turn /\ (runtime' = runtime \/ runtime' = "terminal") /\ (attempt' = attempt \/ (attempt = "executing" /\ attempt' = "finished"))
            BY <2>4 DEF Confirm
        <3>2. receipt \in Processes
            BY <2>4 DEF Confirm, At, Place, Closing, RecordsTrue, Proves
        <3>3. runtime \notin {"none", "intent"}
            BY <3>2, TaskAssumption DEF TurnOnce
        <3> QED
            BY <2>1, <2>2, <3>1, <3>3, PlacedKeepsTurn
    <2>5. CASE ~(Interrupt \/ Confirm)
        <3>1. UNCHANGED <<turn, attempt, runtime>>
            BY <1>5, <2>5 DEF SettlingWork, ReviewTarget, Retired, Restore, Retire, StoreReply, CancelFailed, WeighSettlement, Unsent
        <3> QED
            BY <2>1, <2>2, <3>1, PlacedKeepsTurn
    <2> QED
        BY <2>3, <2>4, <2>5
<1>6. CASE RequestWork
    <2>1. TurnPlaced
        BY <1>6, RequestSteps DEF TurnPlaced, TurnPlaces, AfterTheTurn, RequestPlaces
    <2> QED
        BY <1>6, <2>1, RequestSteps, PlacedKeepsTurn
<1>7. CASE ClaimRuntime
    <2>1. /\ runtime = "intent" /\ runtime' = "dispatched" /\ Place' = "start"
          /\ attempt # "none" /\ UNCHANGED <<turns, turn, receipt, attempt>>
        BY <1>7 DEF ClaimRuntime, Go, CallTypeOK, Place, Closing
    <2> QED
        BY <2>1 DEF TurnOnce, AfterTheTurn
<1>8. CASE StartThread
    <2>1. Place = "start" /\ Place' = "turn" /\ UNCHANGED <<turns, turn, receipt, attempt, runtime>>
        BY <1>8 DEF StartThread, Go, At, CallTypeOK, Place, Closing
    <2> QED
        BY <2>1 DEF TurnOnce, AfterTheTurn
<1>9. CASE \E reply \in BOOLEAN : StartTurn(reply)
    <2>1. /\ Place = "turn" /\ turns' = turns + 1 /\ turn' = [by |-> ctl.p, state |-> "running"]
          /\ UNCHANGED <<receipt, attempt, runtime>>
        BY <1>9 DEF StartTurn, At, Place, Closing
    <2>2. ctl'.p = ctl.p /\ Place' \in {"receipt", "failed"}
        BY <1>9 DEF StartTurn, Go, CallTypeOK, Place, Closing
    <2>3. ctl.p \in Processes
        BY <1>9 DEF StartTurn, At, CallTypeOK
    <2> QED
        BY <2>1, <2>2, <2>3 DEF TurnOnce, AfterTheTurn
<1>10. CASE Watch
    <2>1. UNCHANGED <<turns, turn, receipt, attempt, runtime>>
        BY <1>10 DEF Watch
    <2>2. Place' = "after" \/ (Place' = "candidate" /\ turn # None /\ turn.state # "running")
        <3>1. PICK r \in Reads : IF r \in {None, "running"} THEN ctl' = [ctl EXCEPT !.pc = "after"]
                                 ELSE ctl' = [ctl EXCEPT !.pc = "candidate", !.run = r]
            BY <1>10 DEF Watch, Go
        <3>2. r = None \/ (turn # None /\ r = turn.state)
            BY DEF Reads
        <3> QED
            BY <3>1, <3>2 DEF CallTypeOK, Place, Closing
    <2> QED
        BY <2>1, <2>2 DEF TurnOnce, AfterTheTurn
<1>11. CASE \E p \in Processes : Enter(p) \/ Crash(p)
    <2>1. /\ Place' \in {"off", "admit"}
          /\ UNCHANGED <<turns, turn, runtime, receipt, attempt>>
        BY <1>11, OutSteps
    <2>2. TurnPlaced
        BY <2>1 DEF TurnPlaced, TurnPlaces, AfterTheTurn
    <2> QED
        BY <2>1, <2>2, PlacedKeepsTurn
<1> QED
    BY StepKinds, <1>1, <1>2, <1>3, <1>4, <1>5, <1>6, <1>7, <1>8, <1>9, <1>10, <1>11

-----------------------------------------------------------------------------
(* The pull request. *)

\* Every step keeps what is known of the pull request.
LEMMA RequestKept ==
    ASSUME CallTypeOK, VerdictBacked, RequestOnce, [Next]_vars PROVE RequestOnce'
<1> USE DEF workVars, worldVars, prVars
<1>1. ASSUME UNCHANGED <<pr, prs, accepted>>, UNCHANGED ctl \/ Place' \notin RequestPlaces PROVE RequestOnce'
    BY <1>1 DEF RequestOnce, RequestPlaces, Place
<1>2. CASE StillWork
    <2>1. UNCHANGED <<pr, prs, accepted, ctl>>
        BY <1>2 DEF StillWork, Admit, PrepareAttempt, StartAttempt, ObserveReceipt, ObserveTerminal, FinishAttempt,
            RecoverTarget, StartProcess, Signal, GroupDies, Expire, Edit, TurnEnds, CommandDies, vars
    <2> QED
        BY <1>1, <2>1
<1>3. CASE FreeWork
    <2>1. Place' \in FreePlaces
        BY <1>3, FreeSteps
    <2>2. CASE Decide
        <3>1. UNCHANGED <<pr, prs>> /\ (accepted' = accepted \/ (verdict = "pass" /\ accepted' = candidate))
            BY <2>2 DEF Decide, Accepts, AdmitAccepted
        <3>2. accepted # None => accepted' = accepted
            BY <3>1 DEF VerdictBacked
        <3>3. accepted = None => pr = "none" /\ prs = << >>
            BY DEF RequestOnce
        <3> QED
            BY <2>1, <3>1, <3>2, <3>3 DEF RequestOnce, FreePlaces
    <2>3. CASE ObserveApplied
        <3>1. UNCHANGED <<prs, accepted>> /\ pr' = ctl.run /\ Place = "applied"
            BY <2>3 DEF ObserveApplied, At, Place, Closing
        <3> QED
            BY <2>1, <3>1 DEF RequestOnce, FreePlaces
    <2>4. CASE ReconcilePR
        <3>1. UNCHANGED <<prs, accepted>> /\ pr \notin {"none", "intent"} /\ pr' \notin {"none", "intent"}
            BY <2>4 DEF ReconcilePR
        <3> QED
            BY <2>1, <3>1 DEF RequestOnce, FreePlaces
    <2>5. CASE ~(Decide \/ ObserveApplied \/ ReconcilePR)
        <3>1. UNCHANGED <<pr, prs, accepted>>
            BY <1>3, <2>5 DEF FreeWork, Activate, Recover, PrepareWorkspace, StopSeen, StartRefused, AuthorityRefused,
                NothingToDo, StoreReceipt, Failed, NoCandidate, CheckRefused, CommandAborted, Judge, After, CancelBeforeDispatch,
                MarkUncertain, SettleUnreconciled, SettleWithoutDispatch
        <3> QED
            BY <1>1, <2>1, <3>1 DEF FreePlaces, RequestPlaces
    <2> QED
        BY <2>2, <2>3, <2>4, <2>5
<1>4. CASE CandidateWork
    BY <1>1, <1>4, CandidateSteps DEF AfterTheTurn, FreePlaces, RequestPlaces
<1>5. CASE ClosingWork
    <2>1. UNCHANGED <<pr, prs, accepted>>
        BY <1>5 DEF ClosingWork, ConnectionFails, BeforeClose, StopGroup, StoreSettlement, ObserveSettlement
    <2>2. Place' \in Returns
        <3>1. CASE ConnectionFails
            BY <3>1, FailurePlaces DEF CallTypeOK, Place, Closing
        <3> QED
            BY <1>5, <3>1, ClosePlaces DEF ClosingWork
    <2> QED
        BY <1>1, <2>1, <2>2 DEF Returns, RequestPlaces
<1>6. CASE SettlingWork
    <2>1. UNCHANGED <<pr, prs, accepted>>
        BY <1>6 DEF SettlingWork, ReviewTarget, Retired, Restore, Interrupt, Retire, StoreReply, CancelFailed,
            WeighSettlement, Confirm, Unsent
    <2> QED
        BY <1>1, <1>6, <2>1, SettlingSteps DEF FreePlaces, SettlePlaces, RequestPlaces
<1>7. CASE End
    <2>1. UNCHANGED <<pr, prs, accepted>> /\ (Place' = "off" \/ (Place' = "deliver" /\ accepted # None))
        BY <1>7 DEF End, Leave, Go, Idle, CallTypeOK, Place, Closing
    <2> QED
        BY <2>1 DEF RequestOnce
<1>8. CASE IntendPR \/ ClaimPR
    <2>1. UNCHANGED <<prs, accepted>> /\ Place = "deliver"
        BY <1>8 DEF IntendPR, ClaimPR, At, Place, Closing
    <2>2. \/ Place' = "off" /\ UNCHANGED pr
          \/ pr = "none" /\ pr' = "intent" /\ UNCHANGED ctl
          \/ pr = "intent" /\ pr' = "dispatched" /\ Place' = "apply"
        BY <1>8 DEF IntendPR, ClaimPR, Leave, Go, Idle, CallTypeOK, Place, Closing
    <2>3. UNCHANGED ctl => Place' = Place
        BY DEF Place
    <2> QED
        BY <2>1, <2>2, <2>3 DEF RequestOnce
<1>9. CASE Apply
    <2>1. UNCHANGED <<pr, accepted>> /\ Place = "apply"
        BY <1>9 DEF Apply, At, Place, Closing
    <2>2. \/ ctl' = Idle /\ UNCHANGED prs
          \/ /\ \E r \in {"accepted", "unknown", "rejected"} : ctl' = [ctl EXCEPT !.pc = "applied", !.run = r]
             /\ prs' = Append(prs, accepted) \/ prs' = prs
        BY <1>9, Zenon DEF Apply, Leave
    <2>3. CASE ctl' = Idle /\ UNCHANGED prs
        BY <1>1, <2>1, <2>3 DEF Idle, Place, Closing, RequestPlaces
    <2>4. CASE /\ \E r \in {"accepted", "unknown", "rejected"} : ctl' = [ctl EXCEPT !.pc = "applied", !.run = r]
               /\ prs' = Append(prs, accepted) \/ prs' = prs
        <3>1. Place' = "applied" /\ ctl'.run \in {"accepted", "unknown", "rejected"}
            BY <2>4 DEF CallTypeOK, Place, Closing
        <3>2. prs = << >> /\ pr \notin {"none", "intent"} /\ accepted # None
            BY <2>1 DEF RequestOnce
        <3>3. prs' = << >> \/ prs' = <<accepted>>
            BY <2>4, <3>2
        <3> QED
            BY <2>1, <3>1, <3>2, <3>3 DEF RequestOnce
    <2> QED
        BY <2>2, <2>3, <2>4
<1>10. CASE ClaimRuntime \/ StartThread \/ (\E reply \in BOOLEAN : StartTurn(reply)) \/ Watch
    <2>1. UNCHANGED <<pr, prs, accepted>>
        BY <1>10 DEF ClaimRuntime, StartThread, StartTurn, Watch
    <2>2. Place' \in {"start", "turn", "receipt", "failed", "after", "candidate"}
        BY <1>10 DEF ClaimRuntime, StartThread, StartTurn, Watch, Go, CallTypeOK, Place, Closing
    <2> QED
        BY <1>1, <2>1, <2>2 DEF RequestPlaces
<1>11. CASE \E p \in Processes : Enter(p) \/ Crash(p)
    BY <1>1, <1>11, OutSteps DEF RequestPlaces
<1> QED
    BY StepKinds, <1>2, <1>3, <1>4, <1>5, <1>6, <1>7, <1>8, <1>9, <1>10, <1>11 DEF RequestWork

-----------------------------------------------------------------------------
(* The process groups. *)

\* The end of a close says of the group what was seen of it.
LEMMA CloseIsTrue ==
    ASSUME CallTypeOK, ConnectionsTrue, StopGroup
    PROVE  \E settled \in {"yes", "no", "unknown"}, raised \in BOOLEAN :
              /\ AfterClose(settled, raised)
              /\ settled = "yes" /\ ~KillMayHang => group'[ctl.p] = "dead"
              /\ ~KillMayHang => settled # "unknown"
              /\ group' = group \/ group' = [group EXCEPT ![ctl.p] = "dead"]
<1>1. ctl.p \in live /\ ctl.p \in Processes
    BY DEF StopGroup, At, CallTypeOK
<1>2. /\ conn[ctl.p].settled \in {"yes", "no", "unknown"}
      /\ ~KillMayHang => /\ conn[ctl.p].settled = "yes" => group[ctl.p] = "dead"
                         /\ ~conn[ctl.p].open => conn[ctl.p].settled # "unknown"
    BY <1>1 DEF ConnectionsTrue
<1>3. CASE group' = [group EXCEPT ![ctl.p] = "dead"] /\ AfterClose("yes", FALSE)
    <2>1. group'[ctl.p] = "dead"
        BY <1>1, <1>3 DEF ConnectionsTrue
    <2> QED
        BY <1>3, <2>1
<1>4. CASE UNCHANGED group /\ AfterClose("no", FALSE)
    BY <1>4
<1>5. CASE KillMayHang /\ UNCHANGED group /\ AfterClose("unknown", TRUE)
    BY <1>5
<1>6. CASE /\ ~conn[ctl.p].open /\ UNCHANGED group
           /\ AfterClose(IF conn[ctl.p].settled = "unknown" THEN "yes" ELSE conn[ctl.p].settled, FALSE)
    <2>1. CASE conn[ctl.p].settled = "unknown"
        <3>1. KillMayHang /\ AfterClose("yes", FALSE)
            BY <1>2, <1>6, <2>1
        <3> QED
            BY <1>6, <3>1
    <2>2. CASE conn[ctl.p].settled # "unknown"
        <3>1. AfterClose(conn[ctl.p].settled, FALSE)
            BY <1>6, <2>2
        <3> QED
            BY <1>2, <1>6, <2>2, <3>1
    <2> QED
        BY <2>1, <2>2
<1> QED
    BY <1>3, <1>4, <1>5, <1>6, Zenon DEF StopGroup

\* Every step keeps the connections truthful, and the dead groups dead.
LEMMA ConnectionsKept ==
    ASSUME CallTypeOK, ConnectionsTrue, [Next]_vars
    PROVE  ConnectionsTrue' /\ \A p \in Processes : group[p] = "dead" => group'[p] = "dead"
<1> USE DEF worldVars, processVars
<1>1. ASSUME UNCHANGED <<group, conn>>, live' \subseteq live
      PROVE  ConnectionsTrue' /\ \A p \in Processes : group[p] = "dead" => group'[p] = "dead"
    BY <1>1 DEF ConnectionsTrue
<1>2. CASE \E p \in Processes : StartProcess(p)
    <2>1. PICK p \in Processes : StartProcess(p)
        BY <1>2
    <2>2. /\ group[p] = "none" /\ group' = [group EXCEPT ![p] = "alive"] /\ live' = live \cup {p}
          /\ conn' = [conn EXCEPT ![p] = [open |-> TRUE, settled |-> "unknown"]]
        BY <2>1 DEF StartProcess
    <2> QED
        BY <2>2 DEF ConnectionsTrue
<1>3. CASE \E p \in Processes : Crash(p)
    <2>1. PICK p \in Processes : Crash(p)
        BY <1>3
    <2>2. UNCHANGED group /\ live' = live \ {p} /\ conn' = [conn EXCEPT ![p] = [open |-> FALSE, settled |-> "unknown"]]
        BY <2>1 DEF Crash, NoConnection
    <2> QED
        BY <2>2 DEF ConnectionsTrue
<1>4. CASE \E p \in Processes : GroupDies(p)
    <2>1. PICK p \in Processes : GroupDies(p)
        BY <1>4
    <2>2. group' = [group EXCEPT ![p] = "dead"] /\ UNCHANGED <<live, conn>>
        BY <2>1 DEF GroupDies
    <2> QED
        BY <2>2 DEF ConnectionsTrue
<1>5. CASE StopGroup
    <2>1. PICK settled \in {"yes", "no", "unknown"}, raised \in BOOLEAN :
              /\ AfterClose(settled, raised)
              /\ settled = "yes" /\ ~KillMayHang => group'[ctl.p] = "dead"
              /\ ~KillMayHang => settled # "unknown"
              /\ group' = group \/ group' = [group EXCEPT ![ctl.p] = "dead"]
        BY <1>5, CloseIsTrue
    <2>2. conn' = [conn EXCEPT ![ctl.p] = [open |-> FALSE, settled |-> settled]] /\ UNCHANGED live
        BY <1>5, <2>1 DEF StopGroup, AfterClose
    <2>3. ctl.p \in Processes
        BY <1>5 DEF StopGroup, At, CallTypeOK
    <2> QED
        BY <2>1, <2>2, <2>3 DEF ConnectionsTrue
<1>6. CASE StillWork /\ ~\E p \in Processes : StartProcess(p) \/ GroupDies(p)
    BY <1>1, <1>6 DEF StillWork, Admit, PrepareAttempt, StartAttempt, ObserveReceipt, ObserveTerminal, FinishAttempt,
        RecoverTarget, Signal, Expire, Edit, TurnEnds, CommandDies, vars
<1>7. CASE FreeWork
    BY <1>1, <1>7 DEF FreeWork, Activate, Recover, PrepareWorkspace, StopSeen, StartRefused, AuthorityRefused, NothingToDo,
        StoreReceipt, Failed, NoCandidate, CheckRefused, CommandAborted, Judge, Decide, After, CancelBeforeDispatch,
        MarkUncertain, SettleUnreconciled, SettleWithoutDispatch, ObserveApplied, ReconcilePR
<1>8. CASE CandidateWork \/ RequestWork
    BY <1>1, <1>8, CandidateSteps, RequestSteps
<1>9. CASE ClosingWork /\ ~StopGroup
    BY <1>1, <1>9 DEF ClosingWork, ConnectionFails, BeforeClose, StoreSettlement, ObserveSettlement
<1>10. CASE SettlingWork
    BY <1>1, <1>10 DEF SettlingWork, ReviewTarget, Retired, Restore, Interrupt, Retire, StoreReply, CancelFailed,
        WeighSettlement, Confirm, Unsent
<1>11. CASE ClaimRuntime \/ StartThread \/ (\E reply \in BOOLEAN : StartTurn(reply)) \/ Watch \/ \E p \in Processes : Enter(p)
    BY <1>1, <1>11 DEF ClaimRuntime, StartThread, StartTurn, Watch, Enter
<1> QED
    BY StepKinds, <1>2, <1>3, <1>4, <1>5, <1>6, <1>7, <1>8, <1>9, <1>10, <1>11 DEF StillWork, ClosingWork

\* What a step may leave alone: the records and the group they are about.
RecordsAside ==
    /\ UNCHANGED <<settlement, cancelReply, confirmed, receipt>>
    /\ \/ UNCHANGED ctl
       \/ /\ ctl'.pc \notin {"record", "observe"}
          /\ Place' \notin SettlePlaces \/ (Place' = Place /\ ctl'.p = ctl.p)

DeadStayDead == \A p \in Processes : group[p] = "dead" => group'[p] = "dead"

\* A group that is gone stays gone.
LEMMA GoneStays ==
    ASSUME DeadStayDead, NEW p, Gone(p) PROVE Gone(p)'
BY DEF DeadStayDead, Gone

\* A step that leaves the records alone keeps them true.
LEMMA AsideKeepsRecords ==
    ASSUME RecordsTrue, DeadStayDead, RecordsAside PROVE RecordsTrue'
<1>1. settlement' # None => settlement'.owned \in Processes /\ (settlement'.settled = "yes" => Gone(settlement.owned)')
    BY GoneStays DEF RecordsTrue, RecordsAside
<1>2. cancelReply' = "yes" => Gone(receipt)'
    BY GoneStays DEF RecordsTrue, RecordsAside
<1>3. ctl'.pc \in {"record", "observe"} =>
          ctl'.record.owned \in Processes /\ (ctl'.record.settled = "yes" => Gone(ctl.record.owned)')
    BY GoneStays DEF RecordsTrue, RecordsAside
<1>4. Place' \in {"restore", "interrupt", "retire", "replied", "cancelFailed"} => ctl'.p = receipt'
    BY DEF RecordsTrue, RecordsAside, SettlePlaces, Place
<1>5. confirmed' \/ Place' = "confirm" => Proves(settlement)' /\ settlement'.owned = receipt'
    BY DEF RecordsTrue, RecordsAside, SettlePlaces, Place, Proves
<1> QED
    BY <1>1, <1>2, <1>3, <1>4, <1>5 DEF RecordsTrue, RecordsAside

\* A step that records something true, or moves on with the same records.
LEMMA RecordKeepsRecords ==
    ASSUME RecordsTrue, DeadStayDead, UNCHANGED <<settlement, cancelReply, confirmed, receipt>>,
           ctl'.pc \in {"record", "observe"} => ctl'.record.owned \in Processes /\ (ctl'.record.settled = "yes" => Gone(ctl.record.owned)'),
           Place' \in {"restore", "interrupt", "retire", "replied", "cancelFailed"} => ctl'.p = receipt,
           Place' = "confirm" => Proves(settlement) /\ settlement.owned = receipt
    PROVE  RecordsTrue'
<1>1. settlement' # None => settlement'.owned \in Processes /\ (settlement'.settled = "yes" => Gone(settlement.owned)')
    BY GoneStays DEF RecordsTrue
<1>2. cancelReply' = "yes" => Gone(receipt)'
    BY GoneStays DEF RecordsTrue
<1>5. confirmed' \/ Place' = "confirm" => Proves(settlement)' /\ settlement'.owned = receipt'
    BY DEF RecordsTrue, Proves
<1> QED
    BY <1>1, <1>2, <1>5 DEF RecordsTrue

\* The end of a close is recorded as it was seen.
LEMMA StopGroupKeepsRecords ==
    ASSUME CallTypeOK, ConnectionsTrue, RecordsTrue, DeadStayDead, StopGroup PROVE RecordsTrue'
<1>1. PICK settled \in {"yes", "no", "unknown"}, raised \in BOOLEAN :
              /\ AfterClose(settled, raised)
              /\ settled = "yes" /\ ~KillMayHang => group'[ctl.p] = "dead"
    BY CloseIsTrue
<1>2. ctl.p \in Processes /\ Place = ctl.ret /\ ctl.ret \in Returns
    BY DEF StopGroup, At, CallTypeOK, Place, Closing
<1>3. UNCHANGED <<settlement, cancelReply, confirmed, receipt>>
    BY DEF StopGroup, workVars, cancelVars
<1>4. Resumed(raised) = ctl.ret \/ (Resumed(raised) = "cancelFailed" /\ ctl.ret \in {"retire", "replied"}) \/ Resumed(raised) = "raised"
    BY DEF Resumed
<1>5. Resumed(raised) \in Returns
    BY <1>2, <1>4 DEF Returns
<1>6. CASE ctl.ctx # None /\ ~ctl.ctx.defer
    <2> DEFINE r == [handle |-> ctl.ctx.handle, fenced |-> ctl.ctx.fenced, owned |-> ctl.p,
                     expected |-> ctl.ctx.expected, settled |-> settled,
                     reconciled |-> ctl.ctx.reconciled, transport |-> settled # "unknown"]
    <2>1. ctl' = [ctl EXCEPT !.pc = "record", !.ret = Resumed(raised), !.ctx = None, !.record = r]
        BY <1>1, <1>6 DEF AfterClose
    <2>2. r.owned = ctl.p /\ r.settled = settled
        OBVIOUS
    <2> HIDE DEF r
    <2>3. ctl'.p = ctl.p /\ Place' = Resumed(raised) /\ ctl'.record = r
        BY <2>1 DEF CallTypeOK, Place, Closing
    <2>4. ctl'.record.owned \in Processes /\ (ctl'.record.settled = "yes" => Gone(ctl.record.owned)')
        BY <1>1, <1>2, <2>2, <2>3 DEF Gone
    <2>5. Place' \in {"restore", "interrupt", "retire", "replied", "cancelFailed"} => ctl'.p = receipt
        BY <1>2, <1>4, <2>3 DEF RecordsTrue
    <2>6. Place' # "confirm"
        BY <1>5, <2>3 DEF Returns
    <2> QED
        BY <1>3, <2>4, <2>5, <2>6, RecordKeepsRecords
<1>7. CASE ~(ctl.ctx # None /\ ~ctl.ctx.defer)
    <2>1. ctl' = [ctl EXCEPT !.pc = Resumed(raised), !.ctx = None, !.ret = None, !.raised = raised]
        BY <1>1, <1>7, Zenon DEF AfterClose
    <2>2. ctl'.p = ctl.p /\ Place' = Resumed(raised) /\ ctl'.pc \notin {"record", "observe"}
        BY <1>5, <2>1 DEF CallTypeOK, Place, Closing, Returns
    <2>3. Place' \in {"restore", "interrupt", "retire", "replied", "cancelFailed"} => ctl'.p = receipt
        BY <1>2, <1>4, <2>2 DEF RecordsTrue
    <2>4. Place' # "confirm"
        BY <1>5, <2>2 DEF Returns
    <2> QED
        BY <1>3, <2>2, <2>3, <2>4, RecordKeepsRecords
<1> QED
    BY <1>6, <1>7

\* So are the failure of a request and the storing of a settlement.
LEMMA ClosingKeepsRecords ==
    ASSUME CallTypeOK, RecordsTrue, DeadStayDead, ConnectionFails \/ BeforeClose \/ StoreSettlement \/ ObserveSettlement
    PROVE  RecordsTrue'
<1> USE DEF workVars, cancelVars
<1>1. CASE ConnectionFails
    <2>1. ctl.pc \in DOMAIN AfterFailure
        BY <1>1 DEF ConnectionFails
    <2>2. DOMAIN AfterFailure = {"start", "turn", "receipt", "advance", "candidate", "restore", "interrupt"}
        BY DEF AfterFailure
    <2>3. ctl.pc \in {"start", "turn", "receipt", "advance", "candidate", "restore", "interrupt"}
        BY <2>1, <2>2
    <2>4. PICK ret : /\ ctl' = [ctl EXCEPT !.pc = "close", !.ret = ret]
                     /\ ret \in {AfterFailure[ctl.pc]} \cup IF ctl.pc = "interrupt" THEN {"cancelFailed"} ELSE {}
        BY <1>1 DEF ConnectionFails, At
    <2>5. ret \in SettlePlaces => ret # "confirm" /\ ctl.pc = "interrupt"
        BY <2>3, <2>4 DEF AfterFailure, SettlePlaces
    <2>6. ctl'.p = ctl.p /\ ctl'.pc = "close" /\ Place' = ret /\ Place = ctl.pc
        BY <2>3, <2>4 DEF CallTypeOK, Place, Closing
    <2>7. UNCHANGED <<settlement, cancelReply, confirmed, receipt>>
        BY <1>1 DEF ConnectionFails
    <2>8. Place' \in {"restore", "interrupt", "retire", "replied", "cancelFailed"} => ctl'.p = receipt
        BY <2>5, <2>6 DEF RecordsTrue, SettlePlaces
    <2> QED
        BY <2>5, <2>6, <2>7, <2>8, RecordKeepsRecords DEF SettlePlaces
<1>2. CASE BeforeClose
    <2>1. /\ UNCHANGED <<settlement, cancelReply, confirmed, receipt>>
          /\ ctl'.p = ctl.p /\ ctl'.pc = "stop" /\ Place' = Place
        BY <1>2 DEF BeforeClose, At, CallTypeOK, Place, Closing
    <2> QED
        BY <2>1, AsideKeepsRecords DEF RecordsAside
<1>3. CASE StoreSettlement
    <2>1. UNCHANGED <<cancelReply, confirmed, receipt>> /\ ctl.pc = "record"
        BY <1>3 DEF StoreSettlement, At
    <2>2. ctl'.p = ctl.p /\ ctl'.record = ctl.record
        BY <1>3 DEF StoreSettlement, Go, CallTypeOK
    <2>3. /\ ctl'.pc \in {"observe", "raised"}
          /\ Place' = Place \/ Place' = "raised"
          /\ settlement' = settlement \/ (settlement = None /\ settlement' = ctl.record)
        BY <1>3 DEF StoreSettlement, Go, At, CallTypeOK, Place, Closing
    <2>4. ctl.record.owned \in Processes /\ (ctl.record.settled = "yes" => Gone(ctl.record.owned))
        BY <2>1 DEF RecordsTrue
    <2>5. \A p : Gone(p) => (p \in Processes /\ (~KillMayHang => group'[p] = "dead"))
        BY DEF Gone, DeadStayDead
    <2>6. /\ settlement' # None => settlement'.owned \in Processes /\ (settlement'.settled = "yes" => Gone(settlement.owned)')
          /\ ctl'.record.owned \in Processes /\ (ctl'.record.settled = "yes" => Gone(ctl.record.owned)')
        BY <2>2, <2>3, <2>4, <2>5 DEF RecordsTrue, Gone
    <2>7. cancelReply' = "yes" => Gone(receipt)'
        BY <2>1, <2>5 DEF RecordsTrue, Gone
    <2>8. Place' \in {"restore", "interrupt", "retire", "replied", "cancelFailed"} => ctl'.p = receipt'
        BY <2>1, <2>2, <2>3 DEF RecordsTrue
    <2>9. confirmed' \/ Place' = "confirm" => Proves(settlement)' /\ settlement'.owned = receipt'
        BY <2>1, <2>3 DEF RecordsTrue, Proves
    <2> QED
        BY <2>6, <2>7, <2>8, <2>9 DEF RecordsTrue
<1>4. CASE ObserveSettlement
    <2>1. /\ UNCHANGED <<settlement, cancelReply, confirmed, receipt>>
          /\ ctl'.p = ctl.p /\ ctl'.pc \notin {"record", "observe"} /\ Place' = Place
        BY <1>4 DEF ObserveSettlement, At, CallTypeOK, Place, Closing, Returns
    <2> QED
        BY <2>1, AsideKeepsRecords DEF RecordsAside
<1> QED
    BY <1>1, <1>2, <1>3, <1>4

\* The settlement of a cancellation records what the connection of this process said.
LEMMA SettlingKeepsRecords ==
    ASSUME CallTypeOK, TurnOnce, ConnectionsTrue, RecordsTrue, DeadStayDead, SettlingWork PROVE RecordsTrue'
<1> USE DEF workVars, cancelVars, worldVars
<1>1. ASSUME ctl.p \in Processes, conn[ctl.p].settled = "yes"
      PROVE  ctl.p \in Processes /\ (~KillMayHang => group'[ctl.p] = "dead")
    BY <1>1 DEF ConnectionsTrue, DeadStayDead
<1>2. CASE ReviewTarget
    <2>1. UNCHANGED <<settlement, cancelReply, confirmed, receipt>> /\ ctl.pc = "target"
        BY <1>2 DEF ReviewTarget, At
    <2>2. \/ ctl' \in {[ctl EXCEPT !.pc = x] : x \in {"unreconciled", "raised", "uncertain"}}
          \/ ctl' = [ctl EXCEPT !.pc = "confirm"] /\ Proves(settlement) /\ Fits(settlement)
          \/ ctl' = [ctl EXCEPT !.pc = "restore"] /\ ctl.p = receipt
          \/ /\ receipt # None
             /\ ctl' = [ctl EXCEPT !.pc = "record", !.ret = "target",
               !.record = [handle |-> TRUE, fenced |-> TRUE, owned |-> receipt, expected |-> receipt,
                           settled |-> cancelReply, reconciled |-> TRUE, transport |-> TRUE]]
        BY <1>2 DEF ReviewTarget, Go, Proves
    <2>3. CASE ctl' \in {[ctl EXCEPT !.pc = x] : x \in {"unreconciled", "raised", "uncertain"}}
        <3>1. ctl'.pc \in {"unreconciled", "raised", "uncertain"} /\ Place' = ctl'.pc
            BY <2>3 DEF CallTypeOK, Place, Closing
        <3> QED
            BY <2>1, <3>1, AsideKeepsRecords DEF RecordsAside, SettlePlaces
    <2>4. CASE ctl' = [ctl EXCEPT !.pc = "confirm"] /\ Proves(settlement) /\ Fits(settlement)
        <3>1. ctl'.pc = "confirm" /\ Place' = "confirm"
            BY <2>4 DEF CallTypeOK, Place, Closing
        <3>2. settlement.owned = receipt
            BY <2>4 DEF Proves, Fits
        <3> QED
            BY <2>1, <2>4, <3>1, <3>2, RecordKeepsRecords
    <2>5. CASE ctl' = [ctl EXCEPT !.pc = "restore"] /\ ctl.p = receipt
        <3>1. ctl'.pc = "restore" /\ Place' = "restore" /\ ctl'.p = ctl.p
            BY <2>5 DEF CallTypeOK, Place, Closing
        <3> QED
            BY <2>1, <2>5, <3>1, RecordKeepsRecords
    <2>6. CASE /\ receipt # None
               /\ ctl' = [ctl EXCEPT !.pc = "record", !.ret = "target",
                    !.record = [handle |-> TRUE, fenced |-> TRUE, owned |-> receipt, expected |-> receipt,
                                settled |-> cancelReply, reconciled |-> TRUE, transport |-> TRUE]]
        <3>1. Place' = "target" /\ ctl'.record.owned = receipt /\ ctl'.record.settled = cancelReply
            BY <2>6 DEF CallTypeOK, Place, Closing
        <3>2. receipt \in Processes
            BY <2>6 DEF TurnOnce
        <3>3. ctl'.record.settled = "yes" => Gone(ctl.record.owned)'
            BY <3>1, GoneStays DEF RecordsTrue, Gone, DeadStayDead
        <3> QED
            BY <2>1, <3>1, <3>2, <3>3, RecordKeepsRecords
    <2> QED
        BY <2>2, <2>3, <2>4, <2>5, <2>6
<1>3. CASE Retired \/ Unsent
    <2>1. UNCHANGED <<settlement, cancelReply, confirmed, receipt>> /\ ctl.p \in Processes
        BY <1>3 DEF Retired, Unsent, At, CallTypeOK
    <2>2. Place' = "end" /\ ctl'.record.owned = ctl.p /\ ctl'.record.settled = conn[ctl.p].settled
        <3>1. CASE Retired
            BY <3>1 DEF Retired, CallTypeOK, Place, Closing
        <3>2. CASE Unsent
            BY <3>2 DEF Unsent, CallTypeOK, Place, Closing
        <3> QED
            BY <1>3, <3>1, <3>2
    <2>3. ctl'.record.settled = "yes" => Gone(ctl.record.owned)'
        BY <1>1, <2>1, <2>2 DEF Gone
    <2> QED
        BY <2>1, <2>2, <2>3, RecordKeepsRecords
<1>4. CASE Restore \/ Interrupt \/ Retire \/ CancelFailed
    <2>1. UNCHANGED <<settlement, cancelReply, confirmed, receipt>>
        BY <1>4 DEF Restore, Interrupt, Retire, CancelFailed
    <2>2. ctl'.p = ctl.p /\ ctl'.pc \in {"unreconciled", "interrupt", "close", "uncancelled"} /\ Place' # "confirm"
        BY <1>4 DEF Restore, Interrupt, Retire, CancelFailed, Go, CallTypeOK, Place, Closing
    <2>3. ctl.p = receipt
        BY <1>4 DEF Restore, Interrupt, Retire, CancelFailed, At, Place, Closing, RecordsTrue
    <2> QED
        BY <2>1, <2>2, <2>3, RecordKeepsRecords
<1>5. CASE StoreReply
    <2>1. UNCHANGED <<settlement, confirmed, receipt>> /\ cancelReply' = conn[ctl.p].settled /\ ctl.p \in Processes
        BY <1>5 DEF StoreReply, At, CallTypeOK
    <2>2. Place' = "weighReply" /\ ctl'.record.owned = ctl.p /\ ctl'.record.settled = conn[ctl.p].settled
        BY <1>5 DEF StoreReply, CallTypeOK, Place, Closing
    <2>3. ctl.p = receipt
        BY <1>5 DEF StoreReply, At, Place, Closing, RecordsTrue
    <2>4. ctl'.record.settled = "yes" => Gone(ctl.record.owned)'
        BY <1>1, <2>1, <2>2 DEF Gone
    <2>5. cancelReply' = "yes" => Gone(receipt)'
        BY <1>1, <2>1, <2>3 DEF Gone
    <2>6. settlement' # None => settlement'.owned \in Processes /\ (settlement'.settled = "yes" => Gone(settlement.owned)')
        BY <2>1, GoneStays DEF RecordsTrue, Gone, DeadStayDead
    <2>7. confirmed' => Proves(settlement)' /\ settlement'.owned = receipt'
        BY <2>1 DEF RecordsTrue, Proves
    <2> QED
        BY <2>1, <2>2, <2>4, <2>5, <2>6, <2>7 DEF RecordsTrue
<1>6. CASE WeighSettlement
    <2>1. UNCHANGED <<settlement, cancelReply, confirmed, receipt>>
        BY <1>6 DEF WeighSettlement
    <2>2. /\ ctl'.pc \in {"raised", "confirm", "uncertain", "end"} /\ Place' = ctl'.pc
          /\ ctl'.pc = "confirm" => Proves(settlement) /\ Fits(settlement)
        BY <1>6 DEF WeighSettlement, Go, Proves, CallTypeOK, Place, Closing
    <2>3. Place' = "confirm" => Proves(settlement) /\ settlement.owned = receipt
        BY <2>2 DEF Proves, Fits
    <2> QED
        BY <2>1, <2>2, <2>3, RecordKeepsRecords
<1>7. CASE Confirm
    <2>1. UNCHANGED <<settlement, cancelReply, receipt>> /\ Place = "confirm"
        BY <1>7 DEF Confirm, At, Place, Closing
    <2>2. ctl'.p = ctl.p /\ ctl'.pc \in {"confirm", "end"} /\ Place' = ctl'.pc
        BY <1>7 DEF Confirm, At, Go, CallTypeOK, Place, Closing
    <2>3. settlement' # None => settlement'.owned \in Processes /\ (settlement'.settled = "yes" => Gone(settlement.owned)')
        BY <2>1, GoneStays DEF RecordsTrue, Gone, DeadStayDead
    <2>4. cancelReply' = "yes" => Gone(receipt)'
        BY <2>1, GoneStays DEF RecordsTrue, Gone, DeadStayDead
    <2>5. Proves(settlement)' /\ settlement'.owned = receipt'
        BY <2>1 DEF RecordsTrue, Proves
    <2> QED
        BY <2>2, <2>3, <2>4, <2>5 DEF RecordsTrue
<1> QED
    BY <1>2, <1>3, <1>4, <1>5, <1>6, <1>7 DEF SettlingWork

\* Every step keeps the records true.
LEMMA RecordsKept ==
    ASSUME CallTypeOK, TurnOnce, ConnectionsTrue, RecordsTrue, DeadStayDead, [Next]_vars PROVE RecordsTrue'
<1> USE DEF workVars, cancelVars, worldVars
<1>1. CASE StillWork
    <2>1. UNCHANGED <<settlement, cancelReply, confirmed, receipt, ctl>>
        BY <1>1 DEF StillWork, Admit, PrepareAttempt, StartAttempt, ObserveReceipt, ObserveTerminal, FinishAttempt,
            RecoverTarget, StartProcess, Signal, GroupDies, Expire, Edit, TurnEnds, CommandDies, vars
    <2> QED
        BY <2>1, AsideKeepsRecords DEF RecordsAside
<1>2. CASE FreeWork
    <2>1. UNCHANGED <<settlement, cancelReply, confirmed>>
        BY <1>2 DEF FreeWork, Activate, Recover, PrepareWorkspace, StopSeen, StartRefused, AuthorityRefused, NothingToDo,
            StoreReceipt, Failed, NoCandidate, CheckRefused, CommandAborted, Judge, Decide, After, CancelBeforeDispatch,
            MarkUncertain, SettleUnreconciled, SettleWithoutDispatch, ObserveApplied, ReconcilePR, Poll, RecordCancellation
    <2>2. ctl'.pc \notin {"record", "observe"} /\ Place' \notin SettlePlaces
        BY <1>2, FreeSteps DEF FreePlaces, SettlePlaces
    <2>3. CASE StoreReceipt
        <3>1. receipt' = ctl.p /\ Place = "receipt"
            BY <2>3 DEF StoreReceipt, At, Place, Closing
        <3>2. receipt # None => receipt' = receipt
            BY <3>1 DEF TurnOnce
        <3>3. receipt = None => cancelReply # "yes" /\ ~confirmed
            BY TaskAssumption DEF RecordsTrue, Gone, Proves
        <3>4. settlement' # None => settlement'.owned \in Processes /\ (settlement'.settled = "yes" => Gone(settlement.owned)')
            BY <2>1, GoneStays DEF RecordsTrue, Gone, DeadStayDead
        <3>5. cancelReply' = "yes" => Gone(receipt)'
            BY <2>1, <3>2, <3>3, GoneStays DEF RecordsTrue, Gone, DeadStayDead
        <3>6. confirmed' => Proves(settlement)' /\ settlement'.owned = receipt'
            BY <2>1, <3>2, <3>3 DEF RecordsTrue, Proves
        <3> QED
            BY <2>2, <3>4, <3>5, <3>6 DEF RecordsTrue, SettlePlaces
    <2>4. CASE ~StoreReceipt
        <3>1. UNCHANGED receipt
            BY <1>2, <2>4 DEF FreeWork, Activate, Recover, PrepareWorkspace, StopSeen, StartRefused, AuthorityRefused, NothingToDo,
                Failed, NoCandidate, CheckRefused, CommandAborted, Judge, Decide, After, CancelBeforeDispatch,
                MarkUncertain, SettleUnreconciled, SettleWithoutDispatch, ObserveApplied, ReconcilePR
        <3> QED
            BY <2>1, <2>2, <3>1, AsideKeepsRecords DEF RecordsAside
    <2> QED
        BY <2>3, <2>4
<1>3. CASE CandidateWork
    BY <1>3, CandidateSteps, AsideKeepsRecords DEF RecordsAside, AfterTheTurn, FreePlaces, SettlePlaces
<1>4. CASE ClosingWork
    BY <1>4, StopGroupKeepsRecords, ClosingKeepsRecords DEF ClosingWork
<1>5. CASE SettlingWork
    BY <1>5, SettlingKeepsRecords
<1>6. CASE RequestWork
    BY <1>6, RequestSteps, AsideKeepsRecords DEF RecordsAside, RequestPlaces, SettlePlaces, Closing
<1>7. CASE ClaimRuntime \/ StartThread \/ (\E reply \in BOOLEAN : StartTurn(reply)) \/ Watch
    <2>1. CASE ClaimRuntime \/ StartThread
        <3>1. UNCHANGED <<settlement, cancelReply, confirmed, receipt>>
            BY <2>1 DEF ClaimRuntime, StartThread
        <3>2. ctl'.pc \in {"start", "turn"} /\ Place' = ctl'.pc
            BY <2>1 DEF ClaimRuntime, StartThread, Go, CallTypeOK, Place, Closing
        <3> QED
            BY <3>1, <3>2, AsideKeepsRecords DEF RecordsAside, SettlePlaces
    <2>2. CASE \E reply \in BOOLEAN : StartTurn(reply)
        <3>1. UNCHANGED <<settlement, cancelReply, confirmed, receipt>>
            BY <2>2 DEF StartTurn
        <3>2. Place' \in {"receipt", "failed"} /\ ctl'.pc \notin {"record", "observe"}
            <4>1. \/ ctl' = [ctl EXCEPT !.pc = "receipt"]
                  \/ ctl' = [ctl EXCEPT !.pc = "close", !.ret = "failed"]
                BY <2>2 DEF StartTurn, Go
            <4> QED
                BY <4>1 DEF CallTypeOK, Place, Closing
        <3> QED
            BY <3>1, <3>2, AsideKeepsRecords DEF RecordsAside, SettlePlaces
    <2>3. CASE Watch
        <3>1. UNCHANGED <<settlement, cancelReply, confirmed, receipt>>
            BY <2>3 DEF Watch, Poll, RecordCancellation
        <3>2. PICK r \in Reads : \/ ctl' = [ctl EXCEPT !.pc = "after"]
                               \/ ctl' = [ctl EXCEPT !.pc = "candidate", !.run = r]
            BY <2>3, Zenon DEF Watch, Go
        <3>3. ctl'.pc \in {"after", "candidate"} /\ Place' = ctl'.pc
            BY <3>2 DEF CallTypeOK, Place, Closing
        <3> QED
            BY <3>1, <3>3, AsideKeepsRecords DEF RecordsAside, SettlePlaces
    <2> QED
        BY <1>7, <2>1, <2>2, <2>3
<1>8. CASE \E p \in Processes : Enter(p) \/ Crash(p)
    BY <1>8, OutSteps, AsideKeepsRecords DEF RecordsAside, SettlePlaces, Closing
<1> QED
    BY StepKinds, <1>1, <1>2, <1>3, <1>4, <1>5, <1>6, <1>7, <1>8

-----------------------------------------------------------------------------
(* The invariant, and what it says of the task. *)

\* A store without Program, and no process: nothing is known and nothing runs.
LEMMA TaskInit == Init => TaskInv
<1> SUFFICES ASSUME Init PROVE TaskInv
    OBVIOUS
<1>1. ctl.pc = "off" /\ ctl.p = None /\ live = {} /\ CallTypeOK
    BY DEF Init, Idle, CallTypeOK, Closing
<1>2. Place = "off"
    BY <1>1 DEF Place, Closing
<1>3. Unresolved = {}
    BY DEF Init, Unresolved
<1>4. TurnOnce
    BY <1>2 DEF Init, TurnOnce, AfterTheTurn
<1>5. CommandsInOrder
    <2>1. \A i \in Commands : /\ ranOn[i] = << >> /\ proc[i] = "none" /\ result[i] = None /\ integrity[i] = None
                              /\ i \notin settledFact /\ i \notin reserved
        BY DEF Init
    <2>2. /\ reserved = {} /\ proc \in [Commands -> {"none", "alive", "dead"}]
          /\ DOMAIN result = Commands /\ DOMAIN integrity = Commands /\ DOMAIN ranOn = Commands
        BY DEF Init
    <2> QED
        BY <2>1, <2>2 DEF CommandsInOrder
<1>6. LoopInOrder
    BY <1>2, <1>3 DEF LoopInOrder, Looping, Fresh
<1>7. StartedOnCandidate
    BY DEF Init, StartedOnCandidate
<1>8. VerdictBacked
    <2>1. verdict # "pass" /\ accepted = None
        BY TaskAssumption DEF Init
    <2> QED
        BY <2>1 DEF VerdictBacked
<1>9. RequestOnce
    BY <1>2 DEF Init, RequestOnce
<1>10. ConnectionsTrue
    BY DEF Init, ConnectionsTrue, NoConnection
<1>11. RecordsTrue
    <2>1. settlement = None /\ cancelReply # "yes" /\ ~confirmed
        BY TaskAssumption DEF Init
    <2> QED
        BY <1>1, <1>2, <2>1 DEF RecordsTrue
<1> QED
    BY <1>1, <1>4, <1>5, <1>6, <1>7, <1>8, <1>9, <1>10, <1>11 DEF TaskInv

\* Every step of the task, of its processes and of the world around them keeps it.
LEMMA TaskStep == TaskInv /\ [Next]_vars => TaskInv'
<1> SUFFICES ASSUME TaskInv, [Next]_vars PROVE TaskInv'
    OBVIOUS
<1>1. CommandsInv
    BY DEF TaskInv, CommandsInv
<1>2. CallTypeOK' /\ TurnOnce'
    BY CallKept, TurnKept DEF TaskInv
<1>3. CommandsInv'
    BY <1>1, CommandsKept DEF TaskInv
<1>4. RequestOnce'
    BY RequestKept DEF TaskInv
<1>5. ConnectionsTrue' /\ DeadStayDead
    BY ConnectionsKept DEF TaskInv, DeadStayDead
<1>6. RecordsTrue'
    BY <1>5, RecordsKept DEF TaskInv
<1> QED
    BY <1>2, <1>3, <1>4, <1>5, <1>6 DEF TaskInv, CommandsInv

\* What run_task() relies on at every durable step, whichever process calls it and
\* wherever the ones before it were killed.
THEOREM TaskInvariant == Spec => []TaskInv
BY TaskInit, TaskStep, PTL DEF Spec

\* The turn, each verification command and the pull request happen at most once, however
\* often run_task() is called again: the turn is claimed, the command reserved and the pull
\* request dispatched durably before they start.
THEOREM TaskWorkHappensOnce == Spec => []CommandsRunOnce
<1>1. TaskInv => CommandsRunOnce
    <2> SUFFICES ASSUME TaskInv PROVE CommandsRunOnce
        OBVIOUS
    <2>1. ASSUME NEW i \in Commands PROVE Len(ranOn[i]) <= 1
        <3>1. ranOn[i] = << >> \/ \E x : ranOn[i] = <<x>>
            BY DEF TaskInv, CommandsInOrder
        <3>2. CASE ranOn[i] = << >>
            BY <3>2
        <3>3. ASSUME NEW x, ranOn[i] = <<x>> PROVE Len(ranOn[i]) <= 1
            BY <3>3
        <3> QED
            BY <3>1, <3>2, <3>3
    <2>2. turns <= 1
        BY DEF TaskInv, TurnOnce
    <2>3. Len(prs) <= 1 /\ \A k \in DOMAIN prs : prs[k] = accepted
        <3>1. CASE prs = << >>
            BY <3>1
        <3>2. CASE prs = <<accepted>>
            BY <3>2
        <3> QED
            BY <3>1, <3>2 DEF TaskInv, RequestOnce
    <2> QED
        BY <2>1, <2>2, <2>3 DEF CommandsRunOnce
<1> QED
    BY <1>1, TaskInvariant, PTL

\* An accepted head is the recorded candidate, passes the structural checks, and every
\* verification command was started exactly once, on its content, and is gone: also when
\* the commands ran in calls of different processes.
THEOREM AcceptancesAreVerified == Spec => []AcceptedAsVerified
<1>1. TaskInv => AcceptedAsVerified
    <2> SUFFICES ASSUME TaskInv, accepted # None
                 PROVE  /\ candidate = accepted /\ accepted \in Proper
                        /\ \A i \in Commands : ranOn[i] = <<accepted>> /\ proc[i] = "dead"
        BY DEF AcceptedAsVerified
    <2>1. candidate = accepted /\ accepted \in Proper /\ \A i \in Commands : result[i] = "ok" /\ integrity[i] = "clean"
        BY DEF TaskInv, VerdictBacked
    <2>2. ASSUME NEW i \in Commands PROVE ranOn[i] = <<accepted>> /\ proc[i] = "dead"
        <3>1. integrity[i] # None /\ result[i] \notin {None, "not_started"}
            BY <2>1, TaskAssumption
        <3>2. ranOn[i] # << >> /\ proc[i] # "none" /\ proc[i] # "alive"
            BY <3>1 DEF TaskInv, CommandsInOrder
        <3>3. proc[i] = "dead"
            BY <3>2 DEF TaskInv, CommandsInOrder
        <3>4. Before(i) \subseteq Commands
            BY TaskAssumption DEF Before, Commands
        <3>5. CleanBefore(i)
            BY <2>1, <3>4 DEF CleanBefore
        <3>6. ranOn[i] = <<candidate>>
            BY <3>2, <3>5 DEF TaskInv, StartedOnCandidate
        <3> QED
            BY <2>1, <3>3, <3>6
    <2> QED
        BY <2>1, <2>2
<1> QED
    BY <1>1, TaskInvariant, PTL

\* If the wait() after SIGKILL returns in time, task_status() says "cancelled" only of a
\* task whose turn and commands are gone, and "cancelled_no_dispatch" only of one that
\* never had a turn, whichever process closed which connection.
THEOREM CancellationsAreQuiet == ~KillMayHang => (Spec => []CancelledIsQuiet)
<1> SUFFICES ASSUME ~KillMayHang PROVE Spec => []CancelledIsQuiet
    OBVIOUS
<1>1. TaskInv => CancelledIsQuiet
    <2> SUFFICES ASSUME TaskInv PROVE CancelledIsQuiet
        OBVIOUS
    <2>1. ASSUME Condition = "cancelled"
          PROVE  /\ turn # None => group[turn.by] = "dead"
                 /\ \A i \in Commands : proc[i] # "alive"
        <3>1. CancelSettled /\ runtime = "terminal" /\ Unresolved \subseteq settledFact
            BY <2>1 DEF Condition
        <3>2. confirmed
            BY <3>1 DEF CancelSettled
        <3>3. Gone(receipt)
            BY <3>2 DEF TaskInv, RecordsTrue, Proves
        <3>4. receipt # None /\ group[receipt] = "dead"
            BY <3>3, TaskAssumption DEF Gone
        <3>5. turn # None => group[turn.by] = "dead"
            BY <3>4 DEF TaskInv, TurnOnce
        <3>6. ASSUME NEW i \in Commands, proc[i] = "alive" PROVE FALSE
            <4>1. i \in Unresolved
                BY <3>6, AliveUnresolved DEF TaskInv
            <4>2. i \notin settledFact
                BY <3>6 DEF TaskInv, CommandsInOrder
            <4> QED
                BY <3>1, <4>1, <4>2
        <3> QED
            BY <3>5, <3>6
    <2>2. ASSUME Condition = "cancelled_no_dispatch" PROVE turn = None
        <3>1. CancelSettled /\ runtime # "terminal"
            BY <2>2 DEF Condition
        <3>2. runtime \in {"none", "intent"}
            BY <3>1 DEF CancelSettled
        <3> QED
            BY <3>2 DEF TaskInv, TurnOnce
    <2> QED
        BY <2>1, <2>2 DEF CancelledIsQuiet
<1> QED
    BY <1>1, TaskInvariant, PTL

\* Steps that start nothing and leave the workspace alone.
Quiet == turns' = turns /\ ranOn' = ranOn /\ prs' = prs /\ ws' = ws

LooseWork ==
    \/ PrepareWorkspace \/ Retrieve \/ Install \/ Edit
    \/ Spawn \/ Apply \/ \E reply \in BOOLEAN : StartTurn(reply)

\* All steps but these.
LEMMA QuietSteps == ASSUME [Next]_vars, ~LooseWork PROVE Quiet
<1> USE DEF Quiet, worldVars
<1>1. CASE StillWork
    <2>1. CASE Admit \/ PrepareAttempt \/ StartAttempt \/ ObserveReceipt \/ ObserveTerminal \/ FinishAttempt \/ RecoverTarget
        BY <2>1 DEF Admit, PrepareAttempt, StartAttempt, ObserveReceipt, ObserveTerminal, FinishAttempt, RecoverTarget
    <2>2. CASE \E p \in Processes : StartProcess(p) \/ Signal(p) \/ GroupDies(p)
        BY <2>2 DEF StartProcess, Signal, GroupDies
    <2>3. CASE Expire \/ TurnEnds \/ (\E i \in Commands : CommandDies(i)) \/ UNCHANGED vars
        BY <2>3 DEF Expire, TurnEnds, CommandDies, vars
    <2> QED
        BY <1>1, <2>1, <2>2, <2>3 DEF StillWork, LooseWork
<1>2. CASE FreeWork
    <2>1. CASE Activate \/ Recover \/ StopSeen \/ StartRefused \/ AuthorityRefused \/ NothingToDo \/ StoreReceipt
        BY <2>1 DEF Activate, Recover, StopSeen, StartRefused, AuthorityRefused, NothingToDo, StoreReceipt
    <2>2. CASE Failed \/ NoCandidate \/ CheckRefused \/ CommandAborted \/ Judge \/ Decide \/ After
        BY <2>2 DEF Failed, NoCandidate, CheckRefused, CommandAborted, Judge, Decide, After
    <2>3. CASE \/ CancelBeforeDispatch \/ MarkUncertain \/ SettleUnreconciled \/ SettleWithoutDispatch
               \/ ObserveApplied \/ ReconcilePR
        BY <2>3 DEF CancelBeforeDispatch, MarkUncertain, SettleUnreconciled, SettleWithoutDispatch, ObserveApplied,
            ReconcilePR
    <2> QED
        BY <1>2, <2>1, <2>2, <2>3 DEF FreeWork, LooseWork
<1>3. CASE CandidateWork
    <2>1. CASE StoreOutcome \/ Collect \/ Verify \/ Reserve \/ Bind
        BY <2>1 DEF StoreOutcome, Collect, Verify, Reserve, Bind
    <2>2. CASE EndCommand \/ StoreResult \/ StoreFact \/ Capture \/ Weigh
        BY <2>2 DEF EndCommand, StoreResult, StoreFact, Capture, Weigh
    <2> QED
        BY <1>3, <2>1, <2>2 DEF CandidateWork, LooseWork
<1>4. CASE ClosingWork
    <2>1. CASE StopGroup
        BY <2>1, Zenon DEF StopGroup
    <2>2. CASE ConnectionFails
        BY <2>2, Zenon DEF ConnectionFails
    <2>3. CASE BeforeClose \/ StoreSettlement \/ ObserveSettlement
        BY <2>3 DEF BeforeClose, StoreSettlement, ObserveSettlement
    <2> QED
        BY <1>4, <2>1, <2>2, <2>3 DEF ClosingWork
<1>5. CASE SettlingWork
    <2>1. CASE ReviewTarget \/ Retired \/ Restore \/ Interrupt \/ Retire
        BY <2>1 DEF ReviewTarget, Retired, Restore, Interrupt, Retire
    <2>2. CASE StoreReply \/ CancelFailed \/ WeighSettlement \/ Confirm \/ Unsent
        BY <2>2 DEF StoreReply, CancelFailed, WeighSettlement, Confirm, Unsent
    <2> QED
        BY <1>5, <2>1, <2>2 DEF SettlingWork
<1>6. CASE RequestWork
    <2>1. CASE End \/ IntendPR \/ ClaimPR
        BY <2>1 DEF End, IntendPR, ClaimPR
    <2> QED
        BY <1>6, <2>1 DEF RequestWork, LooseWork
<1>7. CASE ClaimRuntime \/ StartThread \/ Watch
    BY <1>7, Zenon DEF ClaimRuntime, StartThread, Watch
<1>8. CASE \E p \in Processes : Enter(p) \/ Crash(p)
    BY <1>8 DEF Enter, Crash
<1> QED
    BY StepKinds, <1>1, <1>2, <1>3, <1>4, <1>5, <1>6, <1>7, <1>8 DEF LooseWork

\* Who starts something asks for authority in the same step.
LEMMA StartsAreAuthorized ==
    ASSUME LooseWork, ~Authorized
    PROVE  turns' = turns /\ ranOn' = ranOn /\ prs' = prs
<1>1. CASE PrepareWorkspace \/ Retrieve \/ Install \/ Edit
    BY <1>1 DEF PrepareWorkspace, Retrieve, Install, Edit
<1>2. CASE Spawn
    BY <1>2 DEF Spawn
<1>3. CASE Apply
    BY <1>3, Zenon DEF Apply
<1>4. CASE \E reply \in BOOLEAN : StartTurn(reply)
    BY <1>4 DEF StartTurn
<1> QED
    BY <1>1, <1>2, <1>3, <1>4 DEF LooseWork

\* Once the work budget is revoked no turn, no command and no pull request is started, by
\* the process that recorded the cancellation or by any later one.
THEOREM NothingStartsAfterStop == Spec => NothingNewAfterStop
<1>1. [Next]_vars => (revoked => turns' = turns /\ ranOn' = ranOn /\ prs' = prs)
    BY QuietSteps, StartsAreAuthorized DEF Quiet, Authorized, Lapsed
<1> QED
    BY <1>1, PTL DEF Spec, NothingNewAfterStop

\* The controller prepares, derives or installs the workspace only when no command lives
\* that may still write to it, in a process that never started that command too.
THEOREM WorkspaceIsNotShared == Spec => WorkspaceNotShared
<1>1. TaskInv /\ [Next]_vars => ((\E i \in Commands : proc[i] = "alive") /\ ws' # ws => ctl' = ctl)
    <2> SUFFICES ASSUME TaskInv, [Next]_vars, NEW i \in Commands, proc[i] = "alive", ws' # ws
                 PROVE  ctl' = ctl
        BY Zenon
    <2>1. i \in Unresolved
        BY AliveUnresolved DEF TaskInv
    <2>2. CASE PrepareWorkspace \/ Install
        <3>1. Place \in {"workspace", "install"}
            BY <2>2 DEF PrepareWorkspace, Install, At, Place, Closing
        <3> QED
            BY <2>1, <3>1 DEF TaskInv, LoopInOrder
    <2>3. CASE Retrieve
        BY <2>1, <2>3 DEF Retrieve
    <2>4. CASE Edit
        BY <2>4 DEF Edit
    <2>5. CASE Spawn \/ Apply \/ \E reply \in BOOLEAN : StartTurn(reply)
        BY <2>5 DEF Spawn, Apply, StartTurn
    <2> QED
        BY <2>2, <2>3, <2>4, <2>5, QuietSteps DEF LooseWork, Quiet
<1> QED
    BY <1>1, TaskInvariant, PTL DEF Spec, WorkspaceNotShared
=============================================================================
