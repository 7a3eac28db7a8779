--------------------------- MODULE EffectDelivery ---------------------------
(***************************************************************************)
(* The operation journal composed with what it exists for: a controller    *)
(* process that claims, sends, looks up and reconciles (the delivery part  *)
(* of ports/application.py advance_work_unit and of ports/verification.py  *)
(* dispatch_product_review), and a remote service that performs effects.   *)
(*                                                                         *)
(* Requests and answers may be lost, delayed, duplicated and reordered; the *)
(* process may crash between any two of its steps and restart on the same  *)
(* journal.  There is no message bag for the answers: the facts an answer  *)
(* reports never become false again, so an answer, however late or often   *)
(* repeated, may be observed whenever its fact holds.                      *)
(***************************************************************************)
EXTENDS OperationJournal

CONSTANT Idempotent   \* the effect keys whose service performs a key once

ASSUME DeliveryAssumption ==
    /\ Idempotent \subseteq EffectKeys
    /\ 0 \in Times
    /\ ObservationIds = Ops \X Fences \X Kinds

VARIABLES
    clock,      \* the controller's clock
    outgoing,   \* claims the running process holds and has not sent
    wire,       \* requests on their way to the remote service
    effects,    \* effects the service performed
    refusals,   \* deliveries the service refused
    handled,    \* deliveries the service performed or recognised
    lookups     \* lookup answers of "absent" the running process holds

remoteVars == <<wire, effects, refusals, handled>>
vars == <<journalVars, clock, outgoing, remoteVars, lookups>>

Delivery == Ops \X Fences
Effects  == [key : EffectKeys, request : Requests, reference : References, done : BOOLEAN]
Lookups  == [op : Ops, fence : Fences, authoritative : BOOLEAN]

Init ==
    /\ JournalInit
    /\ clock = 0
    /\ outgoing = {}
    /\ wire = {}
    /\ effects = {}
    /\ refusals = {}
    /\ handled = {}
    /\ lookups = {}

EffectsOf(o) == {e \in effects : e.key = effectKey[o]}

-----------------------------------------------------------------------------
(* The controller process. *)

\* The owner's command commits the intent (with its outbox row).
CommitIntent(o, key, req) ==
    /\ Intent(o, key, req)
    /\ UNCHANGED <<clock, outgoing, remoteVars, lookups>>

\* store.claim(): the delivery is durable before the request can leave.
ClaimDelivery(o) ==
    /\ Claim(o, clock)
    /\ outgoing' = outgoing \cup {<<o, fence[o] + 1>>}
    /\ UNCHANGED <<clock, remoteVars, lookups>>

\* runtime.start() or dispatcher.dispatch().
Send(o, f) ==
    /\ <<o, f>> \in outgoing
    /\ outgoing' = outgoing \ {<<o, f>>}
    /\ wire' = wire \cup {<<o, f>>}
    /\ UNCHANGED <<journalVars, clock, effects, refusals, handled, lookups>>

\* check_work_dispatch() raises between the claim and the send.
Abandon(o, f) ==
    /\ <<o, f>> \in outgoing
    /\ outgoing' = outgoing \ {<<o, f>>}
    /\ UNCHANGED <<journalVars, clock, remoteVars, lookups>>

\* The outcome of the dispatch call, as far as the transport saw it.
ReportTransport(o, f, succeeded) ==
    /\ <<o, f>> \notin outgoing
    /\ RecordTransport(o, f, succeeded)
    /\ UNCHANGED <<clock, outgoing, remoteVars, lookups>>

\* The effects a delivery can speak of: the one it caused, and the one the
\* operation already names and is polled by.
Known(o, f) == {e \in EffectsOf(o) : <<o, f>> \in handled \/ e.reference = reference[o]}

\* The answers that may have been sent for a delivery, with their references.
Reportable(o, f) ==
    {<<"unknown", None>>}
    \cup {<<"rejected", None>> : x \in {<<o, f>>} \cap refusals}
    \cup {<<k, e.reference>> : k \in {"accepted", "running", "waiting"}, e \in Known(o, f)}
    \cup {<<"terminal", e.reference>> : e \in {e \in Known(o, f) : e.done}}

\* A callback, a receipt or a poll for a delivery.
Report(o, f, answer) ==
    /\ <<o, f>> \notin outgoing
    /\ answer \in Reportable(o, f)
    /\ Observe(o, f, <<o, f, answer[1]>>, answer[1], answer[2])
    /\ UNCHANGED <<clock, outgoing, remoteVars, lookups>>

\* The caller looks up an uncertain delivery whose lease has run out.
Uncertain(o) == status[o] \in {"dispatched", "unknown"} /\ LeaseFree(o, clock)

\* The lookup shows no effect.  It is authoritative only if no request of the
\* operation can still arrive; any other "absent" is an incomplete lookup.
LookUpAbsent(o, authoritative) ==
    /\ Uncertain(o)
    /\ EffectsOf(o) = {}
    /\ authoritative => \A f \in Fences : <<o, f>> \notin outgoing \cup wire
    /\ lookups' = lookups \cup {[op |-> o, fence |-> fence[o], authoritative |-> authoritative]}
    /\ UNCHANGED <<journalVars, clock, outgoing, remoteVars>>

\* The caller reconciles with a lookup answer it has held since the lookup.
ReconcileAbsent(answer) ==
    /\ answer \in lookups
    /\ Reconcile(answer.op, answer.fence, "absent", clock, None, FALSE, answer.authoritative)
    /\ lookups' = lookups \ {answer}
    /\ UNCHANGED <<clock, outgoing, remoteVars>>

\* The lookup shows the effect.
ReconcileFound(o, e) ==
    /\ e \in EffectsOf(o)
    /\ Reconcile(o, fence[o], "found", clock, e.reference, e.request = request[o], FALSE)
    /\ UNCHANGED <<clock, outgoing, remoteVars, lookups>>

\* The service documents that it performs this effect key only once.
ReconcileIdempotent(o) ==
    /\ effectKey[o] \in Idempotent
    /\ Reconcile(o, fence[o], "idempotent", clock, None, TRUE, FALSE)
    /\ UNCHANGED <<clock, outgoing, remoteVars, lookups>>

\* The lookup does not answer.
ReconcileUnknown(o) ==
    /\ Reconcile(o, fence[o], "unknown", clock, None, FALSE, FALSE)
    /\ UNCHANGED <<clock, outgoing, remoteVars, lookups>>

\* The process dies and a new one opens the same journal.
Crash ==
    /\ outgoing # {} \/ lookups # {}
    /\ outgoing' = {}
    /\ lookups' = {}
    /\ UNCHANGED <<journalVars, clock, remoteVars>>

\* Time passes; it only matters while a lease is held, so MaxFence bounds it.
Tick ==
    /\ \E o \in Ops : ~LeaseFree(o, clock)
    /\ clock + 1 \in Times
    /\ clock' = clock + 1
    /\ UNCHANGED <<journalVars, outgoing, remoteVars, lookups>>

-----------------------------------------------------------------------------
(* The network and the remote service, known from how src/ uses them. *)

LoseRequest(o, f) ==
    /\ <<o, f>> \in wire
    /\ wire' = wire \ {<<o, f>>}
    /\ UNCHANGED <<journalVars, clock, outgoing, effects, refusals, handled, lookups>>

\* A service that performs a key once recognises the effect it has performed.
Recognised(o) == effectKey[o] \in Idempotent /\ EffectsOf(o) # {}

Perform(o, f, ref) ==
    /\ <<o, f>> \in wire
    /\ ~Recognised(o)
    /\ \A e \in effects : e.reference # ref
    /\ wire' = wire \ {<<o, f>>}
    /\ effects' = effects \cup
          {[key |-> effectKey[o], request |-> request[o], reference |-> ref, done |-> FALSE]}
    /\ handled' = handled \cup {<<o, f>>}
    /\ UNCHANGED <<journalVars, clock, outgoing, refusals, lookups>>

Recognise(o, f) ==
    /\ <<o, f>> \in wire
    /\ Recognised(o)
    /\ wire' = wire \ {<<o, f>>}
    /\ handled' = handled \cup {<<o, f>>}
    /\ UNCHANGED <<journalVars, clock, outgoing, effects, refusals, lookups>>

Refuse(o, f) ==
    /\ <<o, f>> \in wire
    /\ ~Recognised(o)
    /\ wire' = wire \ {<<o, f>>}
    /\ refusals' = refusals \cup {<<o, f>>}
    /\ UNCHANGED <<journalVars, clock, outgoing, effects, handled, lookups>>

Complete(e) ==
    /\ e \in effects /\ ~e.done
    /\ effects' = (effects \ {e}) \cup {[e EXCEPT !.done = TRUE]}
    /\ UNCHANGED <<journalVars, clock, outgoing, wire, refusals, handled, lookups>>

-----------------------------------------------------------------------------
Controller ==
    \/ \E o \in Ops, key \in EffectKeys, req \in Requests : CommitIntent(o, key, req)
    \/ \E o \in Ops : ClaimDelivery(o)
    \/ \E o \in Ops, f \in Fences : Send(o, f) \/ Abandon(o, f)
    \/ \E o \in Ops, f \in Fences, succeeded \in BOOLEAN : ReportTransport(o, f, succeeded)
    \/ \E o \in Ops, f \in Fences : \E answer \in Reportable(o, f) : Report(o, f, answer)
    \/ \E o \in Ops, authoritative \in BOOLEAN : LookUpAbsent(o, authoritative)
    \/ \E answer \in lookups : ReconcileAbsent(answer)
    \/ \E o \in Ops, e \in effects : ReconcileFound(o, e)
    \/ \E o \in Ops : ReconcileIdempotent(o) \/ ReconcileUnknown(o)
    \/ Crash
    \/ Tick

Remote ==
    \/ \E o \in Ops, f \in Fences : LoseRequest(o, f) \/ Recognise(o, f) \/ Refuse(o, f)
    \/ \E o \in Ops, f \in Fences, ref \in References : Perform(o, f, ref)
    \/ \E e \in effects : Complete(e)

Next == Controller \/ Remote

Spec == Init /\ [][Next]_vars

-----------------------------------------------------------------------------
\* Every piece of the composed state outside the journal has its type.
DeliveryTypeOK ==
    /\ clock \in Times
    /\ outgoing \subseteq Delivery
    /\ wire \subseteq Delivery
    /\ effects \subseteq Effects
    /\ refusals \subseteq Delivery
    /\ handled \subseteq Delivery
    /\ lookups \subseteq Lookups

\* What the journal says of the world is so: an operation with a reference has
\* that effect, of its own request; a terminal one has a completed effect; a
\* rejected one has none (unless an old request to a once-per-key service
\* outruns the refusal).
JournalTruthful ==
    \A o \in Ops :
        /\ reference[o] # None =>
              \E e \in EffectsOf(o) : /\ e.reference = reference[o]
                                      /\ e.request = request[o]
                                      /\ status[o] = "terminal" => e.done
        /\ status[o] = "rejected" /\ effectKey[o] \notin Idempotent => EffectsOf(o) = {}

\* The inductive strengthening of JournalTruthful, in parts.  Effect keys belong
\* to one operation each, and an effect is one of its owner's request, delivered.
EffectsOwned ==
    /\ \A o \in Ops : status[o] = "none" <=> effectKey[o] = None
    /\ \A o \in Ops : status[o] # "none" => request[o] \in Requests
    /\ \A o, p \in Ops : effectKey[o] = effectKey[p] /\ effectKey[o] # None => o = p
    /\ \A e \in effects : \E o \in Ops : /\ e.key = effectKey[o] /\ e.request = request[o]
                                        /\ fence[o] > 0
    /\ \A e, g \in effects : e.key = g.key => e = g

\* A delivery is in one place at a time, and belongs to a claimed fence, as does
\* every lookup answer.
DeliveriesPlaced ==
    /\ outgoing \cap wire = {} /\ outgoing \cap refusals = {} /\ wire \cap refusals = {}
    /\ \A d \in outgoing \cup wire \cup refusals : d[2] <= fence[d[1]]
    /\ \A l \in lookups : l.fence <= fence[l.op]

\* Nothing of the operation is on its way, and nothing was performed.
NoTrace(o) == EffectsOf(o) = {} /\ \A d \in outgoing \cup wire : d[1] # o

\* Without a once-per-key service only the current delivery can be under way, only
\* while there is no effect, and a retry waits until no trace of the last delivery is left.
OneDeliveryAtWork ==
    \A o \in Ops : effectKey[o] \notin Idempotent =>
        /\ \A d \in outgoing \cup wire : d[1] = o => d[2] = fence[o] /\ EffectsOf(o) = {}
        /\ <<o, fence[o]>> \in refusals \/ retryProof[o] # None => NoTrace(o)
        /\ \A l \in lookups : l.op = o /\ l.fence = fence[o] /\ l.authoritative => NoTrace(o)

RejectionsRefused == \A o \in Ops : status[o] = "rejected" => <<o, fence[o]>> \in refusals

DeliveryInv ==
    /\ DeliveryTypeOK /\ JournalInv
    /\ EffectsOwned /\ DeliveriesPlaced /\ OneDeliveryAtWork /\ RejectionsRefused
    /\ JournalTruthful

\* The refinement mapping to ExternalEffect: an effect key stands for the
\* operation that owns it.
OwnerOf(k) == {o \in Ops : effectKey[o] = k}

PerformedOf(k) == Cardinality({e \in effects : e.key = k})

AnswerOf(k) ==
    IF OwnerOf(k) = {} THEN "none"
    ELSE LET o == CHOOSE o \in OwnerOf(k) : TRUE
         IN  IF reference[o] # None THEN "acknowledged"
             ELSE IF status[o] = "rejected" THEN "refused" ELSE "requested"

EE == INSTANCE ExternalEffect WITH
        performed <- [k \in EffectKeys |-> PerformedOf(k)],
        answer    <- [k \in EffectKeys |-> AnswerOf(k)]

\* The journal, its callers and the service implement the abstract effect:
\* performed at most once, answered truthfully and for good.
EffectHappensOnce == EE!Spec

=============================================================================
