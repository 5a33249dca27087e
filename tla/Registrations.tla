--------------------------- MODULE Registrations ---------------------------
(***************************************************************************)
(* Registrations for one event: capacity, waitlist, payments and refunds   *)
(* (src/backend/internal/events/service.go, scheduler.go and the SQL of    *)
(* internal/db/queries/events.sql).                                        *)
(*                                                                         *)
(* A handler that runs in a transaction holding the event row lock is one  *)
(* action.  What the code does outside that lock is split where other      *)
(* handlers can come in between: Pay (check, then create and store the     *)
(* session), DenyRefund (read, then write), and every refund (Stripe call, *)
(* then finalization).  Stripe is the environment: sessions complete or    *)
(* expire, and webhook events are delivered in any order.                  *)
(*                                                                         *)
(* A payment intent is named by the checkout session that captured it.     *)
(* Clocks are abstracted to "has this instant passed".  The refund         *)
(* deadline may be moved by the organizer at any time, so whether a        *)
(* cancellation is inside the refund window is a free choice.              *)
(***************************************************************************)
EXTENDS Integers, FiniteSets

CONSTANTS
    Users,          \* players
    Regs,           \* ids of the rows of the registrations table
    Sessions,       \* Stripe checkout sessions that may be created
    EventIds,       \* tells apart the events Stripe sends about one fact
    NoUser,         \* owner of a row that was not inserted yet
    NoReg,          \* the row of a session that was not created yet
    NoSession,      \* a null checkout session or payment intent
    MaxCapacity     \* largest max_participants an event is given

ASSUME FiniteTables == IsFiniteSet(Regs)
ASSUME NullsAreNew ==
    NoUser \notin Users /\ NoReg \notin Regs /\ NoSession \notin Sessions
ASSUME MaxCapacityPositive == MaxCapacity \in Nat \ {0}

VARIABLES
    evStatus,        \* events.status
    hasFee,          \* events.fee_cents > 0
    maxParticipants, \* events.max_participants
    waitlistCounter, \* events.waitlist_counter
    owner,           \* registrations.user_id
    status,          \* registrations.status, "none" before the insert
    waitlistPos,     \* registrations.waitlist_pos, 0 for null
    windowOver,      \* registrations.expires_at <= now
    session,         \* registrations.stripe_checkout_session_id
    intent,          \* registrations.stripe_payment_intent_id
    sessReg,         \* client_reference_id: the row a session was created for
    sessState,       \* the session and its charge as Stripe knows them
    sessOver,        \* sessions whose expires_at has passed
    seen,            \* stripe_events: webhook events already processed
    refunds,         \* refunds started and not finalized (outside the event lock)
    denials,         \* DenyRefund calls between their read and their write
    staleDenial,     \* history: a denial has hit a row that holds a seat again
    ejected          \* history: rows an organizer has removed

eventVars  == <<evStatus, hasFee, maxParticipants, waitlistCounter>>
rowVars    == <<owner, status, waitlistPos, windowOver, session, intent>>
stripeVars == <<sessReg, sessState, sessOver>>
flightVars == <<refunds, denials, staleDenial, ejected>>
vars == <<eventVars, rowVars, stripeVars, seen, flightVars>>

EventStatuses == {"draft", "published", "started", "finished", "cancelled"}
Occupying     == {"pending_payment", "paid"}
Active        == Occupying \cup {"waitlisted", "refund_requested"}
Terminal      == {"cancelled", "refunded", "expired", "removed"}
RowStatuses   == Active \cup Terminal \cup {"none"}
SessionStates == {"unused", "creating", "open", "expired", "captured", "refunded"}
WebhookEvents == {"completed", "expired", "refunded"} \X Sessions \X EventIds
RefundKinds   == {"registration", "webhook", "cancelled_event", "duplicate"}
Refunds       == [reg : Regs, intent : Sessions, kind : RefundKinds, called : BOOLEAN]

-----------------------------------------------------------------------------
(* The registrations table *)

Rows(st, S)  == {r \in Regs : st[r] \in S}
Occupied(st) == Cardinality(Rows(st, Occupying))

ActiveRows(u) == {r \in Regs : owner[r] = u /\ status[r] \in Active}

\* Mutant: the waitlist served from its end.
Behind(st, r) ==
    {q \in Rows(st, {"waitlisted"}) : waitlistPos[q] > waitlistPos[r]}

\* Rows that NextWaitlisted would return before r.
Ahead(st, r) ==
    {q \in Rows(st, {"waitlisted"}) : waitlistPos[q] < waitlistPos[r]}

PromotionTarget == IF hasFee THEN "pending_payment" ELSE "paid"

\* promoteLocked: the free spots go to the first rows of the waitlist.
Promote(st) ==
    [r \in Regs |->
        IF /\ st[r] = "waitlisted"
           /\ Occupied(st) + Cardinality(Ahead(st, r)) < maxParticipants
        THEN PromotionTarget
        ELSE st[r]]

\* Every UPDATE of a status nulls the columns the new status does not use.
SetStatuses(st) ==
    /\ status' = st
    /\ waitlistPos' = [r \in Regs |-> IF st[r] = "waitlisted" THEN waitlistPos[r] ELSE 0]
    /\ windowOver' = [r \in Regs |-> st[r] = "pending_payment" /\ windowOver[r]]

SetStatus(r, s) == SetStatuses([status EXCEPT ![r] = s])

FreeSpot(r, s) == SetStatuses(Promote([status EXCEPT ![r] = s]))

HasSession(r) == session[r] # NoSession

\* Pay and the sweeper compare stripe_session_expires_at with now.
SessionLive(r) == HasSession(r) /\ session[r] \notin sessOver

Refund(r, s, k) == [reg |-> r, intent |-> s, kind |-> k, called |-> FALSE]

-----------------------------------------------------------------------------
Init ==
    /\ evStatus = "draft"
    /\ hasFee \in BOOLEAN
    /\ maxParticipants \in 1..MaxCapacity
    /\ waitlistCounter = 0
    /\ owner = [r \in Regs |-> NoUser]
    /\ status = [r \in Regs |-> "none"]
    /\ waitlistPos = [r \in Regs |-> 0]
    /\ windowOver = [r \in Regs |-> FALSE]
    /\ session = [r \in Regs |-> NoSession]
    /\ intent = [r \in Regs |-> NoSession]
    /\ sessReg = [s \in Sessions |-> NoReg]
    /\ sessState = [s \in Sessions |-> "unused"]
    /\ sessOver = {}
    /\ seen = {}
    /\ refunds = {}
    /\ denials = {}
    /\ staleDenial = FALSE
    /\ ejected = {}
-----------------------------------------------------------------------------
(* The event's lifecycle: Update and Transition *)

\* Update on a draft; a published event keeps its fee and its capacity.
UpdateDraft ==
    /\ evStatus = "draft"
    /\ hasFee' \in BOOLEAN
    /\ maxParticipants' \in 1..MaxCapacity
    /\ UNCHANGED <<evStatus, waitlistCounter, rowVars, stripeVars, seen, flightVars>>

Publish ==
    /\ evStatus = "draft"
    /\ evStatus' = "published"
    /\ UNCHANGED <<hasFee, maxParticipants, waitlistCounter, rowVars, stripeVars, seen, flightVars>>

\* closeRegistrationLocked ends every row that is not a paid seat.
CloseRow(st) ==
    CASE st = "pending_payment" -> "expired"
      [] st = "waitlisted"      -> "cancelled"
      [] OTHER                  -> st

Start ==
    /\ evStatus = "published"
    /\ evStatus' = "started"
    /\ SetStatuses([r \in Regs |-> CloseRow(status[r])])
    /\ UNCHANGED <<hasFee, maxParticipants, waitlistCounter, owner, session, intent,
                   stripeVars, seen, flightVars>>

\* finish: refused while a round is open, which Tournament decides.
Finish ==
    /\ evStatus = "started"
    /\ evStatus' = "finished"
    /\ UNCHANGED <<hasFee, maxParticipants, waitlistCounter, rowVars, stripeVars, seen, flightVars>>

\* Rows whose charge cancelEventLocked hands to refundCancelledEventRows.
Refundable == {r \in Rows(status, {"paid", "refund_requested"}) : intent[r] # NoSession}

\* cancel, and cancel again to retry the refunds that failed.
CancelEvent ==
    /\ evStatus \in {"published", "started", "cancelled"}
    /\ evStatus' = "cancelled"
    /\ SetStatuses([r \in Regs |->
           IF status[r] \in Active /\ r \notin Refundable THEN "cancelled" ELSE status[r]])
    /\ refunds' = refunds \cup {Refund(r, intent[r], "cancelled_event") : r \in Refundable}
    /\ UNCHANGED <<hasFee, maxParticipants, waitlistCounter, owner, session, intent,
                   stripeVars, seen, denials, staleDenial, ejected>>

-----------------------------------------------------------------------------
(* The player: Register, Pay, CancelRegistration *)

RegisterAs(u, r, s, pos) ==
    /\ evStatus = "published"
    /\ ActiveRows(u) = {}
    /\ status[r] = "none"
    /\ owner' = [owner EXCEPT ![r] = u]
    /\ status' = [status EXCEPT ![r] = s]
    /\ waitlistPos' = [waitlistPos EXCEPT ![r] = pos]
    /\ UNCHANGED <<evStatus, hasFee, maxParticipants, windowOver, session, intent,
                   stripeVars, seen, flightVars>>

RegisterWaitlisted(u, r) ==
    /\ Occupied(status) >= maxParticipants
    /\ waitlistCounter' = waitlistCounter + 1
    /\ RegisterAs(u, r, "waitlisted", waitlistCounter + 1)

RegisterInSpot(u, r) ==
    /\ Occupied(status) < maxParticipants
    /\ RegisterAs(u, r, PromotionTarget, 0)
    /\ UNCHANGED waitlistCounter

\* Pay up to the Stripe call: the unlocked reads and their checks.
PayCheck(r, s) ==
    /\ status[r] = "pending_payment"
    /\ ~windowOver[r]
    /\ ~SessionLive(r)
    /\ sessState[s] = "unused"
    /\ sessState' = [sessState EXCEPT ![s] = "creating"]
    /\ sessReg' = [sessReg EXCEPT ![s] = r]
    /\ UNCHANGED <<eventVars, rowVars, sessOver, seen, flightVars>>

\* Pay after it: the session exists and is stored, whatever the row is now.
PayStore(s) ==
    /\ sessState[s] = "creating"
    /\ sessState' = [sessState EXCEPT ![s] = "open"]
    /\ session' = [session EXCEPT ![sessReg[s]] = s]
    /\ UNCHANGED <<eventVars, owner, status, waitlistPos, windowOver, intent,
                   sessReg, sessOver, seen, flightVars>>

\* CreateCheckoutSession or the store failed: nobody received the URL.
PayFails(s) ==
    /\ sessState[s] = "creating"
    /\ sessState' = [sessState EXCEPT ![s] = "expired"]
    /\ UNCHANGED <<eventVars, rowVars, sessReg, sessOver, seen, flightVars>>

CancelWaitlisted(r) ==
    /\ evStatus = "published"
    /\ status[r] = "waitlisted"
    /\ SetStatus(r, "cancelled")
    /\ UNCHANGED <<eventVars, owner, session, intent, stripeVars, seen, flightVars>>

\* An unpaid seat, or a paid one with nothing to refund.
CancelUncharged(r) ==
    /\ evStatus = "published"
    /\ status[r] = "pending_payment" \/ (status[r] = "paid" /\ intent[r] = NoSession)
    /\ FreeSpot(r, "cancelled")
    /\ UNCHANGED <<eventVars, owner, session, intent, stripeVars, seen, flightVars>>

\* Inside the refund window the row keeps its seat until the refund is made.
CancelInWindow(r) ==
    /\ evStatus = "published"
    /\ status[r] = "paid"
    /\ intent[r] # NoSession
    /\ refunds' = refunds \cup {Refund(r, intent[r], "registration")}
    /\ UNCHANGED <<eventVars, rowVars, stripeVars, seen, denials, staleDenial, ejected>>

CancelPastDeadline(r) ==
    /\ evStatus = "published"
    /\ status[r] = "paid"
    /\ intent[r] # NoSession
    /\ FreeSpot(r, "refund_requested")
    /\ UNCHANGED <<eventVars, owner, session, intent, stripeVars, seen, flightVars>>

-----------------------------------------------------------------------------
(* The organizer: OrganizerRefund, RemoveRegistration, DenyRefund *)

OrganizerRefund(r) ==
    /\ r \in Refundable
    /\ refunds' = refunds \cup {Refund(r, intent[r], "registration")}
    /\ UNCHANGED <<eventVars, rowVars, stripeVars, seen, denials, staleDenial, ejected>>

Removable(r, keepPayment) ==
    \/ status[r] \in {"pending_payment", "waitlisted"}
    \/ status[r] = "paid" /\ (intent[r] = NoSession \/ keepPayment)

\* Ending the checkout session is a later, best-effort call: ExpireRemoved.
RemoveRegistration(r, keepPayment) ==
    /\ Removable(r, keepPayment)
    /\ FreeSpot(r, "removed")
    /\ ejected' = ejected \cup {r}
    /\ UNCHANGED <<eventVars, owner, session, intent, stripeVars, seen,
                   refunds, denials, staleDenial>>

\* Mutant: a refund is denied that was not requested.
DenyReadPaid(r) ==
    /\ status[r] \in {"paid", "refund_requested"}
    /\ denials' = denials \cup {r}
    /\ UNCHANGED <<eventVars, rowVars, stripeVars, seen, refunds, staleDenial, ejected>>

\* DenyRefund takes no lock: what it read may no longer hold when it writes,
\* and several calls may have read the same row.
DenyRead(r) ==
    /\ status[r] = "refund_requested"
    /\ denials' = denials \cup {r}
    /\ UNCHANGED <<eventVars, rowVars, stripeVars, seen, refunds, staleDenial, ejected>>

DenyWrite(r) ==
    /\ r \in denials
    /\ denials' \in {denials, denials \ {r}}
    /\ SetStatus(r, "cancelled")
    /\ staleDenial' = (staleDenial \/ status[r] \in Occupying)
    /\ UNCHANGED <<eventVars, owner, session, intent, stripeVars, seen, refunds, ejected>>

-----------------------------------------------------------------------------
(* Refunds outside the lock *)

\* RefundPaymentIntent succeeds.  A call that fails, or a process that dies
\* before making it, leaves the record in refunds for good.
CallRefund(t) ==
    /\ t \in refunds /\ ~t.called
    /\ sessState[t.intent] = "captured"
    /\ sessState' = [sessState EXCEPT ![t.intent] = "refunded"]
    /\ refunds' = (refunds \ {t}) \cup
                      IF t.kind = "duplicate" THEN {} ELSE {[t EXCEPT !.called = TRUE]}
    /\ UNCHANGED <<eventVars, rowVars, sessReg, sessOver, seen, denials, staleDenial, ejected>>

\* Mutant: the freed seat is not offered to the waitlist.
MarkRefundedOnly(r) == SetStatus(r, "refunded")

\* The row becomes 'refunded'; a seat it held goes to the waitlist.
MarkRefunded(r) ==
    IF status[r] \in Occupying THEN FreeSpot(r, "refunded") ELSE SetStatus(r, "refunded")

\* Mutant: the row is finalized without waiting for the Stripe call.
FinalizeFirst(t) ==
    /\ t \in refunds /\ t.kind \in {"registration", "webhook"}
    /\ refunds' = refunds \ {t}
    /\ MarkRefunded(t.reg)
    /\ UNCHANGED <<eventVars, owner, session, intent, stripeVars, seen, denials, staleDenial, ejected>>

\* refundRegistration and handleChargeRefunded: finalize under the event lock.
FinalizeRefund(t) ==
    /\ t \in refunds /\ t.called /\ t.kind \in {"registration", "webhook"}
    /\ refunds' = refunds \ {t}
    /\ MarkRefunded(t.reg)
    /\ UNCHANGED <<eventVars, owner, session, intent, stripeVars, seen, denials, staleDenial, ejected>>

\* refundCancelledEventRows: no lock, no re-read, no promotion.
FinalizeCancelledRow(t) ==
    /\ t \in refunds /\ t.called /\ t.kind = "cancelled_event"
    /\ refunds' = refunds \ {t}
    /\ SetStatus(t.reg, "refunded")
    /\ UNCHANGED <<eventVars, owner, session, intent, stripeVars, seen, denials, staleDenial, ejected>>

-----------------------------------------------------------------------------
(* Webhooks.  markSeen commits with the handler, so an event delivered again *)
(* is a stutter.  Stripe may also tell the same fact in a second event, with *)
(* an id of its own: that one is handled like the first.                     *)

MarkSeen(type, s) ==
    \E id \in EventIds :
        /\ <<type, s, id>> \notin seen
        /\ seen' = seen \cup {<<type, s, id>>}

Processed(type, s) == \E id \in EventIds : <<type, s, id>> \in seen

Completed(s) ==
    /\ sessState[s] \in {"captured", "refunded"}
    /\ MarkSeen("completed", s)

\* Mutant: the row is recorded as the intent.
RecordReference(r, s) ==
    /\ session' = [session EXCEPT ![r] = s]
    /\ intent' = [intent EXCEPT ![r] = r]

\* The paying session wins: its ids overwrite those of a sibling.
RecordPayment(r, s) ==
    /\ session' = [session EXCEPT ![r] = s]
    /\ intent' = [intent EXCEPT ![r] = s]

CompletedInTime(s) == LET r == sessReg[s] IN
    /\ Completed(s)
    /\ status[r] = "pending_payment"
    /\ RecordPayment(r, s)
    /\ SetStatus(r, "paid")
    /\ UNCHANGED <<eventVars, owner, stripeVars, flightVars>>

\* Mutant: the second charge is acknowledged and forgotten.
CompletedTwiceKept(s) ==
    /\ Completed(s)
    /\ status[sessReg[s]] \in {"paid", "refund_requested"}
    /\ UNCHANGED <<eventVars, rowVars, stripeVars, flightVars>>

\* The row already captured another intent: refund this one, keep the row.
CompletedTwice(s) == LET r == sessReg[s] IN
    /\ Completed(s)
    /\ status[r] \in {"paid", "refund_requested"}
    /\ IF intent[r] \in {NoSession, s}
       THEN RecordPayment(r, s) /\ UNCHANGED refunds
       ELSE /\ refunds' = refunds \cup {Refund(r, s, "duplicate")}
            /\ UNCHANGED <<session, intent>>
    /\ UNCHANGED <<eventVars, owner, status, waitlistPos, windowOver, stripeVars,
                   denials, staleDenial, ejected>>

\* Mutants: one condition of Reclaimable dropped.
ReclaimableOverCapacity(r) ==
    evStatus = "published" /\ ActiveRows(owner[r]) = {} /\ status[r] # "removed"
ReclaimableTwice(r) ==
    evStatus = "published" /\ Occupied(status) < maxParticipants /\ status[r] # "removed"
ReclaimableAnyTime(r) ==
    ActiveRows(owner[r]) = {} /\ Occupied(status) < maxParticipants /\ status[r] # "removed"

Reclaimable(r) ==
    /\ evStatus = "published"
    /\ Occupied(status) < maxParticipants
    /\ ActiveRows(owner[r]) = {}
    /\ status[r] # "removed"

\* A late payment: take a free spot back, or give the money back.
CompletedLate(s) == LET r == sessReg[s] IN
    /\ Completed(s)
    /\ status[r] \notin {"pending_payment", "paid", "refund_requested"}
    /\ RecordPayment(r, s)
    /\ IF Reclaimable(r)
       THEN SetStatus(r, "paid") /\ UNCHANGED refunds
       ELSE /\ refunds' = refunds \cup {Refund(r, s, "registration")}
            /\ UNCHANGED <<status, waitlistPos, windowOver>>
    /\ UNCHANGED <<eventVars, owner, stripeVars, denials, staleDenial, ejected>>

HandleCheckoutExpired(s) ==
    /\ sessState[s] = "expired"
    /\ MarkSeen("expired", s)
    /\ LET r == sessReg[s] IN
       IF session[r] = s /\ status[r] = "pending_payment"
       THEN FreeSpot(r, "expired")
       ELSE UNCHANGED <<status, waitlistPos, windowOver>>
    /\ UNCHANGED <<eventVars, owner, session, intent, stripeVars, flightVars>>

\* The row is looked up before the lock and its intent is not read again
\* after it: the transaction finalizes whatever the row has become.
HandleChargeRefunded(s) == LET r == sessReg[s] IN
    /\ sessState[s] = "refunded"
    /\ MarkSeen("refunded", s)
    /\ refunds' = IF intent[r] = s
                  THEN refunds \cup {[Refund(r, s, "webhook") EXCEPT !.called = TRUE]}
                  ELSE refunds
    /\ UNCHANGED <<eventVars, rowVars, stripeVars, denials, staleDenial, ejected>>

-----------------------------------------------------------------------------
(* The sweeper, and the environment: clocks, Stripe, the Stripe dashboard *)

\* Mutant: a stored session protects the row for ever.
OverdueUntouched == {r \in Rows(status, {"pending_payment"}) : windowOver[r] /\ ~HasSession(r)}

Overdue == {r \in Rows(status, {"pending_payment"}) : windowOver[r] /\ ~SessionLive(r)}

\* Sweep and expireAndPromote: the overdue rows are selected again by the
\* UPDATE under the lock.
Sweep ==
    /\ Overdue # {}
    /\ SetStatuses(Promote([r \in Regs |-> IF r \in Overdue THEN "expired" ELSE status[r]]))
    /\ UNCHANGED <<eventVars, owner, session, intent, stripeVars, seen, flightVars>>

WindowPasses(r) ==
    /\ status[r] = "pending_payment" /\ ~windowOver[r]
    /\ windowOver' = [windowOver EXCEPT ![r] = TRUE]
    /\ UNCHANGED <<eventVars, owner, status, waitlistPos, session, intent,
                   stripeVars, seen, flightVars>>

\* A session never ends before the payment window it was created in.  Its
\* end is seen by Stripe while it is open, by the code while the row waits.
SessionTimePasses(s) ==
    /\ sessState[s] \notin {"unused", "creating"} /\ s \notin sessOver
    /\ IF status[sessReg[s]] = "pending_payment"
       THEN windowOver[sessReg[s]]
       ELSE sessState[s] = "open"
    /\ sessOver' = sessOver \cup {s}
    /\ UNCHANGED <<eventVars, rowVars, sessReg, sessState, seen, flightVars>>

SetSession(s, from, to) ==
    /\ sessState[s] = from
    /\ sessState' = [sessState EXCEPT ![s] = to]
    /\ UNCHANGED <<eventVars, rowVars, sessReg, sessOver, seen, flightVars>>

CustomerPays(s)    == SetSession(s, "open", "captured")
StripeExpires(s)   == s \in sessOver /\ SetSession(s, "open", "expired")
DashboardRefund(s) == SetSession(s, "captured", "refunded")

\* The end of RemoveRegistration: ExpireCheckoutSession on the stored session.
ExpireRemoved(s) ==
    /\ sessReg[s] \in ejected /\ session[sessReg[s]] = s
    /\ SetSession(s, "open", "expired")

-----------------------------------------------------------------------------
Next ==
    \/ UpdateDraft \/ Publish \/ Start \/ Finish \/ CancelEvent \/ Sweep
    \/ \E u \in Users, r \in Regs : RegisterWaitlisted(u, r) \/ RegisterInSpot(u, r)
    \/ \E r \in Regs, s \in Sessions : PayCheck(r, s)
    \/ \E r \in Regs :
         \/ CancelWaitlisted(r) \/ CancelUncharged(r)
         \/ CancelInWindow(r) \/ CancelPastDeadline(r)
         \/ OrganizerRefund(r) \/ DenyRead(r) \/ DenyWrite(r) \/ WindowPasses(r)
         \/ \E keepPayment \in BOOLEAN : RemoveRegistration(r, keepPayment)
    \/ \E t \in refunds : CallRefund(t) \/ FinalizeRefund(t) \/ FinalizeCancelledRow(t)
    \/ \E s \in Sessions :
         \/ PayStore(s) \/ PayFails(s) \/ ExpireRemoved(s)
         \/ CustomerPays(s) \/ StripeExpires(s) \/ DashboardRefund(s) \/ SessionTimePasses(s)
         \/ CompletedInTime(s) \/ CompletedTwice(s) \/ CompletedLate(s)
         \/ HandleCheckoutExpired(s) \/ HandleChargeRefunded(s)

Spec == Init /\ [][Next]_vars

\* The sweeper's ticker, time, Stripe's deliveries until they are
\* acknowledged, and refund calls that Stripe accepts.
Fairness ==
    /\ WF_vars(Sweep)
    /\ \A r \in Regs : WF_vars(WindowPasses(r))
    /\ \A s \in Sessions :
         /\ WF_vars(SessionTimePasses(s))
         /\ WF_vars(/\ ~Processed("completed", s)
                    /\ CompletedInTime(s) \/ CompletedTwice(s) \/ CompletedLate(s))
    /\ \A t \in Refunds : WF_vars(CallRefund(t))

FairSpec == Spec /\ Fairness

-----------------------------------------------------------------------------
(* Properties: seats and the waitlist *)

\* Every column and every record of the environment has its type.
TypeOK ==
    /\ evStatus \in EventStatuses
    /\ hasFee \in BOOLEAN
    /\ maxParticipants \in 1..MaxCapacity
    /\ waitlistCounter \in Nat
    /\ owner \in [Regs -> Users \cup {NoUser}]
    /\ status \in [Regs -> RowStatuses]
    /\ waitlistPos \in [Regs -> Nat]
    /\ windowOver \in [Regs -> BOOLEAN]
    /\ session \in [Regs -> Sessions \cup {NoSession}]
    /\ intent \in [Regs -> Sessions \cup {NoSession}]
    /\ sessReg \in [Sessions -> Regs \cup {NoReg}]
    /\ sessState \in [Sessions -> SessionStates]
    /\ sessOver \subseteq Sessions
    /\ seen \subseteq WebhookEvents
    /\ refunds \subseteq Refunds
    /\ denials \subseteq Regs
    /\ staleDenial \in BOOLEAN
    /\ ejected \subseteq Regs

\* CountOccupiedSpots never exceeds max_participants, however registrations,
\* promotions and late payments interleave.
Capacity == Occupied(status) <= maxParticipants

\* waitlist_pos is set exactly while a row waits, and positions are never
\* reused: promotion order is a total order.
WaitlistPositions ==
    /\ \A r \in Regs : IF status[r] = "waitlisted"
                       THEN waitlistPos[r] \in 1..waitlistCounter
                       ELSE waitlistPos[r] = 0
    /\ \A r, q \in Rows(status, {"waitlisted"}) :
          waitlistPos[r] = waitlistPos[q] => r = q

\* No handler would trip over registrations_one_active_idx: a user has at most
\* one active row, also when a late payment takes an old row back.
OneActiveRow ==
    \A r, q \in Rows(status, Active) : owner[r] = owner[q] => r = q

\* Only a published event has unpaid seats and a waitlist: start and cancel
\* leave none behind and nothing brings one back.
ClosedRegistration ==
    evStatus # "published" => Rows(status, {"pending_payment", "waitlisted"}) = {}

\* promoteLocked leaves nobody waiting while a spot is free (violated: a
\* DenyRefund that writes late frees a seat without the lock or a promotion).
NoIdleSpot ==
    Rows(status, {"waitlisted"}) # {} => Occupied(status) >= maxParticipants

\* ... and that late write is the only way to an idle spot.
NoIdleSpotButStaleDenial == staleDenial \/ NoIdleSpot

\* The waitlist is first in, first out, and nobody who was not waiting takes a
\* seat over it, be it by registering or by paying late for an old row.
WaitlistIsFair == [][
    /\ \A r, q \in Rows(status, {"waitlisted"}) :
          waitlistPos[r] < waitlistPos[q] /\ status'[q] \in Occupying
             => status'[r] # "waitlisted"
    /\ \A r \in Regs :
          status[r] \notin Occupying \cup {"waitlisted"} /\ status'[r] \in Occupying
             => staleDenial \/ Rows(status, {"waitlisted"}) = {}
  ]_vars

\* The paid roster is what a tournament starts from: once the event is no
\* longer published, late payments and refunds can only shrink it.
RosterFrozen == [][
    evStatus' # "published" => Rows(status', {"paid"}) \subseteq Rows(status, {"paid"})
  ]_vars

\* A seat is not held unpaid for ever: the sweeper, the webhook or the player
\* ends every pending_payment row.
UnpaidSeatEnds ==
    \A r \in Regs : status[r] = "pending_payment" ~> status[r] # "pending_payment"

\* What the seat properties rest on: a draft has no rows and nothing under way,
\* a session that exists was created for a row, and the unlocked finalization
\* of refundCancelledEventRows only runs after the event was cancelled.
QuietDraft ==
    evStatus = "draft" =>
        /\ \A r \in Regs : status[r] = "none"
        /\ \A s \in Sessions : sessState[s] = "unused"
        /\ refunds = {} /\ denials = {}

SessionsHaveRows ==
    \A s \in Sessions : sessState[s] # "unused" => sessReg[s] \in Regs

CancelledRowRefunds ==
    \A t \in refunds : t.kind = "cancelled_event" => evStatus = "cancelled"

\* The inductive invariant: no step breaks all of this together.
SeatInvariant ==
    /\ TypeOK
    /\ Capacity /\ WaitlistPositions /\ OneActiveRow
    /\ ClosedRegistration /\ NoIdleSpotButStaleDenial
    /\ QuietDraft /\ SessionsHaveRows /\ CancelledRowRefunds

-----------------------------------------------------------------------------
(* Properties: money *)

\* The completion of s was processed and the charge was not given back.
Kept(s) == sessState[s] = "captured" /\ Processed("completed", s)
Owed(s) == \E t \in refunds : t.intent = s /\ ~t.called

\* No second session: the player never ran two Pay calls at once.
Sole(r) == \A s, z \in Sessions : sessReg[s] = r /\ sessReg[z] = r => s = z

\* The webhook is the only source of 'paid' on an event with a fee, and the
\* stored intent is a charge of this row.
PaidOnlyByCharge ==
    \A r \in Rows(status, {"paid"}) : hasFee =>
        /\ intent[r] # NoSession
        /\ sessReg[intent[r]] = r
        /\ Processed("completed", intent[r])

\* A row with one session never loses its charge: the money backs a seat, waits
\* for a decision, was kept by one, or is owed back.
SoleChargeAccounted ==
    \A s \in Sessions : Kept(s) /\ Sole(sessReg[s]) =>
        \/ Owed(s)
        \/ /\ intent[sessReg[s]] = s
           /\ status[sessReg[s]] \in {"paid", "refund_requested", "removed", "cancelled"}

\* A row with one session is only called refunded when Stripe gave the money back.
SoleRefundedHasMoney ==
    \A r \in Rows(status, {"refunded"}) : Sole(r) =>
        intent[r] # NoSession /\ sessState[intent[r]] = "refunded"

\* Completion events processed for a row: one, unless two sessions were paid or
\* Stripe sent a payment twice.
Payments(r) == {e \in seen : e[1] = "completed" /\ sessReg[e[2]] = r}

PaidAgain(r) == \E e, f \in Payments(r) : e # f

\* The unlocked DenyRefund takes a seat away only from a row that a second
\* completion brought back in between: the payment of a sibling session, or the
\* first payment under another event id.
StaleDenialNeedsSecondPayment == staleDenial => \E r \in Regs : PaidAgain(r)

\* Rows and money tell the same story, in both directions, while players are
\* promoted, displaced, removed and refunded and webhooks are repeated.
MoneyMatchesRow == PaidOnlyByCharge /\ SoleChargeAccounted /\ SoleRefundedHasMoney

\* A captured charge reaches its row when its webhook comes, or is refunded, if
\* Stripe answers: also when a second session pays a row that is already paid.
ChargeSettles ==
    \A s \in Sessions :
        (sessState[s] = "captured" /\ ~Processed("completed", s)) ~>
            (sessState[s] = "refunded" \/ \E r \in Regs : intent[r] = s)

-----------------------------------------------------------------------------
(* Statements of the comments and of the design that the code does not keep *)

\* "A removed row is never reclaimable": an ejected player is not reinstated
\* by a payment that lands afterwards.
EjectedStaysOut == \A r \in ejected : status[r] \notin Active

\* "Always record the intent so dashboard refunds stay traceable": a charge that
\* was kept is the one its row names.
ChargesTraceable ==
    \A s \in Sessions : Kept(s) => intent[sessReg[s]] = s \/ Owed(s)

\* A completed payment marks the row paid or is refunded: the charge a row
\* names is not kept while the row says expired or refunded.
SeatOrMoney ==
    \A s \in Sessions : Kept(s) /\ intent[sessReg[s]] = s =>
        status[sessReg[s]] \notin {"expired", "refunded"} \/ Owed(s)

\* Only an expired or cancelled row takes its spot back.
ReclaimsExpiredOrCancelled == [][
    \A r \in Rows(status, Terminal) :
        status'[r] = "paid" => status[r] \in {"expired", "cancelled"}
  ]_vars

\* A row that was refunded is not overwritten as a denied one: what it says of
\* the player's money stays true.
DenialKeepsMoney == [][
    \A r \in Rows(status, {"refunded"}) : status'[r] # "cancelled"
  ]_vars

\* A refund made in the Stripe dashboard reaches the row: once its webhook was
\* processed, no paid row rests on the refunded charge.
RefundReachesRow ==
    \A r \in Rows(status, {"paid"}) :
        intent[r] # NoSession /\ Processed("refunded", intent[r])
            => \E t \in refunds : t.reg = r /\ t.kind = "webhook"
=============================================================================
