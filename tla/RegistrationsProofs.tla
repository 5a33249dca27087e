------------------------- MODULE RegistrationsProofs -------------------------
(***************************************************************************)
(* Proofs about Registrations, for every set of users, rows and sessions   *)
(* and every capacity: typing, the seat invariant, and rows and money.     *)
(***************************************************************************)
EXTENDS Registrations, FiniteSetTheorems, WellFoundedInduction, TLAPS

-----------------------------------------------------------------------------
(* Sets of rows *)

LEMMA LeastNatural ==
    ASSUME NEW T \in SUBSET Nat, T # {}
    PROVE  \E n \in T : \A m \in T : n <= m
<1>1. PICK n \in T : \A m \in T : <<m, n>> \notin OpToRel(<, Nat)
    BY NatLessThanWellFounded, WFMin
<1>2. \A m \in T : ~(m < n)
    BY <1>1 DEF OpToRel
<1> QED
    BY <1>2

LEMMA RowsFinite ==
    ASSUME NEW S, NEW st
    PROVE  /\ IsFiniteSet(Rows(st, S))
           /\ Cardinality(Rows(st, S)) \in Nat
BY FiniteTables, FS_Subset, FS_CardinalityType DEF Rows

LEMMA OccupiedNat ==
    ASSUME NEW st
    PROVE  Occupied(st) \in Nat
BY RowsFinite DEF Occupied

\* Losing occupying rows does not raise the count.
LEMMA OccupiedMonotone ==
    ASSUME NEW st1, NEW st2, Rows(st1, Occupying) \subseteq Rows(st2, Occupying)
    PROVE  Occupied(st1) <= Occupied(st2)
BY RowsFinite, FS_Subset DEF Occupied

\* Gaining one row raises it by at most one.
LEMMA OccupiedOneMore ==
    ASSUME NEW st1, NEW st2, NEW r,
           Rows(st1, Occupying) \subseteq Rows(st2, Occupying) \cup {r}
    PROVE  Occupied(st1) <= Occupied(st2) + 1
<1>1. /\ IsFiniteSet(Rows(st2, Occupying) \cup {r})
      /\ Cardinality(Rows(st2, Occupying) \cup {r}) <= Occupied(st2) + 1
    BY RowsFinite, FS_AddElement, OccupiedNat DEF Occupied
<1>2. Cardinality(Rows(st1, Occupying)) <= Cardinality(Rows(st2, Occupying) \cup {r})
    BY <1>1, FS_Subset
<1> QED
    BY <1>1, <1>2, RowsFinite, FS_CardinalityType, OccupiedNat DEF Occupied

-----------------------------------------------------------------------------
(* Promote: what promoteLocked does to a table *)

Ordered(st) ==
    /\ waitlistPos \in [Regs -> Nat]
    /\ \A r, q \in Rows(st, {"waitlisted"}) : waitlistPos[r] = waitlistPos[q] => r = q

LEMMA AheadFinite ==
    ASSUME NEW st, NEW r
    PROVE  IsFiniteSet(Ahead(st, r)) /\ Cardinality(Ahead(st, r)) \in Nat
BY RowsFinite, FS_Subset, FS_CardinalityType DEF Ahead

\* A row keeps its status or moves from the waitlist to a seat.
LEMMA PromoteRow ==
    ASSUME NEW st \in [Regs -> RowStatuses]
    PROVE  /\ Promote(st) \in [Regs -> RowStatuses]
           /\ \A r \in Regs :
                 Promote(st)[r] = st[r]
                    \/ (st[r] = "waitlisted" /\ Promote(st)[r] \in Occupying)
BY DEF Promote, PromotionTarget, Occupying, RowStatuses, Active

Promoted(st) == {r \in Rows(st, {"waitlisted"}) :
                    Occupied(st) + Cardinality(Ahead(st, r)) < maxParticipants}

LEMMA PromotedSeats ==
    ASSUME NEW st \in [Regs -> RowStatuses]
    PROVE  /\ IsFiniteSet(Promoted(st))
           /\ Cardinality(Promoted(st)) \in Nat
           /\ Occupied(Promote(st)) = Occupied(st) + Cardinality(Promoted(st))
<1>1. IsFiniteSet(Promoted(st)) /\ Cardinality(Promoted(st)) \in Nat
    BY RowsFinite, FS_Subset, FS_CardinalityType DEF Promoted
<1>2. Rows(Promote(st), Occupying) = Rows(st, Occupying) \cup Promoted(st)
    BY DEF Rows, Promote, Promoted, PromotionTarget, Occupying
<1>3. Rows(st, Occupying) \cap Promoted(st) = {}
    BY DEF Rows, Promoted, Occupying
<1>4. Cardinality(Rows(st, Occupying) \cup Promoted(st))
          = Cardinality(Rows(st, Occupying)) + Cardinality(Promoted(st))
    <2>1. IsFiniteSet(Rows(st, Occupying)) /\ Cardinality(Rows(st, Occupying)) \in Nat
        BY RowsFinite
    <2>2. Cardinality(Rows(st, Occupying) \cup Promoted(st))
              = Cardinality(Rows(st, Occupying)) + Cardinality(Promoted(st)) - Cardinality({})
        BY <1>1, <1>3, <2>1, FS_Union
    <2> QED
        BY <1>1, <2>1, <2>2, FS_EmptySet
<1> QED
    BY <1>1, <1>2, <1>4 DEF Occupied

\* Promotion never fills more than the free seats: the last row promoted has
\* all the others ahead of it.
LEMMA PromoteFits ==
    ASSUME NEW st \in [Regs -> RowStatuses], Ordered(st),
           maxParticipants \in Nat, waitlistCounter \in Nat,
           \A r \in Rows(st, {"waitlisted"}) : waitlistPos[r] <= waitlistCounter,
           Occupied(st) <= maxParticipants
    PROVE  Occupied(Promote(st)) <= maxParticipants
<1>1. CASE Promoted(st) = {}
    BY <1>1, PromotedSeats, FS_EmptySet, OccupiedNat
<1>2. CASE Promoted(st) # {}
    <2> DEFINE Distance(r) == waitlistCounter - waitlistPos[r]
               D == {Distance(r) : r \in Promoted(st)}
    <2>1. \A r \in Promoted(st) : r \in Regs /\ waitlistPos[r] \in Nat /\ Distance(r) \in Nat
        BY DEF Promoted, Rows, Ordered
    <2>2. D \in SUBSET Nat /\ D # {}
        BY <1>2, <2>1
    <2> HIDE DEF D
    <2>3. PICK d \in D : \A m \in D : d <= m
        BY <2>2, LeastNatural
    <2>4. PICK last \in Promoted(st) : \A r \in Promoted(st) : waitlistPos[r] <= waitlistPos[last]
        <3>1. PICK last \in Promoted(st) : d = Distance(last)
            BY <2>3 DEF D
        <3>2. \A r \in Promoted(st) : Distance(last) <= Distance(r)
            BY <2>3, <3>1 DEF D
        <3> QED
            BY <2>1, <3>1, <3>2
    <2>5. Promoted(st) \subseteq Ahead(st, last) \cup {last}
        BY <2>1, <2>4 DEF Promoted, Ahead, Ordered
    <2>6. /\ IsFiniteSet(Ahead(st, last) \cup {last})
          /\ Cardinality(Ahead(st, last) \cup {last}) <= Cardinality(Ahead(st, last)) + 1
        BY AheadFinite, FS_AddElement
    <2>7. Cardinality(Promoted(st)) <= Cardinality(Ahead(st, last) \cup {last})
        BY <2>5, <2>6, FS_Subset
    <2>8. Occupied(st) + Cardinality(Ahead(st, last)) < maxParticipants
        BY DEF Promoted
    <2>9. Cardinality(Ahead(st, last) \cup {last}) \in Nat
        BY <2>6, FS_CardinalityType
    <2> QED
        BY <2>6, <2>7, <2>8, <2>9, PromotedSeats, OccupiedNat, AheadFinite
<1> QED
    BY <1>1, <1>2

\* Promotion stops only when the seats or the waitlist are used up: everyone
\* ahead of the first row left waiting was promoted.
LEMMA PromoteFills ==
    ASSUME NEW st \in [Regs -> RowStatuses], waitlistPos \in [Regs -> Nat],
           maxParticipants \in Nat,
           Rows(Promote(st), {"waitlisted"}) # {}
    PROVE  Occupied(Promote(st)) >= maxParticipants
<1> DEFINE Left == Rows(Promote(st), {"waitlisted"})
           P == {waitlistPos[r] : r \in Left}
<1>1. Left \subseteq Rows(st, {"waitlisted"}) \ Promoted(st)
    BY DEF Rows, Promote, Promoted, PromotionTarget
<1>2. Rows(st, {"waitlisted"}) \ Promoted(st) \subseteq Left
    BY DEF Rows, Promote, Promoted
<1>3. P \in SUBSET Nat /\ P # {}
    BY DEF Rows
<1> HIDE DEF P
<1>4. PICK p \in P : \A m \in P : p <= m
    BY <1>3, LeastNatural
<1>5. PICK first \in Left : \A r \in Left : waitlistPos[first] <= waitlistPos[r]
    BY <1>4 DEF P
<1>6. Ahead(st, first) \subseteq Promoted(st)
    BY <1>2, <1>5 DEF Ahead, Rows
<1>7. Cardinality(Ahead(st, first)) <= Cardinality(Promoted(st))
    BY <1>6, PromotedSeats, FS_Subset
<1>8. Occupied(st) + Cardinality(Ahead(st, first)) >= maxParticipants
    BY <1>1, <1>5, AheadFinite, OccupiedNat DEF Promoted
<1> QED
    BY <1>7, <1>8, PromotedSeats, AheadFinite, OccupiedNat

-----------------------------------------------------------------------------
(* Typing *)

USE DEF vars, eventVars, rowVars, stripeVars, flightVars

\* The columns that SetStatuses writes keep their types.
TableOK ==
    /\ status \in [Regs -> RowStatuses]
    /\ waitlistPos \in [Regs -> Nat]
    /\ windowOver \in [Regs -> BOOLEAN]

LEMMA SetStatusesType ==
    ASSUME TypeOK, NEW st \in [Regs -> RowStatuses], SetStatuses(st)
    PROVE  TableOK'
BY DEF SetStatuses, TypeOK, TableOK

LEMMA SetStatusType ==
    ASSUME TypeOK, NEW r, NEW s \in RowStatuses, SetStatus(r, s)
    PROVE  TableOK'
<1>1. [status EXCEPT ![r] = s] \in [Regs -> RowStatuses]
    BY DEF TypeOK
<1> QED
    BY <1>1, SetStatusesType DEF SetStatus

LEMMA FreeSpotType ==
    ASSUME TypeOK, NEW r, NEW s \in RowStatuses, FreeSpot(r, s)
    PROVE  TableOK'
<1>1. [status EXCEPT ![r] = s] \in [Regs -> RowStatuses]
    BY DEF TypeOK
<1> QED
    BY <1>1, PromoteRow, SetStatusesType DEF FreeSpot

LEMMA MarkRefundedType ==
    ASSUME TypeOK, NEW r, MarkRefunded(r)
    PROVE  TableOK'
<1>1. "refunded" \in RowStatuses
    BY DEF RowStatuses, Terminal
<1> QED
    BY <1>1, FreeSpotType, SetStatusType DEF MarkRefunded

EventOK ==
    /\ evStatus \in EventStatuses
    /\ hasFee \in BOOLEAN
    /\ maxParticipants \in 1..MaxCapacity
    /\ waitlistCounter \in Nat

IdsOK ==
    /\ owner \in [Regs -> Users \cup {NoUser}]
    /\ session \in [Regs -> Sessions \cup {NoSession}]
    /\ intent \in [Regs -> Sessions \cup {NoSession}]

StripeOK ==
    /\ sessReg \in [Sessions -> Regs \cup {NoReg}]
    /\ sessState \in [Sessions -> SessionStates]
    /\ sessOver \subseteq Sessions
    /\ SessionsHaveRows

FlightOK ==
    /\ seen \subseteq WebhookEvents
    /\ refunds \subseteq Refunds
    /\ denials \subseteq Regs
    /\ staleDenial \in BOOLEAN
    /\ ejected \subseteq Regs

TypeInvariant == EventOK /\ TableOK /\ IdsOK /\ StripeOK /\ FlightOK

LEMMA TypeParts == TypeInvariant <=> TypeOK /\ SessionsHaveRows
BY DEF TypeInvariant, TypeOK, EventOK, TableOK, IdsOK, StripeOK, FlightOK

LEMMA RefundType ==
    ASSUME NEW r \in Regs, NEW s \in Sessions, NEW k \in RefundKinds
    PROVE  /\ Refund(r, s, k) \in Refunds
           /\ [Refund(r, s, k) EXCEPT !.called = TRUE] \in Refunds
BY DEF Refund, Refunds

\* The session of a completion was created for a row, and recording it is typed.
LEMMA CompletedType ==
    ASSUME TypeInvariant, NEW s \in Sessions, Completed(s)
    PROVE  /\ sessReg[s] \in Regs
           /\ seen' \subseteq WebhookEvents
BY DEF TypeInvariant, StripeOK, FlightOK, SessionsHaveRows, Completed, MarkSeen, WebhookEvents

LEMMA RecordPaymentType ==
    ASSUME TypeOK, NEW r, NEW s \in Sessions, RecordPayment(r, s)
    PROVE  /\ session' \in [Regs -> Sessions \cup {NoSession}]
           /\ intent' \in [Regs -> Sessions \cup {NoSession}]
BY DEF TypeOK, RecordPayment

LEMMA TypeInit == Init => TypeInvariant
<1> SUFFICES ASSUME Init PROVE TypeInvariant
    OBVIOUS
<1>1. EventOK
    BY DEF Init, EventOK, EventStatuses
<1>2. TableOK
    BY DEF Init, TableOK, RowStatuses
<1>3. IdsOK
    BY DEF Init, IdsOK
<1>4. StripeOK
    BY DEF Init, StripeOK, SessionsHaveRows, SessionStates
<1>5. FlightOK
    BY DEF Init, FlightOK
<1> QED
    BY <1>1, <1>2, <1>3, <1>4, <1>5 DEF TypeInvariant

LEMMA TypeStep == TypeInvariant /\ [Next]_vars => TypeInvariant'
<1> SUFFICES ASSUME TypeInvariant, [Next]_vars
             PROVE  TypeInvariant'
    OBVIOUS
<1> USE DEF TypeInvariant
<1>0. EventOK /\ TableOK /\ IdsOK /\ StripeOK /\ FlightOK /\ TypeOK
    BY TypeParts
<1>1. /\ {"cancelled", "refunded", "expired", "removed", "paid", "waitlisted",
          "refund_requested", "pending_payment"} \subseteq RowStatuses
      /\ PromotionTarget \in RowStatuses
    BY DEF RowStatuses, Active, Occupying, Terminal, PromotionTarget
<1>2. CASE UpdateDraft
    BY <1>0, <1>2 DEF UpdateDraft, EventOK, TableOK, IdsOK, StripeOK, FlightOK, SessionsHaveRows
<1>3. CASE Publish
    BY <1>0, <1>3 DEF Publish, EventOK, EventStatuses, TableOK, IdsOK, StripeOK, FlightOK, SessionsHaveRows
<1>4. CASE Finish
    BY <1>0, <1>4 DEF Finish, EventOK, EventStatuses, TableOK, IdsOK, StripeOK, FlightOK, SessionsHaveRows
<1>5. CASE Start
    <2>1. [r \in Regs |-> CloseRow(status[r])] \in [Regs -> RowStatuses]
        BY <1>0, <1>1 DEF CloseRow, TypeOK
    <2>2. TableOK'
        BY <1>0, <1>5, <2>1, SetStatusesType DEF Start
    <2> QED
        BY <1>0, <1>5, <2>2 DEF Start, EventOK, EventStatuses, IdsOK, StripeOK, FlightOK, SessionsHaveRows
<1>6. CASE CancelEvent
    <2>1. [r \in Regs |-> IF status[r] \in Active /\ r \notin Refundable
                          THEN "cancelled" ELSE status[r]] \in [Regs -> RowStatuses]
        BY <1>0, <1>1 DEF TypeOK
    <2>2. TableOK'
        BY <1>0, <1>6, <2>1, SetStatusesType DEF CancelEvent
    <2>3. \A r \in Refundable : r \in Regs /\ intent[r] \in Sessions
        BY <1>0 DEF Refundable, Rows, TypeOK
    <2>4. {Refund(r, intent[r], "cancelled_event") : r \in Refundable} \subseteq Refunds
        BY <2>3, RefundType DEF RefundKinds
    <2> QED
        BY <1>0, <1>6, <2>2, <2>4
        DEF CancelEvent, EventOK, EventStatuses, IdsOK, StripeOK, FlightOK, SessionsHaveRows
<1>7. CASE Sweep
    <2>1. [r \in Regs |-> IF r \in Overdue THEN "expired" ELSE status[r]] \in [Regs -> RowStatuses]
        BY <1>0, <1>1 DEF TypeOK
    <2>2. TableOK'
        BY <1>0, <1>7, <2>1, PromoteRow, SetStatusesType DEF Sweep
    <2> QED
        BY <1>0, <1>7, <2>2 DEF Sweep, EventOK, IdsOK, StripeOK, FlightOK, SessionsHaveRows
<1>8. ASSUME NEW u \in Users, NEW r \in Regs, RegisterWaitlisted(u, r) \/ RegisterInSpot(u, r)
      PROVE  TypeInvariant'
    <2>1. TableOK' /\ EventOK' /\ owner' \in [Regs -> Users \cup {NoUser}]
        BY <1>0, <1>1, <1>8
        DEF RegisterWaitlisted, RegisterInSpot, RegisterAs, TableOK, EventOK, IdsOK
    <2> QED
        BY <1>0, <1>8, <2>1
        DEF RegisterWaitlisted, RegisterInSpot, RegisterAs, IdsOK, StripeOK, FlightOK, SessionsHaveRows
<1>9. ASSUME NEW r \in Regs, NEW s \in Sessions, PayCheck(r, s)
      PROVE  TypeInvariant'
    BY <1>0, <1>9 DEF PayCheck, EventOK, TableOK, IdsOK, StripeOK, SessionStates, SessionsHaveRows, FlightOK
<1>10. ASSUME NEW r \in Regs,
              CancelWaitlisted(r) \/ CancelUncharged(r) \/ CancelPastDeadline(r) \/ DenyWrite(r)
       PROVE  TypeInvariant'
    <2>1. TableOK'
        BY <1>0, <1>1, <1>10, SetStatusType, FreeSpotType
        DEF CancelWaitlisted, CancelUncharged, CancelPastDeadline, DenyWrite
    <2>2. FlightOK'
        BY <1>0, <1>10
        DEF CancelWaitlisted, CancelUncharged, CancelPastDeadline, DenyWrite, FlightOK
    <2> QED
        BY <1>0, <1>10, <2>1, <2>2
        DEF CancelWaitlisted, CancelUncharged, CancelPastDeadline, DenyWrite,
            EventOK, IdsOK, StripeOK, SessionsHaveRows
<1>11. ASSUME NEW r \in Regs, CancelInWindow(r) \/ OrganizerRefund(r)
       PROVE  TypeInvariant'
    <2>1. intent[r] \in Sessions
        BY <1>0, <1>11 DEF CancelInWindow, OrganizerRefund, Refundable, Rows, TypeOK
    <2>2. Refund(r, intent[r], "registration") \in Refunds
        BY <2>1, RefundType DEF RefundKinds
    <2> QED
        BY <1>0, <1>11, <2>2
        DEF CancelInWindow, OrganizerRefund, EventOK, TableOK, IdsOK, StripeOK, FlightOK, SessionsHaveRows
<1>12. ASSUME NEW r \in Regs, DenyRead(r) \/ WindowPasses(r)
       PROVE  TypeInvariant'
    BY <1>0, <1>12 DEF DenyRead, WindowPasses, EventOK, TableOK, IdsOK, StripeOK, FlightOK, SessionsHaveRows
<1>13. ASSUME NEW r \in Regs, NEW keepPayment \in BOOLEAN, RemoveRegistration(r, keepPayment)
       PROVE  TypeInvariant'
    <2>1. TableOK'
        BY <1>0, <1>1, <1>13, FreeSpotType DEF RemoveRegistration
    <2>2. StripeOK'
        BY <1>0, <1>13 DEF RemoveRegistration, StripeOK, SessionStates, SessionsHaveRows
    <2> QED
        BY <1>0, <1>13, <2>1, <2>2 DEF RemoveRegistration, EventOK, IdsOK, FlightOK
<1>14. ASSUME NEW t \in refunds, CallRefund(t)
       PROVE  TypeInvariant'
    <2>1. [t EXCEPT !.called = TRUE] \in Refunds
        BY <1>0 DEF FlightOK, Refunds
    <2>2. FlightOK'
        BY <1>0, <1>14, <2>1 DEF CallRefund, FlightOK
    <2>3. StripeOK'
        BY <1>0, <1>14 DEF CallRefund, StripeOK, SessionStates, SessionsHaveRows
    <2> QED
        BY <1>0, <1>14, <2>2, <2>3 DEF CallRefund, EventOK, TableOK, IdsOK
<1>15. ASSUME NEW t \in refunds, FinalizeRefund(t) \/ FinalizeCancelledRow(t)
       PROVE  TypeInvariant'
    <2>1. TableOK'
        BY <1>0, <1>1, <1>15, MarkRefundedType, SetStatusType DEF FinalizeRefund, FinalizeCancelledRow
    <2> QED
        BY <1>0, <1>15, <2>1
        DEF FinalizeRefund, FinalizeCancelledRow, EventOK, IdsOK, StripeOK, FlightOK, SessionsHaveRows
<1>16. ASSUME NEW s \in Sessions, PayStore(s)
       PROVE  TypeInvariant'
    <2>1. session' \in [Regs -> Sessions \cup {NoSession}]
        BY <1>0, <1>16 DEF PayStore, IdsOK
    <2>2. StripeOK'
        BY <1>0, <1>16 DEF PayStore, StripeOK, SessionStates, SessionsHaveRows
    <2> QED
        BY <1>0, <1>16, <2>1, <2>2 DEF PayStore, EventOK, TableOK, IdsOK, FlightOK
<1>17. ASSUME NEW s \in Sessions,
              \/ PayFails(s) \/ ExpireRemoved(s) \/ CustomerPays(s) \/ StripeExpires(s) \/ DashboardRefund(s) \/ SessionTimePasses(s)
       PROVE  TypeInvariant'
    <2>1. StripeOK'
        BY <1>0, <1>17
        DEF PayFails, CustomerPays, StripeExpires, DashboardRefund, ExpireRemoved, SetSession, SessionTimePasses,
            StripeOK, SessionStates, SessionsHaveRows
    <2> QED
        BY <1>0, <1>17, <2>1
        DEF PayFails, CustomerPays, StripeExpires, DashboardRefund, ExpireRemoved, SetSession, SessionTimePasses,
            EventOK, TableOK, IdsOK, FlightOK
<1>18. ASSUME NEW s \in Sessions, CompletedInTime(s)
       PROVE  TypeInvariant'
    <2>1. TableOK' /\ seen' \subseteq WebhookEvents
        BY <1>0, <1>1, <1>18, SetStatusType, CompletedType DEF CompletedInTime
    <2> QED
        BY <1>0, <1>18, <2>1, RecordPaymentType
        DEF CompletedInTime, EventOK, IdsOK, StripeOK, SessionsHaveRows, FlightOK
<1>19. ASSUME NEW s \in Sessions, CompletedTwice(s)
       PROVE  TypeInvariant'
    <2>1. seen' \subseteq WebhookEvents /\ Refund(sessReg[s], s, "duplicate") \in Refunds
        BY <1>0, <1>19, CompletedType, RefundType DEF CompletedTwice, RefundKinds
    <2>2. FlightOK'
        BY <1>0, <1>19, <2>1 DEF CompletedTwice, FlightOK
    <2>3. IdsOK'
        BY <1>0, <1>19, RecordPaymentType DEF CompletedTwice, IdsOK
    <2> QED
        BY <1>0, <1>19, <2>2, <2>3
        DEF CompletedTwice, EventOK, TableOK, StripeOK, SessionsHaveRows
<1>20. ASSUME NEW s \in Sessions, CompletedLate(s)
       PROVE  TypeInvariant'
    <2>1. seen' \subseteq WebhookEvents /\ Refund(sessReg[s], s, "registration") \in Refunds
        BY <1>0, <1>20, CompletedType, RefundType DEF CompletedLate, RefundKinds
    <2>2. FlightOK'
        BY <1>0, <1>20, <2>1 DEF CompletedLate, FlightOK
    <2>3. IdsOK'
        BY <1>0, <1>20, RecordPaymentType DEF CompletedLate, IdsOK
    <2>4. TableOK'
        BY <1>0, <1>1, <1>20, SetStatusType DEF CompletedLate, TableOK
    <2> QED
        BY <1>0, <1>20, <2>2, <2>3, <2>4
        DEF CompletedLate, EventOK, StripeOK, SessionsHaveRows
<1>21. ASSUME NEW s \in Sessions, HandleCheckoutExpired(s)
       PROVE  TypeInvariant'
    <2>1. TableOK'
        BY <1>0, <1>1, <1>21, FreeSpotType DEF HandleCheckoutExpired, TableOK
    <2>2. seen' \subseteq WebhookEvents
        BY <1>0, <1>21 DEF HandleCheckoutExpired, MarkSeen, WebhookEvents, FlightOK
    <2> QED
        BY <1>0, <1>21, <2>1, <2>2
        DEF HandleCheckoutExpired, EventOK, IdsOK, StripeOK, SessionsHaveRows, FlightOK
<1>22. ASSUME NEW s \in Sessions, HandleChargeRefunded(s)
       PROVE  TypeInvariant'
    <2>1. seen' \subseteq WebhookEvents /\ sessReg[s] \in Regs
        BY <1>0, <1>22 DEF HandleChargeRefunded, MarkSeen, WebhookEvents, FlightOK, StripeOK, SessionsHaveRows
    <2>2. [Refund(sessReg[s], s, "webhook") EXCEPT !.called = TRUE] \in Refunds
        BY <2>1, RefundType DEF RefundKinds
    <2> QED
        BY <1>0, <1>22, <2>1, <2>2
        DEF HandleChargeRefunded, EventOK, TableOK, IdsOK, StripeOK, SessionsHaveRows, FlightOK
<1>23. CASE UNCHANGED vars
    BY <1>0, <1>23 DEF EventOK, TableOK, IdsOK, StripeOK, FlightOK, SessionsHaveRows
<1> QED
    BY <1>2, <1>3, <1>4, <1>5, <1>6, <1>7, <1>8, <1>9, <1>10, <1>11, <1>12, <1>13, <1>14,
       <1>15, <1>16, <1>17, <1>18, <1>19, <1>20, <1>21, <1>22, <1>23 DEF Next

\* Typing holds in every reachable state, whatever the constants are.
THEOREM TypeCorrect == Spec => []TypeOK
<1>1. TypeInvariant => TypeOK
    BY TypeParts
<1> QED
    BY <1>1, TypeInit, TypeStep, PTL DEF Spec

-----------------------------------------------------------------------------
(* Seats: the lemmas about a step *)

Seats ==
    /\ Capacity /\ WaitlistPositions /\ OneActiveRow
    /\ ClosedRegistration /\ NoIdleSpotButStaleDenial

Background == QuietDraft /\ SessionsHaveRows /\ CancelledRowRefunds

LEMMA SeatParts == SeatInvariant <=> TypeOK /\ Seats /\ Background
BY DEF SeatInvariant, Seats, Background

\* Nothing about seats changes in a step that leaves the event and rows alone.
LEMMA SeatsUnchanged ==
    ASSUME Seats, UNCHANGED <<evStatus, maxParticipants, waitlistCounter, owner, status,
                              waitlistPos>>,
           staleDenial => staleDenial'
    PROVE  Seats'
BY DEF Seats, Capacity, WaitlistPositions, OneActiveRow, ClosedRegistration,
       NoIdleSpotButStaleDenial, NoIdleSpot, Occupied, Rows

\* st may follow status: rows keep their status or give up their seat, their
\* place in the waitlist, or both.
Vacates(st) ==
    /\ st \in [Regs -> RowStatuses]
    /\ \A r \in Regs : st[r] = status[r] \/ st[r] \notin Occupying \cup {"waitlisted"}
    /\ \A r \in Regs : st[r] \in Active => status[r] \in Active

Kept3 == UNCHANGED <<maxParticipants, waitlistCounter, owner>>

LEMMA VacatesOrdered ==
    ASSUME TypeOK, WaitlistPositions, NEW st, Vacates(st)
    PROVE  /\ Ordered(st)
           /\ \A r \in Rows(st, {"waitlisted"}) : waitlistPos[r] <= waitlistCounter
           /\ maxParticipants \in Nat
BY MaxCapacityPositive DEF TypeOK, WaitlistPositions, Vacates, Ordered, Rows

LEMMA VacatesFits ==
    ASSUME Capacity, TypeOK, NEW st, Vacates(st)
    PROVE  Occupied(st) <= maxParticipants
<1>1. Rows(st, Occupying) \subseteq Rows(status, Occupying)
    BY DEF Vacates, Rows
<1>2. maxParticipants \in Nat
    BY MaxCapacityPositive DEF TypeOK
<1> QED
    BY <1>1, <1>2, OccupiedMonotone, OccupiedNat DEF Capacity

\* Rows leave, the waitlist does not move up.
LEMMA VacateStep ==
    ASSUME TypeOK, Seats, NEW st, Vacates(st), SetStatuses(st), Kept3
    PROVE  Capacity' /\ WaitlistPositions' /\ OneActiveRow'
<1>1. status' = st /\ owner' = owner /\ waitlistCounter' = waitlistCounter
      /\ maxParticipants' = maxParticipants
      /\ waitlistPos' = [r \in Regs |-> IF st[r] = "waitlisted" THEN waitlistPos[r] ELSE 0]
    BY DEF SetStatuses, Kept3
<1>2. Capacity'
    BY <1>1, VacatesFits DEF Seats, Capacity, Occupied, Rows
<1>3. WaitlistPositions'
    BY <1>1 DEF TypeOK, Seats, WaitlistPositions, Vacates, Rows
<1>4. OneActiveRow'
    BY <1>1 DEF Seats, OneActiveRow, Vacates, Rows
<1> QED
    BY <1>2, <1>3, <1>4

\* Rows leave and promoteLocked gives the free spots away.
LEMMA PromoteStep ==
    ASSUME TypeOK, Seats, NEW st, Vacates(st), SetStatuses(Promote(st)), Kept3,
           UNCHANGED evStatus
    PROVE  Seats'
<1> DEFINE st2 == Promote(st)
<1>1. status' = st2 /\ owner' = owner /\ waitlistCounter' = waitlistCounter
      /\ maxParticipants' = maxParticipants
      /\ waitlistPos' = [r \in Regs |-> IF st2[r] = "waitlisted" THEN waitlistPos[r] ELSE 0]
    BY DEF SetStatuses, Kept3
<1>2. /\ st2 \in [Regs -> RowStatuses]
      /\ \A r \in Regs : st2[r] = st[r] \/ (st[r] = "waitlisted" /\ st2[r] \in Occupying)
    BY PromoteRow DEF Vacates
<1>3. Occupied(st2) <= maxParticipants
    BY VacatesOrdered, VacatesFits, PromoteFits DEF Seats, Vacates, TypeOK
<1>4. Rows(st2, {"waitlisted"}) # {} => Occupied(st2) >= maxParticipants
    BY VacatesOrdered, PromoteFills DEF Seats, Vacates, Ordered
<1> HIDE DEF st2
<1>5. Capacity'
    BY <1>1, <1>3 DEF Capacity, Occupied, Rows
<1>6. WaitlistPositions'
    BY <1>1, <1>2 DEF TypeOK, Seats, WaitlistPositions, Vacates, Rows, Occupying
<1>7. OneActiveRow'
    <2>1. \A r \in Regs : st2[r] \in Active => status[r] \in Active
        BY <1>2 DEF Vacates, Active
    <2> QED
        BY <1>1, <2>1 DEF Seats, OneActiveRow, Rows
<1>8. ClosedRegistration'
    BY <1>1, <1>2 DEF Seats, ClosedRegistration, Vacates, Rows, Occupying
<1>9. NoIdleSpotButStaleDenial'
    BY <1>1, <1>4 DEF NoIdleSpotButStaleDenial, NoIdleSpot, Occupied, Rows
<1> QED
    BY <1>5, <1>6, <1>7, <1>8, <1>9 DEF Seats

\* One row leaves.
LEMMA OneVacates ==
    ASSUME TypeOK, NEW r \in Regs, NEW s \in Terminal \cup {"refund_requested"},
           s = "refund_requested" => status[r] \in Active
    PROVE  Vacates([status EXCEPT ![r] = s])
BY DEF TypeOK, Vacates, Terminal, RowStatuses, Active, Occupying

LEMMA FreeSpotStep ==
    ASSUME TypeOK, Seats, NEW r \in Regs, NEW s \in Terminal \cup {"refund_requested"},
           s = "refund_requested" => status[r] \in Active,
           FreeSpot(r, s), Kept3, UNCHANGED evStatus
    PROVE  Seats'
BY OneVacates, PromoteStep DEF FreeSpot

\* A row that holds no seat leaves: nobody can move up.
LEMMA LeaveStep ==
    ASSUME TypeOK, Seats, NEW r \in Regs, status[r] \notin Occupying, NEW s \in Terminal,
           SetStatus(r, s), Kept3, UNCHANGED evStatus, staleDenial => staleDenial'
    PROVE  Seats'
<1> DEFINE st == [status EXCEPT ![r] = s]
<1>1. Vacates(st) /\ SetStatuses(st)
    BY OneVacates DEF SetStatus, Terminal
<1>2. Capacity' /\ WaitlistPositions' /\ OneActiveRow'
    BY <1>1, VacateStep
<1>3. status' = st /\ maxParticipants' = maxParticipants /\ evStatus' = evStatus
    BY <1>1 DEF SetStatuses, Kept3
<1>4. Rows(st, Occupying) = Rows(status, Occupying)
      /\ Rows(st, {"waitlisted"}) \subseteq Rows(status, {"waitlisted"})
    BY DEF Rows, TypeOK, Terminal, Occupying
<1>5. ClosedRegistration'
    BY <1>1, <1>3 DEF Seats, ClosedRegistration, Vacates, Rows, Occupying
<1>6. NoIdleSpotButStaleDenial'
    BY <1>3, <1>4 DEF Seats, NoIdleSpotButStaleDenial, NoIdleSpot, Occupied, Rows
<1> QED
    BY <1>2, <1>5, <1>6 DEF Seats

LEMMA MarkRefundedStep ==
    ASSUME TypeOK, Seats, NEW r \in Regs, MarkRefunded(r), Kept3, UNCHANGED evStatus,
           staleDenial => staleDenial'
    PROVE  Seats'
<1>1. "refunded" \in Terminal
    BY DEF Terminal
<1> QED
    BY <1>1, FreeSpotStep, LeaveStep DEF MarkRefunded

-----------------------------------------------------------------------------
(* What the seats rest on *)

\* While the event is a draft only the organizer acts.
LEMMA DraftSteps ==
    ASSUME QuietDraft, evStatus = "draft", Next
    PROVE  UpdateDraft \/ Publish
<1>1. /\ \A r \in Regs : status[r] = "none"
      /\ \A s \in Sessions : sessState[s] = "unused"
      /\ refunds = {} /\ denials = {}
    BY DEF QuietDraft
<1>2. ~Sweep
    BY <1>1 DEF Sweep, Overdue, Rows
<1>3. ~Start /\ ~Finish /\ ~CancelEvent
    BY DEF Start, Finish, CancelEvent
<1>4. ASSUME NEW u \in Users, NEW r \in Regs
      PROVE  ~RegisterWaitlisted(u, r) /\ ~RegisterInSpot(u, r)
    BY DEF RegisterWaitlisted, RegisterInSpot, RegisterAs
<1>5. ASSUME NEW r \in Regs
      PROVE  /\ ~CancelWaitlisted(r) /\ ~CancelUncharged(r) /\ ~CancelInWindow(r)
             /\ ~CancelPastDeadline(r) /\ ~OrganizerRefund(r) /\ ~DenyRead(r)
             /\ ~DenyWrite(r) /\ ~WindowPasses(r)
             /\ \A s \in Sessions : ~PayCheck(r, s)
             /\ \A keepPayment \in BOOLEAN : ~RemoveRegistration(r, keepPayment)
    BY <1>1 DEF CancelWaitlisted, CancelUncharged, CancelInWindow, CancelPastDeadline,
                OrganizerRefund, Refundable, Rows, DenyRead, DenyWrite, WindowPasses, PayCheck,
                RemoveRegistration, Removable
<1>6. ASSUME NEW s \in Sessions
      PROVE  /\ ~PayStore(s) /\ ~PayFails(s) /\ ~ExpireRemoved(s) /\ ~CustomerPays(s) /\ ~StripeExpires(s)
             /\ ~DashboardRefund(s) /\ ~SessionTimePasses(s) /\ ~CompletedInTime(s)
             /\ ~CompletedTwice(s) /\ ~CompletedLate(s) /\ ~HandleCheckoutExpired(s)
             /\ ~HandleChargeRefunded(s)
    BY <1>1 DEF PayStore, PayFails, CustomerPays, StripeExpires, DashboardRefund, ExpireRemoved, SetSession,
                SessionTimePasses, CompletedInTime, CompletedTwice, CompletedLate, Completed,
                HandleCheckoutExpired, HandleChargeRefunded
<1> QED
    BY <1>1, <1>2, <1>3, <1>4, <1>5, <1>6 DEF Next

\* Nothing leads back to a draft or out of a cancelled event.
LEMMA EventMoves ==
    ASSUME Next
    PROVE  /\ evStatus' = "draft" => evStatus = "draft"
           /\ evStatus = "cancelled" => evStatus' = "cancelled"
           /\ evStatus = "published" /\ evStatus' # "published" => Start \/ CancelEvent
<1>1. CASE UpdateDraft \/ Publish \/ Start \/ Finish \/ CancelEvent \/ Sweep
    BY <1>1 DEF UpdateDraft, Publish, Start, Finish, CancelEvent, Sweep
<1>2. ASSUME NEW u \in Users, NEW r \in Regs, RegisterWaitlisted(u, r) \/ RegisterInSpot(u, r)
      PROVE  UNCHANGED evStatus
    BY <1>2 DEF RegisterWaitlisted, RegisterInSpot, RegisterAs
<1>3. ASSUME NEW r \in Regs,
             \/ CancelWaitlisted(r) \/ CancelUncharged(r)
             \/ CancelInWindow(r) \/ CancelPastDeadline(r)
             \/ OrganizerRefund(r) \/ DenyRead(r) \/ DenyWrite(r) \/ WindowPasses(r)
             \/ \E s \in Sessions : PayCheck(r, s)
             \/ \E keepPayment \in BOOLEAN : RemoveRegistration(r, keepPayment)
      PROVE  UNCHANGED evStatus
    BY <1>3 DEF CancelWaitlisted, CancelUncharged, CancelInWindow, CancelPastDeadline,
                OrganizerRefund, DenyRead, DenyWrite, WindowPasses, PayCheck, RemoveRegistration
<1>4. ASSUME NEW t \in refunds, CallRefund(t) \/ FinalizeRefund(t) \/ FinalizeCancelledRow(t)
      PROVE  UNCHANGED evStatus
    BY <1>4 DEF CallRefund, FinalizeRefund, FinalizeCancelledRow
<1>5. ASSUME NEW s \in Sessions,
             \/ PayStore(s) \/ PayFails(s) \/ ExpireRemoved(s)
             \/ CustomerPays(s) \/ StripeExpires(s) \/ DashboardRefund(s) \/ SessionTimePasses(s)
             \/ CompletedInTime(s) \/ CompletedTwice(s) \/ CompletedLate(s)
             \/ HandleCheckoutExpired(s) \/ HandleChargeRefunded(s)
      PROVE  UNCHANGED evStatus
    BY <1>5 DEF PayStore, PayFails, CustomerPays, StripeExpires, DashboardRefund, ExpireRemoved, SetSession,
                SessionTimePasses, CompletedInTime, CompletedTwice, CompletedLate,
                HandleCheckoutExpired, HandleChargeRefunded
<1> QED
    BY <1>1, <1>2, <1>3, <1>4, <1>5 DEF Next

\* Only CancelEvent starts a refund that is finalized without the lock.
LEMMA RefundsStarted ==
    ASSUME Next, ~CancelEvent, NEW t \in refunds', t.kind = "cancelled_event"
    PROVE  \E q \in refunds : q.kind = "cancelled_event"
<1>1. CASE UpdateDraft \/ Publish \/ Start \/ Finish \/ Sweep
    BY <1>1 DEF UpdateDraft, Publish, Start, Finish, Sweep
<1>2. ASSUME NEW u \in Users, NEW r \in Regs, RegisterWaitlisted(u, r) \/ RegisterInSpot(u, r)
      PROVE  UNCHANGED refunds
    BY <1>2 DEF RegisterWaitlisted, RegisterInSpot, RegisterAs
<1>3. ASSUME NEW r \in Regs,
             \/ CancelWaitlisted(r) \/ CancelUncharged(r) \/ CancelPastDeadline(r)
             \/ DenyRead(r) \/ DenyWrite(r) \/ WindowPasses(r)
             \/ \E s \in Sessions : PayCheck(r, s)
             \/ \E keepPayment \in BOOLEAN : RemoveRegistration(r, keepPayment)
      PROVE  UNCHANGED refunds
    BY <1>3 DEF CancelWaitlisted, CancelUncharged, CancelPastDeadline,
                DenyRead, DenyWrite, WindowPasses, PayCheck, RemoveRegistration
<1>4. ASSUME NEW r \in Regs, CancelInWindow(r) \/ OrganizerRefund(r)
      PROVE  t \in refunds
    BY <1>4 DEF CancelInWindow, OrganizerRefund, Refund
<1>5. ASSUME NEW q \in refunds, CallRefund(q) \/ FinalizeRefund(q) \/ FinalizeCancelledRow(q)
      PROVE  \E p \in refunds : p.kind = "cancelled_event"
    <2>1. CASE t \in refunds
        BY <2>1
    <2>2. CASE t \notin refunds
        <3>1. t = [q EXCEPT !.called = TRUE]
            BY <1>5, <2>2 DEF CallRefund, FinalizeRefund, FinalizeCancelledRow
        <3>2. t.kind = q.kind
            BY <3>1
        <3> QED
            BY <3>2
    <2> QED
        BY <2>1, <2>2
<1>6. ASSUME NEW s \in Sessions,
             \/ PayStore(s) \/ PayFails(s) \/ ExpireRemoved(s)
             \/ CustomerPays(s) \/ StripeExpires(s) \/ DashboardRefund(s) \/ SessionTimePasses(s)
             \/ CompletedInTime(s) \/ HandleCheckoutExpired(s)
      PROVE  UNCHANGED refunds
    BY <1>6 DEF PayStore, PayFails, CustomerPays, StripeExpires, DashboardRefund, ExpireRemoved, SetSession,
                SessionTimePasses, CompletedInTime, HandleCheckoutExpired
<1>7. ASSUME NEW s \in Sessions, CompletedTwice(s) \/ CompletedLate(s) \/ HandleChargeRefunded(s)
      PROVE  t \in refunds
    BY <1>7 DEF CompletedTwice, CompletedLate, HandleChargeRefunded, Refund
<1> QED
    BY <1>1, <1>2, <1>3, <1>4, <1>5, <1>6, <1>7 DEF Next

LEMMA BackgroundStep ==
    ASSUME TypeOK, Background, [Next]_vars
    PROVE  Background'
<1>1. SessionsHaveRows'
    <2>1. TypeInvariant'
        BY TypeParts, TypeStep DEF Background
    <2> QED
        BY <2>1 DEF TypeInvariant, StripeOK
<1>2. QuietDraft'
    <2>1. CASE UNCHANGED vars
        BY <2>1 DEF Background, QuietDraft
    <2>2. CASE Next /\ evStatus' = "draft"
        <3>1. UpdateDraft
            BY <2>2, EventMoves, DraftSteps DEF Background, Publish
        <3> QED
            BY <2>2, <3>1, EventMoves DEF Background, QuietDraft, UpdateDraft
    <2> QED
        BY <2>1, <2>2 DEF QuietDraft
<1>3. CancelledRowRefunds'
    <2>1. CASE UNCHANGED vars
        BY <2>1 DEF Background, CancelledRowRefunds
    <2>2. CASE CancelEvent
        BY <2>2 DEF CancelEvent, CancelledRowRefunds
    <2>3. CASE Next /\ ~CancelEvent
        BY <2>3, RefundsStarted, EventMoves DEF Background, CancelledRowRefunds
    <2> QED
        BY <2>1, <2>2, <2>3
<1> QED
    BY <1>1, <1>2, <1>3 DEF Background

-----------------------------------------------------------------------------
(* Seats: the steps that take one *)

LEMMA RegisterStep ==
    ASSUME TypeOK, Seats, NEW u \in Users, NEW r \in Regs,
           RegisterWaitlisted(u, r) \/ RegisterInSpot(u, r)
    PROVE  Seats'
<1> DEFINE s == status'[r]
<1>1. /\ evStatus = "published" /\ ActiveRows(u) = {} /\ status[r] = "none"
      /\ owner' = [owner EXCEPT ![r] = u]
      /\ status' = [status EXCEPT ![r] = s]
      /\ UNCHANGED <<evStatus, maxParticipants, staleDenial>>
    BY DEF RegisterWaitlisted, RegisterInSpot, RegisterAs, TypeOK
<1>2. maxParticipants \in Nat /\ waitlistCounter \in Nat /\ waitlistPos \in [Regs -> Nat]
    BY MaxCapacityPositive DEF TypeOK
<1>3. CASE RegisterWaitlisted(u, r)
    <2>1. /\ Occupied(status) >= maxParticipants /\ s = "waitlisted"
          /\ waitlistCounter' = waitlistCounter + 1
          /\ waitlistPos' = [waitlistPos EXCEPT ![r] = waitlistCounter + 1]
        BY <1>3 DEF RegisterWaitlisted, RegisterAs, TypeOK
    <2>2. Rows(status', Occupying) = Rows(status, Occupying)
        BY <1>1, <2>1 DEF Rows, TypeOK, Occupying
    <2>3. Occupied(status') = Occupied(status)
        BY <2>2 DEF Occupied
    <2>4. WaitlistPositions'
        BY <1>1, <1>2, <2>1 DEF TypeOK, Seats, WaitlistPositions, Rows
    <2>5. Capacity' /\ NoIdleSpotButStaleDenial'
        BY <1>1, <2>1, <2>3
        DEF Seats, Capacity, NoIdleSpotButStaleDenial, NoIdleSpot, Occupied, Rows
    <2>6. OneActiveRow'
        BY <1>1 DEF TypeOK, Seats, OneActiveRow, ActiveRows, Rows
    <2> QED
        BY <1>1, <2>4, <2>5, <2>6 DEF Seats, ClosedRegistration
<1>4. CASE RegisterInSpot(u, r)
    <2>1. /\ Occupied(status) < maxParticipants /\ s = PromotionTarget
          /\ waitlistCounter' = waitlistCounter
          /\ waitlistPos' = [waitlistPos EXCEPT ![r] = 0]
        BY <1>4 DEF RegisterInSpot, RegisterAs, TypeOK
    <2>2. s \in Occupying
        BY <2>1 DEF PromotionTarget, Occupying
    <2>3. /\ Rows(status', Occupying) \subseteq Rows(status, Occupying) \cup {r}
          /\ Rows(status, Occupying) \subseteq Rows(status', Occupying)
          /\ Rows(status', {"waitlisted"}) = Rows(status, {"waitlisted"})
        BY <1>1, <2>2 DEF Rows, TypeOK, Occupying
    <2>4. /\ Occupied(status') <= Occupied(status) + 1
          /\ Occupied(status) <= Occupied(status')
        BY <2>3, OccupiedOneMore, OccupiedMonotone
    <2>5. WaitlistPositions'
        BY <1>1, <1>2, <2>1, <2>2 DEF TypeOK, Seats, WaitlistPositions, Rows, Occupying
    <2>6. Capacity'
        BY <1>1, <1>2, <2>1, <2>4, OccupiedNat DEF Capacity, Occupied, Rows
    <2>7. NoIdleSpotButStaleDenial'
        <3>1. NoIdleSpot => Rows(status', {"waitlisted"}) = {}
            BY <1>2, <2>1, <2>3, OccupiedNat DEF NoIdleSpot
        <3> QED
            BY <1>1, <3>1 DEF Seats, NoIdleSpotButStaleDenial, NoIdleSpot, Occupied, Rows
    <2>8. OneActiveRow'
        BY <1>1 DEF TypeOK, Seats, OneActiveRow, ActiveRows, Rows
    <2> QED
        BY <1>1, <2>5, <2>6, <2>7, <2>8 DEF Seats, ClosedRegistration
<1> QED
    BY <1>3, <1>4

\* A payment in time: the seat stays the row's, now paid.
LEMMA PaidStep ==
    ASSUME TypeOK, Seats, NEW r \in Regs, status[r] = "pending_payment",
           SetStatus(r, "paid"), Kept3, UNCHANGED <<evStatus, staleDenial>>
    PROVE  Seats'
<1>1. /\ status' = [status EXCEPT ![r] = "paid"]
      /\ waitlistPos' = [q \in Regs |-> IF status'[q] = "waitlisted" THEN waitlistPos[q] ELSE 0]
      /\ UNCHANGED <<maxParticipants, waitlistCounter, owner>>
    BY DEF SetStatus, SetStatuses, Kept3
<1>2. /\ Rows(status', Occupying) = Rows(status, Occupying)
      /\ Rows(status', {"waitlisted"}) = Rows(status, {"waitlisted"})
      /\ Rows(status', Active) = Rows(status, Active)
      /\ Rows(status', {"pending_payment", "waitlisted"})
            \subseteq Rows(status, {"pending_payment", "waitlisted"})
    BY <1>1 DEF Rows, TypeOK, Occupying, Active
<1>3. WaitlistPositions'
    BY <1>1 DEF TypeOK, Seats, WaitlistPositions, Rows
<1>4. Capacity' /\ NoIdleSpotButStaleDenial'
    BY <1>1, <1>2 DEF Seats, Capacity, NoIdleSpotButStaleDenial, NoIdleSpot, Occupied, Rows
<1>5. OneActiveRow'
    BY <1>1, <1>2 DEF Seats, OneActiveRow, Rows
<1>6. ClosedRegistration'
    BY <1>1, <1>2 DEF Seats, ClosedRegistration, Rows
<1> QED
    BY <1>3, <1>4, <1>5, <1>6 DEF Seats

\* A late payment takes a seat back: one is free, and its owner holds none.
LEMMA ReclaimStep ==
    ASSUME TypeOK, Seats, NEW r \in Regs, Reclaimable(r),
           status[r] # "waitlisted",
           SetStatus(r, "paid"), Kept3, UNCHANGED <<evStatus, staleDenial>>
    PROVE  Seats'
<1>1. /\ status' = [status EXCEPT ![r] = "paid"]
      /\ waitlistPos' = [q \in Regs |-> IF status'[q] = "waitlisted" THEN waitlistPos[q] ELSE 0]
      /\ UNCHANGED <<maxParticipants, waitlistCounter, owner>>
    BY DEF SetStatus, SetStatuses, Kept3
<1>2. /\ evStatus = "published" /\ Occupied(status) < maxParticipants
      /\ ActiveRows(owner[r]) = {} /\ maxParticipants \in Nat
    BY MaxCapacityPositive DEF Reclaimable, TypeOK
<1>3. /\ Rows(status', Occupying) \subseteq Rows(status, Occupying) \cup {r}
      /\ Rows(status, Occupying) \subseteq Rows(status', Occupying)
      /\ Rows(status', {"waitlisted"}) = Rows(status, {"waitlisted"})
    BY <1>1 DEF Rows, TypeOK, Occupying
<1>4. Occupied(status') <= Occupied(status) + 1
    BY <1>3, OccupiedOneMore
<1>5. WaitlistPositions'
    BY <1>1 DEF TypeOK, Seats, WaitlistPositions, Rows
<1>6. Capacity'
    <2>1. Occupied(status') <= maxParticipants
        BY <1>2, <1>4, OccupiedNat
    <2> QED
        BY <1>1, <2>1 DEF Capacity, Occupied, Rows
<1>7. NoIdleSpotButStaleDenial'
    <2>1. NoIdleSpot => Rows(status', {"waitlisted"}) = {}
        BY <1>2, <1>3, OccupiedNat DEF NoIdleSpot
    <2> QED
        BY <1>1, <2>1 DEF Seats, NoIdleSpotButStaleDenial, NoIdleSpot, Occupied, Rows
<1>8. OneActiveRow'
    BY <1>1, <1>2 DEF TypeOK, Seats, OneActiveRow, ActiveRows, Rows
<1>9. ClosedRegistration'
    BY <1>2 DEF ClosedRegistration
<1> QED
    BY <1>5, <1>6, <1>7, <1>8, <1>9 DEF Seats

\* Rows leave in a step after which nobody may be waiting.
LEMMA CloseStep ==
    ASSUME TypeOK, Seats, NEW st, Vacates(st), SetStatuses(st), Kept3,
           Rows(st, {"pending_payment", "waitlisted"}) = {}
    PROVE  Seats'
<1>1. status' = st
    BY DEF SetStatuses
<1>2. Rows(st, {"waitlisted"}) = {}
    BY DEF Rows
<1>3. ClosedRegistration' /\ NoIdleSpotButStaleDenial'
    BY <1>1, <1>2 DEF ClosedRegistration, NoIdleSpotButStaleDenial, NoIdleSpot, Rows
<1> QED
    BY <1>3, VacateStep DEF Seats

-----------------------------------------------------------------------------
(* Seats: the step of every action *)

\* Steps that leave every column of the seats alone.
SeatsKept ==
    /\ UNCHANGED <<evStatus, maxParticipants, waitlistCounter, owner, status, waitlistPos>>
    /\ staleDenial => staleDenial'

LEMMA OrganizerStep ==
    ASSUME TypeOK, Seats, Background,
           UpdateDraft \/ Publish \/ Start \/ Finish \/ CancelEvent \/ Sweep
    PROVE  Seats'
<1>1. CASE UpdateDraft \/ Publish
    <2>1. /\ \A r \in Regs : status[r] = "none"
          /\ maxParticipants' \in Nat
          /\ UNCHANGED <<waitlistCounter, owner, status, waitlistPos, staleDenial>>
        BY <1>1, MaxCapacityPositive DEF Background, QuietDraft, UpdateDraft, Publish, TypeOK
    <2>2. Rows(status', Active) = {} /\ Rows(status', Occupying) = {}
        BY <2>1 DEF Rows, Active, Occupying
    <2>3. Occupied(status') = 0
        BY <2>2, FS_EmptySet DEF Occupied
    <2>4. Rows(status', {"pending_payment", "waitlisted"}) = {}
          /\ Rows(status', {"waitlisted"}) = {}
        BY <2>1 DEF Rows
    <2>5. Capacity' /\ OneActiveRow'
        BY <2>1, <2>2, <2>3 DEF Capacity, OneActiveRow, Occupied, Rows
    <2>6. WaitlistPositions'
        BY <2>1 DEF Seats, WaitlistPositions, Rows
    <2>7. ClosedRegistration' /\ NoIdleSpotButStaleDenial'
        BY <2>4 DEF ClosedRegistration, NoIdleSpotButStaleDenial, NoIdleSpot, Rows
    <2> QED
        BY <2>5, <2>6, <2>7 DEF Seats
<1>2. CASE Start
    <2> DEFINE st == [r \in Regs |-> CloseRow(status[r])]
    <2>1. SetStatuses(st) /\ Kept3
        BY <1>2 DEF Start, Kept3
    <2>2. Vacates(st)
        BY DEF Vacates, CloseRow, TypeOK, RowStatuses, Active, Occupying, Terminal
    <2>3. Rows(st, {"pending_payment", "waitlisted"}) = {}
        BY DEF Rows, CloseRow
    <2> HIDE DEF st
    <2> QED
        BY <2>1, <2>2, <2>3, CloseStep
<1>3. CASE Finish
    BY <1>3 DEF Finish, Seats, Capacity, WaitlistPositions, OneActiveRow, ClosedRegistration,
                NoIdleSpotButStaleDenial, NoIdleSpot, Occupied, Rows
<1>4. CASE CancelEvent
    <2> DEFINE st == [r \in Regs |-> IF status[r] \in Active /\ r \notin Refundable
                                     THEN "cancelled" ELSE status[r]]
    <2>1. SetStatuses(st) /\ Kept3
        BY <1>4 DEF CancelEvent, Kept3
    <2>2. Vacates(st)
        BY DEF Vacates, TypeOK, RowStatuses, Active, Occupying, Terminal
    <2>3. Rows(st, {"pending_payment", "waitlisted"}) = {}
        BY DEF Rows, Refundable, Active, Occupying
    <2> HIDE DEF st
    <2> QED
        BY <2>1, <2>2, <2>3, CloseStep
<1>5. CASE Sweep
    <2> DEFINE st == [r \in Regs |-> IF r \in Overdue THEN "expired" ELSE status[r]]
    <2>1. SetStatuses(Promote(st)) /\ Kept3 /\ UNCHANGED evStatus
        BY <1>5 DEF Sweep, Kept3
    <2>2. Vacates(st)
        BY DEF Vacates, TypeOK, RowStatuses, Active, Occupying, Terminal
    <2> HIDE DEF st
    <2> QED
        BY <2>1, <2>2, PromoteStep
<1> QED
    BY <1>1, <1>2, <1>3, <1>4, <1>5

LEMMA RowStep ==
    ASSUME TypeOK, Seats, NEW r \in Regs,
           \/ CancelWaitlisted(r) \/ CancelUncharged(r)
           \/ CancelInWindow(r) \/ CancelPastDeadline(r)
           \/ OrganizerRefund(r) \/ DenyRead(r) \/ DenyWrite(r) \/ WindowPasses(r)
           \/ \E s \in Sessions : PayCheck(r, s)
           \/ \E keepPayment \in BOOLEAN : RemoveRegistration(r, keepPayment)
    PROVE  Seats'
<1>1. {"cancelled", "removed"} \subseteq Terminal
    BY DEF Terminal
<1>2. CASE CancelWaitlisted(r)
    <2>1. /\ status[r] = "waitlisted" /\ SetStatus(r, "cancelled")
          /\ Kept3 /\ UNCHANGED <<evStatus, staleDenial>>
        BY <1>2 DEF CancelWaitlisted, Kept3
    <2>2. status[r] \notin Occupying
        BY <2>1 DEF Occupying
    <2> QED
        BY <1>1, <2>1, <2>2, LeaveStep
<1>3. CASE CancelUncharged(r)
    BY <1>1, <1>3, FreeSpotStep DEF CancelUncharged, Kept3
<1>4. CASE CancelPastDeadline(r)
    <2>1. status[r] \in Active
        BY <1>4 DEF CancelPastDeadline, Active, Occupying
    <2> QED
        BY <1>4, <2>1, FreeSpotStep DEF CancelPastDeadline, Kept3
<1>5. CASE \E keepPayment \in BOOLEAN : RemoveRegistration(r, keepPayment)
    BY <1>1, <1>5, FreeSpotStep DEF RemoveRegistration, Kept3
<1>6. CASE DenyWrite(r)
    <2>1. /\ SetStatus(r, "cancelled") /\ Kept3 /\ UNCHANGED evStatus
          /\ staleDenial' = (staleDenial \/ status[r] \in Occupying)
        BY <1>6 DEF DenyWrite, Kept3
    <2>2. CASE status[r] \notin Occupying
        BY <1>1, <2>1, <2>2, LeaveStep
    <2>3. CASE status[r] \in Occupying
        <3> DEFINE st == [status EXCEPT ![r] = "cancelled"]
        <3>1. SetStatuses(st) /\ Vacates(st)
            BY <1>1, <2>1, OneVacates DEF SetStatus
        <3>2. Capacity' /\ WaitlistPositions' /\ OneActiveRow'
            BY <2>1, <3>1, VacateStep
        <3>3. ClosedRegistration'
            BY <2>1, <3>1 DEF SetStatuses, Seats, ClosedRegistration, Vacates, Rows, Occupying
        <3>4. NoIdleSpotButStaleDenial'
            BY <2>1, <2>3 DEF NoIdleSpotButStaleDenial
        <3> QED
            BY <3>2, <3>3, <3>4 DEF Seats
    <2> QED
        BY <2>2, <2>3
<1>7. CASE \/ CancelInWindow(r) \/ OrganizerRefund(r) \/ DenyRead(r) \/ WindowPasses(r)
           \/ \E s \in Sessions : PayCheck(r, s)
    <2>1. SeatsKept
        BY <1>7 DEF SeatsKept, CancelInWindow, OrganizerRefund, DenyRead, WindowPasses, PayCheck
    <2> QED
        BY <2>1, SeatsUnchanged DEF SeatsKept
<1> QED
    BY <1>2, <1>3, <1>4, <1>5, <1>6, <1>7

LEMMA RefundStep ==
    ASSUME TypeOK, Seats, Background, NEW t \in refunds,
           CallRefund(t) \/ FinalizeRefund(t) \/ FinalizeCancelledRow(t)
    PROVE  Seats'
<1>1. t.reg \in Regs
    BY DEF TypeOK, Refunds
<1>2. CASE CallRefund(t)
    BY <1>2, SeatsUnchanged DEF CallRefund
<1>3. CASE FinalizeRefund(t)
    BY <1>1, <1>3, MarkRefundedStep DEF FinalizeRefund, Kept3
<1>4. CASE FinalizeCancelledRow(t)
    <2> DEFINE st == [status EXCEPT ![t.reg] = "refunded"]
    <2>1. /\ SetStatuses(st) /\ Kept3 /\ evStatus = "cancelled"
        BY <1>4 DEF FinalizeCancelledRow, SetStatus, Kept3, Background, CancelledRowRefunds
    <2>2. Vacates(st)
        BY <1>1, OneVacates DEF Terminal
    <2>3. Rows(st, {"pending_payment", "waitlisted"}) = {}
        BY <2>1, <2>2 DEF Seats, ClosedRegistration, Rows, Vacates, Occupying
    <2> HIDE DEF st
    <2> QED
        BY <2>1, <2>2, <2>3, CloseStep
<1> QED
    BY <1>2, <1>3, <1>4

LEMMA SessionStep ==
    ASSUME TypeOK, Seats, Background, NEW s \in Sessions,
           \/ PayStore(s) \/ PayFails(s) \/ ExpireRemoved(s)
           \/ CustomerPays(s) \/ StripeExpires(s) \/ DashboardRefund(s) \/ SessionTimePasses(s)
           \/ CompletedInTime(s) \/ CompletedTwice(s) \/ CompletedLate(s)
           \/ HandleCheckoutExpired(s) \/ HandleChargeRefunded(s)
    PROVE  Seats'
<1>1. CASE \/ PayStore(s) \/ PayFails(s) \/ ExpireRemoved(s) \/ CustomerPays(s) \/ StripeExpires(s)
           \/ DashboardRefund(s) \/ SessionTimePasses(s) \/ CompletedTwice(s)
           \/ HandleChargeRefunded(s)
    <2>1. SeatsKept
        BY <1>1 DEF SeatsKept, PayStore, PayFails, CustomerPays, StripeExpires, DashboardRefund,
                    ExpireRemoved, SetSession, SessionTimePasses, CompletedTwice, HandleChargeRefunded
    <2> QED
        BY <2>1, SeatsUnchanged DEF SeatsKept
<1>2. CASE CompletedInTime(s)
    <2>1. sessReg[s] \in Regs
        BY <1>2 DEF CompletedInTime, Completed, Background, SessionsHaveRows
    <2> QED
        BY <1>2, <2>1, PaidStep DEF CompletedInTime, Kept3
<1>3. CASE CompletedLate(s)
    <2>1. sessReg[s] \in Regs
        BY <1>3 DEF CompletedLate, Completed, Background, SessionsHaveRows
    <2>2. CASE Reclaimable(sessReg[s])
        <3>1. /\ SetStatus(sessReg[s], "paid") /\ Kept3 /\ UNCHANGED <<evStatus, staleDenial>>
            BY <1>3, <2>2 DEF CompletedLate, Kept3
        <3>2. status[sessReg[s]] # "waitlisted"
            BY <2>1, <2>2 DEF Reclaimable, ActiveRows, Active
        <3> QED
            BY <2>1, <2>2, <3>1, <3>2, ReclaimStep
    <2>3. CASE ~Reclaimable(sessReg[s])
        BY <1>3, <2>3, SeatsUnchanged DEF CompletedLate
    <2> QED
        BY <2>2, <2>3
<1>4. CASE HandleCheckoutExpired(s)
    <2>1. sessReg[s] \in Regs
        BY <1>4 DEF HandleCheckoutExpired, Background, SessionsHaveRows
    <2>2. CASE FreeSpot(sessReg[s], "expired")
        BY <1>4, <2>1, <2>2, FreeSpotStep DEF HandleCheckoutExpired, Kept3, Terminal
    <2>3. CASE UNCHANGED <<status, waitlistPos, windowOver>>
        BY <1>4, <2>3, SeatsUnchanged DEF HandleCheckoutExpired
    <2> QED
        BY <1>4, <2>2, <2>3 DEF HandleCheckoutExpired
<1> QED
    BY <1>1, <1>2, <1>3, <1>4

LEMMA SeatsInit == Init => SeatInvariant
<1> SUFFICES ASSUME Init PROVE SeatInvariant
    OBVIOUS
<1>1. TypeOK
    BY TypeInit, TypeParts
<1>2. /\ \A S \in {Active, Occupying, {"waitlisted"}, {"pending_payment", "waitlisted"}} :
            Rows(status, S) = {}
      /\ maxParticipants \in Nat
    BY <1>1, MaxCapacityPositive DEF Init, Rows, Active, Occupying, TypeOK
<1>3. Occupied(status) = 0
    BY <1>2, FS_EmptySet DEF Occupied
<1>4. Capacity /\ OneActiveRow /\ ClosedRegistration /\ NoIdleSpotButStaleDenial
    BY <1>2, <1>3 DEF Capacity, OneActiveRow, ClosedRegistration, NoIdleSpotButStaleDenial, NoIdleSpot
<1>5. WaitlistPositions
    BY <1>2 DEF Init, WaitlistPositions
<1>6. Background
    BY DEF Init, Background, QuietDraft, SessionsHaveRows, CancelledRowRefunds
<1> QED
    BY <1>1, <1>4, <1>5, <1>6, SeatParts DEF Seats

LEMMA SeatStep == SeatInvariant /\ [Next]_vars => SeatInvariant'
<1> SUFFICES ASSUME SeatInvariant, [Next]_vars
             PROVE  SeatInvariant'
    OBVIOUS
<1>0. TypeOK /\ Seats /\ Background
    BY SeatParts
<1>1. TypeInvariant'
    BY <1>0, TypeParts, TypeStep DEF Background
<1>2. TypeOK'
    BY <1>1 DEF TypeInvariant, TypeOK, EventOK, TableOK, IdsOK, StripeOK, FlightOK
<1>3. Background'
    BY <1>0, BackgroundStep
<1>4. Seats'
    <2>1. CASE UpdateDraft \/ Publish \/ Start \/ Finish \/ CancelEvent \/ Sweep
        BY <1>0, <2>1, OrganizerStep
    <2>2. ASSUME NEW u \in Users, NEW r \in Regs, RegisterWaitlisted(u, r) \/ RegisterInSpot(u, r)
          PROVE  Seats'
        BY <1>0, <2>2, RegisterStep
    <2>3. ASSUME NEW r \in Regs,
                 \/ CancelWaitlisted(r) \/ CancelUncharged(r)
                 \/ CancelInWindow(r) \/ CancelPastDeadline(r)
                 \/ OrganizerRefund(r) \/ DenyRead(r) \/ DenyWrite(r) \/ WindowPasses(r)
                 \/ \E s \in Sessions : PayCheck(r, s)
                 \/ \E keepPayment \in BOOLEAN : RemoveRegistration(r, keepPayment)
          PROVE  Seats'
        BY <1>0, <2>3, RowStep
    <2>4. ASSUME NEW t \in refunds, CallRefund(t) \/ FinalizeRefund(t) \/ FinalizeCancelledRow(t)
          PROVE  Seats'
        BY <1>0, <2>4, RefundStep
    <2>5. ASSUME NEW s \in Sessions,
                 \/ PayStore(s) \/ PayFails(s) \/ ExpireRemoved(s)
                 \/ CustomerPays(s) \/ StripeExpires(s) \/ DashboardRefund(s) \/ SessionTimePasses(s)
                 \/ CompletedInTime(s) \/ CompletedTwice(s) \/ CompletedLate(s)
                 \/ HandleCheckoutExpired(s) \/ HandleChargeRefunded(s)
          PROVE  Seats'
        BY <1>0, <2>5, SessionStep
    <2>6. CASE UNCHANGED vars
        <3>1. SeatsKept
            BY <2>6 DEF SeatsKept
        <3> QED
            BY <1>0, <3>1, SeatsUnchanged DEF SeatsKept
    <2> QED
        BY <2>1, <2>2, <2>3, <2>4, <2>5, <2>6 DEF Next
<1> QED
    BY <1>2, <1>3, <1>4 DEF SeatInvariant, Seats, Background

\* The inductive invariant of the seats holds in every reachable state, for
\* any number of players, rows and checkout sessions and any capacity.
THEOREM SeatsCorrect == Spec => []SeatInvariant
BY SeatsInit, SeatStep, PTL DEF Spec

\* Registrations, promotions and late payments never fill more seats than
\* max_participants.
THEOREM CapacityHolds == Spec => []Capacity
<1>1. SeatInvariant => Capacity
    BY DEF SeatInvariant
<1> QED
    BY <1>1, SeatsCorrect, PTL

\* A user never has two active rows: no handler trips over
\* registrations_one_active_idx.
THEOREM OneActiveRowHolds == Spec => []OneActiveRow
<1>1. SeatInvariant => OneActiveRow
    BY DEF SeatInvariant
<1> QED
    BY <1>1, SeatsCorrect, PTL

\* Positions on the waitlist are never reused.
THEOREM WaitlistPositionsHold == Spec => []WaitlistPositions
<1>1. SeatInvariant => WaitlistPositions
    BY DEF SeatInvariant
<1> QED
    BY <1>1, SeatsCorrect, PTL

\* An event that is not published has no unpaid seat and no waitlist.
THEOREM ClosedRegistrationHolds == Spec => []ClosedRegistration
<1>1. SeatInvariant => ClosedRegistration
    BY DEF SeatInvariant
<1> QED
    BY <1>1, SeatsCorrect, PTL

\* Nobody waits while a seat is free, unless DenyRefund has written on a row
\* that held a seat again by then.
THEOREM NoIdleSpotHolds == Spec => []NoIdleSpotButStaleDenial
<1>1. SeatInvariant => NoIdleSpotButStaleDenial
    BY DEF SeatInvariant
<1> QED
    BY <1>1, SeatsCorrect, PTL

-----------------------------------------------------------------------------
(* The roster *)

PaidBefore == Rows(status', {"paid"}) \subseteq Rows(status, {"paid"})

\* With no waitlist a freed seat goes to nobody.
LEMMA FreeSpotAddsNobody ==
    ASSUME TypeOK, Rows(status, {"waitlisted"}) = {}, NEW r \in Regs, NEW s \in Terminal \cup {"refund_requested"},
           FreeSpot(r, s) \/ SetStatus(r, s)
    PROVE  PaidBefore
<1>1. s \notin {"paid", "waitlisted"}
    BY DEF Terminal
<1> QED
    BY <1>1 DEF FreeSpot, SetStatus, SetStatuses, Promote, PaidBefore, Rows, TypeOK

LEMMA RosterStep ==
    ASSUME SeatInvariant, Next, evStatus' # "published"
    PROVE  PaidBefore
<1>1. {"cancelled", "removed", "refunded", "expired"} \subseteq Terminal
    BY DEF Terminal
<1>2. CASE UNCHANGED status
    BY <1>2 DEF PaidBefore, Rows
<1>3. CASE Start \/ CancelEvent
    BY <1>3 DEF Start, CancelEvent, SetStatuses, CloseRow, PaidBefore, Rows
<1>4. CASE evStatus # "published"
    <2>1. TypeOK /\ SessionsHaveRows
          /\ \A r \in Regs : status[r] \notin {"pending_payment", "waitlisted"}
          /\ Rows(status, {"waitlisted"}) = {}
        BY <1>4 DEF SeatInvariant, ClosedRegistration, Rows
    <2>2. CASE UpdateDraft \/ Publish \/ Finish \/ Sweep
        BY <2>1, <2>2 DEF UpdateDraft, Publish, Finish, Sweep, Overdue, PaidBefore, Rows
    <2>3. ASSUME NEW u \in Users, NEW r \in Regs, RegisterWaitlisted(u, r) \/ RegisterInSpot(u, r)
          PROVE  FALSE
        BY <1>4, <2>3 DEF RegisterWaitlisted, RegisterInSpot, RegisterAs
    <2>4. ASSUME NEW r \in Regs,
                 \/ CancelInWindow(r) \/ OrganizerRefund(r) \/ DenyRead(r) \/ WindowPasses(r)
                 \/ \E s \in Sessions : PayCheck(r, s)
          PROVE  UNCHANGED status
        BY <2>4 DEF CancelInWindow, OrganizerRefund, DenyRead, WindowPasses, PayCheck
    <2>5. ASSUME NEW r \in Regs,
                 \/ CancelWaitlisted(r) \/ CancelUncharged(r) \/ CancelPastDeadline(r) \/ DenyWrite(r)
                 \/ \E keepPayment \in BOOLEAN : RemoveRegistration(r, keepPayment)
          PROVE  PaidBefore
        BY <1>1, <2>1, <2>5, FreeSpotAddsNobody
        DEF CancelWaitlisted, CancelUncharged, CancelPastDeadline, DenyWrite, RemoveRegistration
    <2>6. ASSUME NEW t \in refunds, CallRefund(t) \/ FinalizeRefund(t) \/ FinalizeCancelledRow(t)
          PROVE  PaidBefore
        <3>1. \/ UNCHANGED status
              \/ FreeSpot(t.reg, "refunded") \/ SetStatus(t.reg, "refunded")
            BY <2>6 DEF CallRefund, FinalizeRefund, FinalizeCancelledRow, MarkRefunded
        <3>2. "refunded" \in Terminal \cup {"refund_requested"} /\ t.reg \in Regs
            BY <1>1, <2>1 DEF TypeOK, Refunds
        <3>3. CASE UNCHANGED status
            BY <1>2, <3>3
        <3>4. CASE FreeSpot(t.reg, "refunded") \/ SetStatus(t.reg, "refunded")
            BY <2>1, <3>2, <3>4, FreeSpotAddsNobody
        <3> QED
            BY <3>1, <3>3, <3>4
    <2>7. ASSUME NEW s \in Sessions,
                 \/ PayStore(s) \/ PayFails(s) \/ ExpireRemoved(s)
                 \/ CustomerPays(s) \/ StripeExpires(s) \/ DashboardRefund(s) \/ SessionTimePasses(s)
                 \/ CompletedTwice(s) \/ HandleChargeRefunded(s)
          PROVE  UNCHANGED status
        BY <2>7 DEF PayStore, PayFails, CustomerPays, StripeExpires, DashboardRefund, ExpireRemoved, SetSession,
                    SessionTimePasses, CompletedTwice, HandleChargeRefunded
    <2>8. ASSUME NEW s \in Sessions, CompletedInTime(s) \/ CompletedLate(s)
          PROVE  UNCHANGED status
        <3>1. sessReg[s] \in Regs
            BY <2>1, <2>8 DEF CompletedInTime, CompletedLate, Completed, SessionsHaveRows
        <3> QED
            BY <1>4, <2>1, <2>8, <3>1 DEF CompletedInTime, CompletedLate, Reclaimable
    <2>9. ASSUME NEW s \in Sessions, HandleCheckoutExpired(s)
          PROVE  PaidBefore
        <3>1. FreeSpot(sessReg[s], "expired") \/ UNCHANGED status
            BY <2>9 DEF HandleCheckoutExpired
        <3>2. "expired" \in Terminal \cup {"refund_requested"} /\ sessReg[s] \in Regs
            BY <1>1, <2>1, <2>9 DEF HandleCheckoutExpired, SessionsHaveRows
        <3>3. CASE UNCHANGED status
            BY <1>2, <3>3
        <3>4. CASE FreeSpot(sessReg[s], "expired")
            BY <2>1, <3>2, <3>4, FreeSpotAddsNobody
        <3> QED
            BY <3>1, <3>3, <3>4
    <2> QED
        BY <1>2, <1>3, <2>2, <2>3, <2>4, <2>5, <2>6, <2>7, <2>8, <2>9 DEF Next
<1> QED
    BY <1>3, <1>4, EventMoves

\* Once the event is no longer published its paid roster only shrinks, whatever
\* late payments and refunds arrive.
THEOREM RosterIsFrozen == Spec => RosterFrozen
<1>1. SeatInvariant /\ [Next]_vars
          => [evStatus' # "published" => Rows(status', {"paid"}) \subseteq Rows(status, {"paid"})]_vars
    BY RosterStep DEF PaidBefore
<1> QED
    BY <1>1, SeatsCorrect, PTL DEF Spec, RosterFrozen

-----------------------------------------------------------------------------
(***************************************************************************)
(* Rows and money: the proof that a paid row rests on a charge of its own, *)
(* that a row with one session never loses its charge, and that such a row *)
(* is only called refunded when the money went back; and that DenyRefund   *)
(* hits a seat only if its row was paid a second time.                     *)
(*                                                                         *)
(* Every step is summed up first: what it may do to the status of a row    *)
(* (RowMoves), to the intents, to the refunds under way and to what Stripe *)
(* knows.  The invariant then follows from the summaries.                  *)
(***************************************************************************)

\* The intent of a row is a charge of a session of that row, and its
\* completion was processed.
IntentsAreCharges ==
    \A r \in Regs : intent[r] # NoSession =>
        /\ sessReg[intent[r]] = r
        /\ Processed("completed", intent[r])

CompletedAreCaptured ==
    \A s \in Sessions : Processed("completed", s) => sessState[s] \in {"captured", "refunded"}

\* Sessions are created for rows that exist, once.
SessionsAreOfRows ==
    \A s \in Sessions :
        IF sessState[s] = "unused" THEN sessReg[s] = NoReg
        ELSE sessReg[s] \in Regs /\ status[sessReg[s]] # "none"

\* A refund is of a charge of its row, and called when the money went back.
RefundsAreOfCharges ==
    \A t \in refunds :
        /\ sessReg[t.intent] = t.reg
        /\ intent[t.reg] # NoSession
        /\ t.called => sessState[t.intent] = "refunded"

RequestsHaveCharges ==
    \A r \in Regs : status[r] = "refund_requested" => intent[r] # NoSession

\* What a denial has read can only become final, unless its row is paid again.
DenialsAreOfRequests ==
    \A r \in denials :
        /\ intent[r] # NoSession
        /\ status[r] \in Occupying \cup {"waitlisted"} => PaidAgain(r)

MoneyInvariant ==
    /\ IntentsAreCharges /\ CompletedAreCaptured /\ SessionsAreOfRows
    /\ RefundsAreOfCharges /\ RequestsHaveCharges
    /\ DenialsAreOfRequests /\ StaleDenialNeedsSecondPayment
    /\ MoneyMatchesRow
-----------------------------------------------------------------------------
(* What a step does to the status of a row *)

Charged == {"refund_requested", "removed", "cancelled"}

RowMoves(r) ==
    \/ status'[r] = status[r]
    \/ status[r] \in {"none", "waitlisted"} /\ status'[r] \in {"waitlisted", PromotionTarget}
    \/ /\ status[r] # "none" /\ status'[r] \in Charged
       /\ status'[r] = "refund_requested" => intent[r] # NoSession /\ UNCHANGED intent
    \/ status[r] = "pending_payment" /\ status'[r] = "expired"
    \/ status'[r] = "refunded" /\ \E t \in refunds : t.called /\ t.reg = r
    \/ status'[r] = "paid" /\ \E s \in Sessions :
            Completed(s) /\ sessReg[s] = r /\ RecordPayment(r, s)

LEMMA FreeSpotRows ==
    ASSUME TypeOK, NEW r \in Regs, NEW s \in RowStatuses, s # "waitlisted",
           FreeSpot(r, s) \/ SetStatus(r, s)
    PROVE  /\ status'[r] = s
           /\ \A q \in Regs \ {r} :
                 \/ status'[q] = status[q]
                 \/ status[q] = "waitlisted" /\ status'[q] = PromotionTarget
BY DEF FreeSpot, SetStatus, SetStatuses, Promote, TypeOK

\* One row moves, others are at most promoted.
LEMMA OneMoves ==
    ASSUME TypeOK, NEW r \in Regs, NEW s \in RowStatuses, s # "waitlisted",
           FreeSpot(r, s) \/ SetStatus(r, s),
           status'[r] = s => RowMoves(r)
    PROVE  \A q \in Regs : RowMoves(q)
BY FreeSpotRows DEF RowMoves

LEMMA ChargedRows ==
    ASSUME TypeOK, IntentsAreCharges, CompletedAreCaptured, SessionsAreOfRows,
           NEW r \in Regs, intent[r] # NoSession
    PROVE  /\ intent[r] \in Sessions /\ sessReg[intent[r]] = r
           /\ sessState[intent[r]] \in {"captured", "refunded"}
           /\ status[r] # "none"
<1>1. intent[r] \in Sessions
    BY DEF TypeOK
<1>2. sessReg[intent[r]] = r /\ sessState[intent[r]] \in {"captured", "refunded"}
    BY <1>1 DEF IntentsAreCharges, CompletedAreCaptured
<1>3. sessState[intent[r]] # "unused"
    BY <1>2
<1> QED
    BY <1>1, <1>2, <1>3 DEF SessionsAreOfRows

LEMMA RowsMove ==
    ASSUME TypeOK, SessionsHaveRows, MoneyInvariant, Next
    PROVE  \A r \in Regs : RowMoves(r)
<1>0. {"cancelled", "refunded", "expired", "removed", "paid", "refund_requested"} \subseteq RowStatuses
    BY DEF RowStatuses, Active, Terminal, Occupying
<1>1. CASE UNCHANGED status
    BY <1>1 DEF RowMoves
<1>2. CASE UpdateDraft \/ Publish \/ Finish
    BY <1>1, <1>2 DEF UpdateDraft, Publish, Finish
<1>3. CASE Start
    <2>1. \A r \in Regs : status'[r] = CloseRow(status[r])
        BY <1>3 DEF Start, SetStatuses
    <2>2. ASSUME NEW st
          PROVE  \/ CloseRow(st) = st
                 \/ st = "pending_payment" /\ CloseRow(st) = "expired"
                 \/ st = "waitlisted" /\ CloseRow(st) = "cancelled"
        BY DEF CloseRow
    <2> QED
        BY <2>1, <2>2 DEF RowMoves, Charged
<1>4. CASE CancelEvent
    BY <1>4 DEF CancelEvent, SetStatuses, RowMoves, Charged, Active, Occupying
<1>5. CASE Sweep
    BY <1>5 DEF Sweep, SetStatuses, Promote, Overdue, Rows, RowMoves
<1>6. ASSUME NEW u \in Users, NEW r \in Regs, RegisterWaitlisted(u, r) \/ RegisterInSpot(u, r)
      PROVE  \A q \in Regs : RowMoves(q)
    BY <1>6 DEF RegisterWaitlisted, RegisterInSpot, RegisterAs, TypeOK, RowMoves
<1>7. ASSUME NEW r \in Regs,
             \/ CancelInWindow(r) \/ OrganizerRefund(r) \/ DenyRead(r) \/ WindowPasses(r)
             \/ \E s \in Sessions : PayCheck(r, s)
      PROVE  UNCHANGED status
    BY <1>7 DEF CancelInWindow, OrganizerRefund, DenyRead, WindowPasses, PayCheck
<1>8. ASSUME NEW r \in Regs,
             \/ CancelWaitlisted(r) \/ CancelUncharged(r) \/ DenyWrite(r)
             \/ \E keepPayment \in BOOLEAN : RemoveRegistration(r, keepPayment)
      PROVE  \A q \in Regs : RowMoves(q)
    <2>1. status[r] # "none"
        <3>1. CASE DenyWrite(r)
            BY <3>1, ChargedRows DEF DenyWrite, DenialsAreOfRequests, MoneyInvariant
        <3>2. CASE ~DenyWrite(r)
            BY <1>8, <3>2 DEF CancelWaitlisted, CancelUncharged, RemoveRegistration, Removable
        <3> QED
            BY <3>1, <3>2
    <2>2. PICK s \in {"cancelled", "removed"} : FreeSpot(r, s) \/ SetStatus(r, s)
        BY <1>8 DEF CancelWaitlisted, CancelUncharged, DenyWrite, RemoveRegistration
    <2>3. status'[r] = s => RowMoves(r)
        BY <2>1 DEF RowMoves, Charged
    <2> QED
        BY <1>0, <2>2, <2>3, OneMoves
<1>9. ASSUME NEW r \in Regs, CancelPastDeadline(r)
      PROVE  \A q \in Regs : RowMoves(q)
    <2>1. /\ status[r] # "none" /\ intent[r] # NoSession /\ UNCHANGED intent
          /\ FreeSpot(r, "refund_requested")
        BY <1>9 DEF CancelPastDeadline
    <2>2. status'[r] = "refund_requested" => RowMoves(r)
        BY <2>1 DEF RowMoves, Charged
    <2> QED
        BY <1>0, <2>1, <2>2, OneMoves
<1>10. ASSUME NEW t \in refunds, CallRefund(t) \/ FinalizeRefund(t) \/ FinalizeCancelledRow(t)
       PROVE  \A q \in Regs : RowMoves(q)
    <2>1. t.reg \in Regs
        BY DEF TypeOK, Refunds
    <2>2. CASE CallRefund(t)
        BY <1>1, <2>2 DEF CallRefund
    <2>3. CASE FinalizeRefund(t) \/ FinalizeCancelledRow(t)
        <3>1. t.called /\ (FreeSpot(t.reg, "refunded") \/ SetStatus(t.reg, "refunded"))
            BY <2>3 DEF FinalizeRefund, FinalizeCancelledRow, MarkRefunded
        <3>2. status'[t.reg] = "refunded" => RowMoves(t.reg)
            BY <3>1 DEF RowMoves
        <3> QED
            BY <1>0, <2>1, <3>1, <3>2, OneMoves
    <2> QED
        BY <1>10, <2>2, <2>3
<1>11. ASSUME NEW s \in Sessions,
              \/ PayStore(s) \/ PayFails(s) \/ ExpireRemoved(s)
              \/ CustomerPays(s) \/ StripeExpires(s) \/ DashboardRefund(s) \/ SessionTimePasses(s)
              \/ CompletedTwice(s) \/ HandleChargeRefunded(s)
       PROVE  UNCHANGED status
    BY <1>11 DEF PayStore, PayFails, CustomerPays, StripeExpires, DashboardRefund, ExpireRemoved,
                 SetSession, SessionTimePasses, CompletedTwice, HandleChargeRefunded
<1>12. ASSUME NEW s \in Sessions, CompletedInTime(s) \/ CompletedLate(s)
       PROVE  \A q \in Regs : RowMoves(q)
    <2>1. /\ Completed(s) /\ RecordPayment(sessReg[s], s)
          /\ UNCHANGED status \/ SetStatus(sessReg[s], "paid")
        BY <1>12 DEF CompletedInTime, CompletedLate
    <2>2. sessReg[s] \in Regs
        BY <2>1 DEF Completed, SessionsHaveRows
    <2>3. status'[sessReg[s]] = "paid" => RowMoves(sessReg[s])
        BY <2>1 DEF RowMoves
    <2> QED
        BY <1>0, <1>1, <2>1, <2>2, <2>3, OneMoves
<1>13. ASSUME NEW s \in Sessions, HandleCheckoutExpired(s)
       PROVE  \A q \in Regs : RowMoves(q)
    <2>1. sessReg[s] \in Regs
        BY <1>13 DEF HandleCheckoutExpired, SessionsHaveRows
    <2>2. \/ UNCHANGED status
          \/ status[sessReg[s]] = "pending_payment" /\ FreeSpot(sessReg[s], "expired")
        BY <1>13 DEF HandleCheckoutExpired
    <2>3. status[sessReg[s]] = "pending_payment" /\ status'[sessReg[s]] = "expired"
             => RowMoves(sessReg[s])
        BY DEF RowMoves
    <2> QED
        BY <1>0, <1>1, <2>1, <2>2, <2>3, OneMoves
<1> QED
    BY <1>1, <1>2, <1>3, <1>4, <1>5, <1>6, <1>7, <1>8, <1>9, <1>10, <1>11, <1>12, <1>13 DEF Next
-----------------------------------------------------------------------------
(* What a step does to charges and refunds *)

\* What Stripe knows only grows: a session stays with its row, a completion
\* is not forgotten, money that went back does not return.
StripeMoves ==
    /\ seen \subseteq seen'
    /\ \A s \in Sessions :
          /\ sessState[s] # "unused" => sessReg'[s] = sessReg[s] /\ sessState'[s] # "unused"
          /\ sessState[s] = "captured" => sessState'[s] \in {"captured", "refunded"}
          /\ sessState[s] = "refunded" => sessState'[s] = "refunded"
          /\ sessState[s] = "unused" =>
                \/ UNCHANGED <<sessState[s], sessReg[s]>>
                \/ /\ sessState'[s] = "creating"
                   /\ sessReg'[s] \in Regs /\ status[sessReg'[s]] = "pending_payment"

HandleCompleted(s) == CompletedInTime(s) \/ CompletedTwice(s) \/ CompletedLate(s)

\* An intent is recorded when a completion is processed, and never removed.
IntentMoves ==
    /\ \/ UNCHANGED intent
       \/ \E s \in Sessions : Completed(s) /\ RecordPayment(sessReg[s], s)
    /\ \A s \in Sessions : Processed("completed", s)' =>
          Processed("completed", s) \/ HandleCompleted(s)

\* A completion records its charge for a paid or requested row, or owes it back.
ChargeLands(s) ==
    \/ intent'[sessReg[s]] = s /\ status'[sessReg[s]] \in {"paid", "refund_requested"}
    \/ \E t \in refunds' : t.intent = s /\ ~t.called

\* Refunds are started for the charge of a row, and leave when the money has.
RefundMoves ==
    /\ \A t \in refunds' :
          \/ t \in refunds
          \/ \E q \in refunds : /\ t.reg = q.reg /\ t.intent = q.intent
                                /\ sessState'[t.intent] = "refunded"
          \/ /\ t.reg \in Regs /\ t.intent \in Sessions /\ intent'[t.reg] # NoSession
             /\ sessReg[t.intent] = t.reg
             /\ t.called => sessState[t.intent] = "refunded"
    /\ \A t \in refunds \ refunds' : t.called \/ sessState'[t.intent] = "refunded"

LEMMA StripeMove ==
    ASSUME TypeOK, SessionsHaveRows, Next
    PROVE  StripeMoves
<1>1. CASE UNCHANGED <<sessReg, sessState, seen>>
    BY <1>1 DEF StripeMoves
<1>2. CASE UpdateDraft \/ Publish \/ Start \/ Finish \/ CancelEvent \/ Sweep
    BY <1>1, <1>2 DEF UpdateDraft, Publish, Start, Finish, CancelEvent, Sweep
<1>3. ASSUME NEW u \in Users, NEW r \in Regs, RegisterWaitlisted(u, r) \/ RegisterInSpot(u, r)
      PROVE  StripeMoves
    BY <1>1, <1>3 DEF RegisterWaitlisted, RegisterInSpot, RegisterAs
<1>4. ASSUME NEW r \in Regs,
             \/ CancelWaitlisted(r) \/ CancelUncharged(r)
             \/ CancelInWindow(r) \/ CancelPastDeadline(r)
             \/ OrganizerRefund(r) \/ DenyRead(r) \/ DenyWrite(r) \/ WindowPasses(r)
             \/ \E keepPayment \in BOOLEAN : RemoveRegistration(r, keepPayment)
      PROVE  StripeMoves
    BY <1>1, <1>4 DEF CancelWaitlisted, CancelUncharged, CancelInWindow, CancelPastDeadline,
                      OrganizerRefund, DenyRead, DenyWrite, WindowPasses, RemoveRegistration
<1>5. ASSUME NEW r \in Regs, NEW s \in Sessions, PayCheck(r, s)
      PROVE  StripeMoves
    BY <1>5 DEF PayCheck, StripeMoves, TypeOK
<1>6. ASSUME NEW t \in refunds, CallRefund(t) \/ FinalizeRefund(t) \/ FinalizeCancelledRow(t)
      PROVE  StripeMoves
    <2>1. CASE FinalizeRefund(t) \/ FinalizeCancelledRow(t)
        BY <1>1, <2>1 DEF FinalizeRefund, FinalizeCancelledRow
    <2>2. CASE CallRefund(t)
        <3>1. /\ sessState[t.intent] = "captured"
              /\ sessState' = [sessState EXCEPT ![t.intent] = "refunded"]
              /\ UNCHANGED <<sessReg, seen>>
            BY <2>2 DEF CallRefund
        <3> QED
            BY <3>1 DEF StripeMoves, TypeOK
    <2> QED
        BY <1>6, <2>1, <2>2
<1>7. ASSUME NEW s \in Sessions,
             \/ PayStore(s) \/ PayFails(s) \/ ExpireRemoved(s)
             \/ CustomerPays(s) \/ StripeExpires(s) \/ DashboardRefund(s)
      PROVE  StripeMoves
    BY <1>7 DEF PayStore, PayFails, ExpireRemoved, CustomerPays, StripeExpires, DashboardRefund,
                SetSession, StripeMoves, TypeOK
<1>8. ASSUME NEW s \in Sessions,
             \/ SessionTimePasses(s) \/ CompletedInTime(s) \/ CompletedTwice(s) \/ CompletedLate(s)
             \/ HandleCheckoutExpired(s) \/ HandleChargeRefunded(s)
      PROVE  StripeMoves
    <2>1. UNCHANGED <<sessReg, sessState>> /\ seen \subseteq seen'
        BY <1>8 DEF SessionTimePasses, CompletedInTime, CompletedTwice, CompletedLate, Completed,
                    MarkSeen, HandleCheckoutExpired, HandleChargeRefunded
    <2> QED
        BY <2>1 DEF StripeMoves
<1> QED
    BY <1>2, <1>3, <1>4, <1>5, <1>6, <1>7, <1>8 DEF Next

LEMMA IntentsMove ==
    ASSUME TypeOK, Next
    PROVE  IntentMoves
<1>1. CASE UNCHANGED <<intent, seen>>
    BY <1>1 DEF IntentMoves, Processed
<1>2. CASE UpdateDraft \/ Publish \/ Start \/ Finish \/ CancelEvent \/ Sweep
    BY <1>1, <1>2 DEF UpdateDraft, Publish, Start, Finish, CancelEvent, Sweep
<1>3. ASSUME NEW u \in Users, NEW r \in Regs, RegisterWaitlisted(u, r) \/ RegisterInSpot(u, r)
      PROVE  IntentMoves
    BY <1>1, <1>3 DEF RegisterWaitlisted, RegisterInSpot, RegisterAs
<1>4. ASSUME NEW r \in Regs,
             \/ CancelWaitlisted(r) \/ CancelUncharged(r)
             \/ CancelInWindow(r) \/ CancelPastDeadline(r)
             \/ OrganizerRefund(r) \/ DenyRead(r) \/ DenyWrite(r) \/ WindowPasses(r)
             \/ \E s \in Sessions : PayCheck(r, s)
             \/ \E keepPayment \in BOOLEAN : RemoveRegistration(r, keepPayment)
      PROVE  IntentMoves
    BY <1>1, <1>4 DEF CancelWaitlisted, CancelUncharged, CancelInWindow, CancelPastDeadline,
                      OrganizerRefund, DenyRead, DenyWrite, WindowPasses, PayCheck, RemoveRegistration
<1>5. ASSUME NEW t \in refunds, CallRefund(t) \/ FinalizeRefund(t) \/ FinalizeCancelledRow(t)
      PROVE  IntentMoves
    BY <1>1, <1>5 DEF CallRefund, FinalizeRefund, FinalizeCancelledRow
<1>6. ASSUME NEW s \in Sessions,
             \/ PayStore(s) \/ PayFails(s) \/ ExpireRemoved(s)
             \/ CustomerPays(s) \/ StripeExpires(s) \/ DashboardRefund(s) \/ SessionTimePasses(s)
             \/ HandleCheckoutExpired(s) \/ HandleChargeRefunded(s)
      PROVE  IntentMoves
    <2>1. UNCHANGED intent
          /\ \A z \in Sessions : Processed("completed", z)' => Processed("completed", z)
        BY <1>6 DEF PayStore, PayFails, ExpireRemoved, CustomerPays, StripeExpires, DashboardRefund,
                    SetSession, SessionTimePasses, HandleCheckoutExpired, HandleChargeRefunded,
                    MarkSeen, Processed
    <2> QED
        BY <2>1 DEF IntentMoves
<1>7. ASSUME NEW s \in Sessions, HandleCompleted(s)
      PROVE  IntentMoves
    <2>1. Completed(s) /\ MarkSeen("completed", s)
        BY <1>7 DEF HandleCompleted, CompletedInTime, CompletedTwice, CompletedLate, Completed
    <2>2. UNCHANGED intent \/ RecordPayment(sessReg[s], s)
        BY <1>7 DEF HandleCompleted, CompletedInTime, CompletedTwice, CompletedLate
    <2> QED
        BY <1>7, <2>1, <2>2 DEF IntentMoves, MarkSeen, Processed
<1> QED
    BY <1>2, <1>3, <1>4, <1>5, <1>6, <1>7 DEF Next, HandleCompleted

LEMMA ChargesLand ==
    ASSUME TypeOK, SessionsHaveRows, NEW s \in Sessions, HandleCompleted(s)
    PROVE  ChargeLands(s)
<1> DEFINE r == sessReg[s]
<1>1. r \in Regs
    BY DEF HandleCompleted, CompletedInTime, CompletedTwice, CompletedLate, Completed, SessionsHaveRows
<1>2. RecordPayment(r, s) => intent'[r] = s
    BY <1>1 DEF RecordPayment, TypeOK
<1>3. SetStatus(r, "paid") => status'[r] = "paid"
    BY <1>1 DEF SetStatus, SetStatuses, TypeOK
<1>4. ASSUME NEW k, refunds' = refunds \cup {Refund(r, s, k)}
      PROVE  ChargeLands(s)
    <2>1. Refund(r, s, k).intent = s /\ ~Refund(r, s, k).called
        BY DEF Refund
    <2>2. Refund(r, s, k) \in refunds'
        BY <1>4
    <2> QED
        BY <2>1, <2>2 DEF ChargeLands
<1>5. CASE CompletedInTime(s)
    BY <1>2, <1>3, <1>5 DEF CompletedInTime, ChargeLands
<1>6. CASE CompletedTwice(s)
    BY <1>2, <1>4, <1>6 DEF CompletedTwice, ChargeLands
<1>7. CASE CompletedLate(s)
    BY <1>2, <1>3, <1>4, <1>7 DEF CompletedLate, ChargeLands
<1> QED
    BY <1>5, <1>6, <1>7 DEF HandleCompleted

LEMMA RefundsMove ==
    ASSUME TypeOK, MoneyInvariant, Next
    PROVE  RefundMoves
<1>1. CASE UNCHANGED refunds
    BY <1>1 DEF RefundMoves
<1>2. ASSUME NEW t, refunds' = refunds \cup {t},
             t.reg \in Regs, t.intent \in Sessions, intent'[t.reg] # NoSession,
             sessReg[t.intent] = t.reg, t.called => sessState[t.intent] = "refunded"
      PROVE  RefundMoves
    BY <1>2 DEF RefundMoves
<1>3. ASSUME NEW r \in Regs, NEW s \in Sessions, NEW k,
              refunds' = refunds \cup {Refund(r, s, k)},
              intent'[r] # NoSession, sessReg[s] = r
       PROVE  RefundMoves
    <2>1. Refund(r, s, k).reg = r /\ Refund(r, s, k).intent = s /\ ~Refund(r, s, k).called
        BY DEF Refund
    <2> QED
        BY <1>2, <1>3, <2>1
<1>4. CASE UpdateDraft \/ Publish \/ Start \/ Finish \/ Sweep
    BY <1>1, <1>4 DEF UpdateDraft, Publish, Start, Finish, Sweep
<1>5. CASE CancelEvent
    <2>1. ASSUME NEW t \in refunds', t \notin refunds
          PROVE  /\ t.reg \in Regs /\ t.intent \in Sessions /\ intent'[t.reg] # NoSession
                 /\ sessReg[t.intent] = t.reg /\ ~t.called
        <3>1. PICK r \in Refundable : t = Refund(r, intent[r], "cancelled_event")
            BY <1>5, <2>1 DEF CancelEvent
        <3>2. r \in Regs /\ intent[r] # NoSession /\ intent' = intent
            BY <1>5, <3>1 DEF CancelEvent, Refundable, Rows
        <3> QED
            BY <3>1, <3>2, ChargedRows DEF Refund, MoneyInvariant
    <2>2. refunds \subseteq refunds'
        BY <1>5 DEF CancelEvent
    <2> QED
        BY <2>1, <2>2 DEF RefundMoves
<1>6. ASSUME NEW u \in Users, NEW r \in Regs, RegisterWaitlisted(u, r) \/ RegisterInSpot(u, r)
      PROVE  RefundMoves
    BY <1>1, <1>6 DEF RegisterWaitlisted, RegisterInSpot, RegisterAs
<1>7. ASSUME NEW r \in Regs,
             \/ CancelWaitlisted(r) \/ CancelUncharged(r) \/ CancelPastDeadline(r)
             \/ DenyRead(r) \/ DenyWrite(r) \/ WindowPasses(r)
             \/ \E s \in Sessions : PayCheck(r, s)
             \/ \E keepPayment \in BOOLEAN : RemoveRegistration(r, keepPayment)
      PROVE  RefundMoves
    BY <1>1, <1>7 DEF CancelWaitlisted, CancelUncharged, CancelPastDeadline,
                      DenyRead, DenyWrite, WindowPasses, PayCheck, RemoveRegistration
<1>8. ASSUME NEW r \in Regs, CancelInWindow(r) \/ OrganizerRefund(r)
      PROVE  RefundMoves
    <2>1. /\ intent[r] # NoSession /\ intent' = intent
          /\ refunds' = refunds \cup {Refund(r, intent[r], "registration")}
        BY <1>8 DEF CancelInWindow, OrganizerRefund, Refundable
    <2>2. intent[r] \in Sessions /\ sessReg[intent[r]] = r
        BY <2>1, ChargedRows DEF MoneyInvariant
    <2> QED
        BY <1>3, <2>1, <2>2
<1>9. ASSUME NEW t \in refunds, CallRefund(t)
      PROVE  RefundMoves
    <2>1. /\ sessState'[t.intent] = "refunded"
          /\ refunds' \subseteq (refunds \ {t}) \cup {[t EXCEPT !.called = TRUE]}
          /\ refunds \ refunds' \subseteq {t}
        BY <1>9 DEF CallRefund, TypeOK, Refunds
    <2>2. /\ [t EXCEPT !.called = TRUE].reg = t.reg
          /\ [t EXCEPT !.called = TRUE].intent = t.intent
        BY DEF TypeOK, Refunds
    <2> QED
        BY <2>1, <2>2 DEF RefundMoves
<1>10. ASSUME NEW t \in refunds, FinalizeRefund(t) \/ FinalizeCancelledRow(t)
      PROVE  RefundMoves
    BY <1>10 DEF FinalizeRefund, FinalizeCancelledRow, RefundMoves
<1>11. ASSUME NEW s \in Sessions,
              \/ PayStore(s) \/ PayFails(s) \/ ExpireRemoved(s)
              \/ CustomerPays(s) \/ StripeExpires(s) \/ DashboardRefund(s) \/ SessionTimePasses(s)
              \/ CompletedInTime(s) \/ HandleCheckoutExpired(s)
       PROVE  RefundMoves
    BY <1>1, <1>11 DEF PayStore, PayFails, ExpireRemoved, CustomerPays, StripeExpires, DashboardRefund,
                 SetSession, SessionTimePasses, CompletedInTime, HandleCheckoutExpired
<1>12. ASSUME NEW s \in Sessions, CompletedTwice(s) \/ CompletedLate(s)
       PROVE  RefundMoves
    <2>1. sessReg[s] \in Regs
        BY <1>12 DEF CompletedTwice, CompletedLate, Completed, MoneyInvariant, SessionsAreOfRows
    <2>2. RecordPayment(sessReg[s], s) => intent'[sessReg[s]] = s
        BY <2>1 DEF RecordPayment, TypeOK
    <2>3. s # NoSession
        BY NullsAreNew
    <2>4. \/ UNCHANGED refunds
          \/ \E k : /\ refunds' = refunds \cup {Refund(sessReg[s], s, k)}
                    /\ intent'[sessReg[s]] # NoSession
        BY <1>12, <2>2, <2>3 DEF CompletedTwice, CompletedLate
    <2> QED
        BY <1>1, <1>3, <2>1, <2>4
<1>13. ASSUME NEW s \in Sessions, HandleChargeRefunded(s)
       PROVE  RefundMoves
    <2>0. PICK t : t = [Refund(sessReg[s], s, "webhook") EXCEPT !.called = TRUE]
        OBVIOUS
    <2>1. sessState[s] = "refunded" /\ sessReg[s] \in Regs
        BY <1>13 DEF HandleChargeRefunded, MoneyInvariant, SessionsAreOfRows
    <2>2. t.reg = sessReg[s] /\ t.intent = s
        BY <2>0 DEF Refund
    <2>3. s # NoSession /\ intent' = intent
        BY <1>13, NullsAreNew DEF HandleChargeRefunded
    <2>4. UNCHANGED refunds \/ (refunds' = refunds \cup {t} /\ intent[sessReg[s]] = s)
        BY <1>13, <2>0 DEF HandleChargeRefunded
    <2> QED
        BY <1>1, <1>2, <2>1, <2>2, <2>3, <2>4
<1> QED
    BY <1>4, <1>5, <1>6, <1>7, <1>8, <1>9, <1>10, <1>11, <1>12, <1>13 DEF Next

\* Who asks for a denial, and what a denial does to the history.
DenialMoves ==
    /\ \A r \in denials' : r \in denials \/ (status[r] = "refund_requested" /\ r \in Regs)
    /\ staleDenial' => staleDenial \/ \E r \in denials : status[r] \in Occupying

\* Only a draft changes its fee.
FeeMoves == hasFee' = hasFee \/ (evStatus = "draft" /\ UNCHANGED status)

LEMMA DenialsMove ==
    ASSUME Next
    PROVE  DenialMoves /\ FeeMoves
<1>1. CASE UNCHANGED <<hasFee, denials, staleDenial>>
    BY <1>1 DEF DenialMoves, FeeMoves
<1>2. CASE UpdateDraft \/ Publish \/ Start \/ Finish \/ CancelEvent \/ Sweep
    BY <1>2 DEF UpdateDraft, Publish, Start, Finish, CancelEvent, Sweep, DenialMoves, FeeMoves
<1>3. ASSUME NEW u \in Users, NEW r \in Regs, RegisterWaitlisted(u, r) \/ RegisterInSpot(u, r)
      PROVE  DenialMoves /\ FeeMoves
    BY <1>1, <1>3 DEF RegisterWaitlisted, RegisterInSpot, RegisterAs
<1>4. ASSUME NEW r \in Regs,
             \/ CancelWaitlisted(r) \/ CancelUncharged(r)
             \/ CancelInWindow(r) \/ CancelPastDeadline(r)
             \/ OrganizerRefund(r) \/ WindowPasses(r)
             \/ \E s \in Sessions : PayCheck(r, s)
             \/ \E keepPayment \in BOOLEAN : RemoveRegistration(r, keepPayment)
      PROVE  DenialMoves /\ FeeMoves
    BY <1>1, <1>4 DEF CancelWaitlisted, CancelUncharged, CancelInWindow, CancelPastDeadline,
                      OrganizerRefund, WindowPasses, PayCheck, RemoveRegistration
<1>5. ASSUME NEW r \in Regs, DenyRead(r) \/ DenyWrite(r)
      PROVE  DenialMoves /\ FeeMoves
    <2>1. CASE DenyRead(r)
        BY <2>1 DEF DenyRead, DenialMoves, FeeMoves
    <2>2. CASE DenyWrite(r)
        <3>1. /\ r \in denials /\ denials' \subseteq denials /\ hasFee' = hasFee
              /\ staleDenial' => staleDenial \/ status[r] \in Occupying
            BY <2>2 DEF DenyWrite
        <3> QED
            BY <3>1 DEF DenialMoves, FeeMoves
    <2> QED
        BY <1>5, <2>1, <2>2
<1>6. ASSUME NEW t \in refunds, CallRefund(t) \/ FinalizeRefund(t) \/ FinalizeCancelledRow(t)
      PROVE  DenialMoves /\ FeeMoves
    BY <1>1, <1>6 DEF CallRefund, FinalizeRefund, FinalizeCancelledRow
<1>7. ASSUME NEW s \in Sessions,
             \/ PayStore(s) \/ PayFails(s) \/ ExpireRemoved(s)
             \/ CustomerPays(s) \/ StripeExpires(s) \/ DashboardRefund(s) \/ SessionTimePasses(s)
             \/ CompletedInTime(s) \/ CompletedTwice(s) \/ CompletedLate(s)
             \/ HandleCheckoutExpired(s) \/ HandleChargeRefunded(s)
      PROVE  DenialMoves /\ FeeMoves
    BY <1>1, <1>7 DEF PayStore, PayFails, ExpireRemoved, CustomerPays, StripeExpires, DashboardRefund,
                      SetSession, SessionTimePasses, CompletedInTime, CompletedTwice, CompletedLate,
                      HandleCheckoutExpired, HandleChargeRefunded
<1> QED
    BY <1>2, <1>3, <1>4, <1>5, <1>6, <1>7 DEF Next
-----------------------------------------------------------------------------
(* The invariant, part by part *)

\* What every part is proved from.
Moves ==
    /\ TypeOK /\ TypeOK' /\ QuietDraft /\ MoneyInvariant
    /\ \A r \in Regs : RowMoves(r)
    /\ StripeMoves /\ IntentMoves /\ RefundMoves /\ DenialMoves /\ FeeMoves
    /\ \A s \in Sessions : HandleCompleted(s) => ChargeLands(s)

\* A charge that was processed stays processed, and keeps its row.
LEMMA ChargeStays ==
    ASSUME Moves, NEW r \in Regs, intent[r] # NoSession
    PROVE  /\ intent'[r] # NoSession
           /\ sessReg'[intent[r]] = r
           /\ \E id \in EventIds : <<"completed", intent[r], id>> \in seen'
<1>1. /\ intent[r] \in Sessions /\ sessReg[intent[r]] = r
      /\ sessState[intent[r]] \in {"captured", "refunded"}
    BY ChargedRows DEF Moves, MoneyInvariant
<1>2. /\ sessReg'[intent[r]] = r
      /\ \E id \in EventIds : <<"completed", intent[r], id>> \in seen'
    BY <1>1 DEF Moves, StripeMoves, MoneyInvariant, IntentsAreCharges, Processed
<1>3. intent'[r] # NoSession
    BY NullsAreNew DEF Moves, IntentMoves, RecordPayment, TypeOK
<1> QED
    BY <1>2, <1>3

\* The charge of a row with one session is the one its session made.
LEMMA SoleCharge ==
    ASSUME TypeOK, MoneyInvariant, NEW r \in Regs, intent[r] # NoSession, Sole(r),
           NEW s \in Sessions, sessReg[s] = r
    PROVE  s = intent[r]
<1>1. intent[r] \in Sessions /\ sessReg[intent[r]] = r
    BY ChargedRows DEF MoneyInvariant
<1> QED
    BY <1>1 DEF Sole

\* A payment that was processed is not forgotten ...
LEMMA PaidAgainStays ==
    ASSUME Moves, NEW r \in Regs, PaidAgain(r)
    PROVE  PaidAgain(r)'
<1>1. PICK e \in Payments(r), f \in Payments(r) : e # f
    BY DEF PaidAgain
<1>2. ASSUME NEW w \in Payments(r)
      PROVE  w \in Payments(r)'
    <2>1. /\ w \in seen /\ w[1] = "completed" /\ w[2] \in Sessions /\ sessReg[w[2]] = r
        BY <1>2 DEF Payments, Moves, TypeOK, WebhookEvents
    <2>2. sessState[w[2]] # "unused"
        BY <2>1, NullsAreNew DEF Moves, MoneyInvariant, SessionsAreOfRows
    <2> QED
        BY <2>1, <2>2 DEF Payments, Moves, StripeMoves
<1> QED
    BY <1>1, <1>2 DEF PaidAgain

\* ... and one that comes for a row that already has a charge is its second.
LEMMA CompletedAgain ==
    ASSUME Moves, NEW r \in Regs, intent[r] # NoSession,
           NEW s \in Sessions, Completed(s), sessReg[s] = r
    PROVE  PaidAgain(r)'
<1>1. PICK old \in EventIds :
          <<"completed", intent[r], old>> \in seen
    BY DEF Moves, MoneyInvariant, IntentsAreCharges, Processed
<1>2. PICK new \in EventIds :
          /\ <<"completed", s, new>> \notin seen
          /\ <<"completed", s, new>> \in seen'
    BY DEF Completed, MarkSeen
<1>3. intent[r] \in Sessions /\ sessReg[intent[r]] = r /\ sessReg'[intent[r]] = r
    BY ChargeStays, ChargedRows DEF Moves, MoneyInvariant
<1>4. sessReg'[s] = r
    BY DEF Completed, Moves, StripeMoves
<1>5. <<"completed", intent[r], old>> \in Payments(r)'
    BY <1>1, <1>3 DEF Payments, Moves, StripeMoves
<1>6. <<"completed", s, new>> \in Payments(r)'
    BY <1>2, <1>4 DEF Payments
<1> QED
    BY <1>1, <1>2, <1>5, <1>6 DEF PaidAgain

LEMMA SoleIntentStays ==
    ASSUME Moves, NEW r \in Regs, intent[r] # NoSession, Sole(r)
    PROVE  intent'[r] = intent[r]
<1>1. CASE UNCHANGED intent
    BY <1>1
<1>2. ASSUME NEW s \in Sessions, Completed(s), RecordPayment(sessReg[s], s)
      PROVE  intent'[r] = intent[r]
    <2>1. sessReg[s] = r => s = intent[r]
        BY <1>2, SoleCharge DEF Moves
    <2> QED
        BY <1>2, <2>1 DEF RecordPayment, Moves, TypeOK
<1> QED
    BY <1>1, <1>2 DEF Moves, IntentMoves

\* A second session is not forgotten.
LEMMA SoleBefore ==
    ASSUME Moves, NEW r \in Regs, Sole(r)'
    PROVE  Sole(r)
<1> SUFFICES ASSUME NEW s \in Sessions, NEW z \in Sessions, sessReg[s] = r, sessReg[z] = r
             PROVE  s = z
    BY DEF Sole
<1>1. sessState[s] # "unused" /\ sessState[z] # "unused"
    BY NullsAreNew DEF Moves, MoneyInvariant, SessionsAreOfRows
<1>2. sessReg'[s] = r /\ sessReg'[z] = r
    BY <1>1 DEF Moves, StripeMoves
<1> QED
    BY <1>2 DEF Sole

LEMMA RowsStay ==
    ASSUME Moves, NEW r \in Regs, status[r] # "none"
    PROVE  status'[r] # "none"
BY DEF Moves, RowMoves, Charged, PromotionTarget

LEMMA IntentsStep == Moves => IntentsAreCharges'
<1> SUFFICES ASSUME Moves, NEW r \in Regs, intent'[r] # NoSession
             PROVE  /\ sessReg'[intent'[r]] = r
                    /\ \E id \in EventIds : <<"completed", intent'[r], id>> \in seen'
    BY DEF IntentsAreCharges, Processed
<1>1. CASE intent'[r] = intent[r]
    BY <1>1, ChargeStays
<1>2. CASE intent'[r] # intent[r]
    <2>1. PICK s \in Sessions : Completed(s) /\ RecordPayment(sessReg[s], s)
        BY <1>2 DEF Moves, IntentMoves
    <2>2. sessReg[s] = r /\ intent'[r] = s
        BY <1>2, <2>1 DEF RecordPayment, Moves, TypeOK
    <2>3. sessReg'[s] = r /\ \E id \in EventIds : <<"completed", s, id>> \in seen'
        BY <2>1, <2>2 DEF Completed, MarkSeen, Moves, StripeMoves
    <2> QED
        BY <2>2, <2>3
<1> QED
    BY <1>1, <1>2

LEMMA CapturedStep == Moves => CompletedAreCaptured'
<1> SUFFICES ASSUME Moves, NEW s \in Sessions, Processed("completed", s)'
             PROVE  sessState'[s] \in {"captured", "refunded"}
    BY DEF CompletedAreCaptured
<1>1. sessState[s] \in {"captured", "refunded"}
    BY DEF Moves, IntentMoves, MoneyInvariant, CompletedAreCaptured,
           HandleCompleted, CompletedInTime, CompletedTwice, CompletedLate, Completed
<1> QED
    BY <1>1 DEF Moves, StripeMoves

LEMMA SessionRowsStep == Moves => SessionsAreOfRows'
<1> SUFFICES ASSUME Moves, NEW s \in Sessions
             PROVE  IF sessState'[s] = "unused" THEN sessReg'[s] = NoReg
                    ELSE sessReg'[s] \in Regs /\ status'[sessReg'[s]] # "none"
    BY DEF SessionsAreOfRows
<1>1. CASE sessState[s] = "unused"
    <2>1. CASE UNCHANGED <<sessState[s], sessReg[s]>>
        BY <1>1, <2>1 DEF Moves, MoneyInvariant, SessionsAreOfRows
    <2>2. CASE /\ sessState'[s] = "creating"
               /\ sessReg'[s] \in Regs /\ status[sessReg'[s]] = "pending_payment"
        BY <2>2, RowsStay
    <2> QED
        BY <1>1, <2>1, <2>2 DEF Moves, StripeMoves
<1>2. CASE sessState[s] # "unused"
    <2>1. sessReg[s] \in Regs /\ status[sessReg[s]] # "none"
        BY <1>2 DEF Moves, MoneyInvariant, SessionsAreOfRows
    <2>2. sessReg'[s] = sessReg[s] /\ sessState'[s] # "unused"
        BY <1>2 DEF Moves, StripeMoves
    <2> QED
        BY <2>1, <2>2, RowsStay
<1> QED
    BY <1>1, <1>2

LEMMA RefundChargesStep == Moves => RefundsAreOfCharges'
<1> SUFFICES ASSUME Moves, NEW t \in refunds'
             PROVE  /\ sessReg'[t.intent] = t.reg
                    /\ intent'[t.reg] # NoSession
                    /\ t.called => sessState'[t.intent] = "refunded"
    BY DEF RefundsAreOfCharges
<1>0. t.reg \in Regs /\ t.intent \in Sessions
    BY DEF Moves, TypeOK, Refunds
<1>1. ASSUME sessReg[t.intent] = t.reg
      PROVE  /\ sessReg'[t.intent] = t.reg
             /\ sessState[t.intent] = "refunded" => sessState'[t.intent] = "refunded"
    <2>1. sessState[t.intent] # "unused"
        BY <1>0, <1>1, NullsAreNew DEF Moves, MoneyInvariant, SessionsAreOfRows
    <2> QED
        BY <1>0, <1>1, <2>1 DEF Moves, StripeMoves
<1>2. CASE \E q \in refunds :
              /\ t.reg = q.reg /\ t.intent = q.intent
              /\ t = q \/ sessState'[t.intent] = "refunded"
    <2>1. PICK q \in refunds :
              /\ t.reg = q.reg /\ t.intent = q.intent
              /\ t = q \/ sessState'[t.intent] = "refunded"
        BY <1>2
    <2>2. /\ sessReg[q.intent] = q.reg /\ intent[q.reg] # NoSession
          /\ q.called => sessState[q.intent] = "refunded"
        BY DEF Moves, MoneyInvariant, RefundsAreOfCharges
    <2>3. sessReg[t.intent] = t.reg /\ intent[t.reg] # NoSession
        BY <2>1, <2>2
    <2>4. CASE t = q
        BY <1>0, <1>1, <2>2, <2>3, <2>4, ChargeStays
    <2>5. CASE sessState'[t.intent] = "refunded"
        BY <1>0, <1>1, <2>3, <2>5, ChargeStays
    <2> QED
        BY <2>1, <2>4, <2>5
<1>3. CASE /\ t.reg \in Regs /\ t.intent \in Sessions /\ intent'[t.reg] # NoSession
           /\ sessReg[t.intent] = t.reg
           /\ t.called => sessState[t.intent] = "refunded"
    BY <1>1, <1>3
<1> QED
    BY <1>2, <1>3 DEF Moves, RefundMoves

LEMMA RequestsStep == Moves => RequestsHaveCharges'
<1> SUFFICES ASSUME Moves, NEW r \in Regs, status'[r] = "refund_requested"
             PROVE  intent'[r] # NoSession
    BY DEF RequestsHaveCharges
<1>1. intent[r] # NoSession
    BY DEF Moves, RowMoves, PromotionTarget, MoneyInvariant, RequestsHaveCharges
<1> QED
    BY <1>1, ChargeStays

\* A row that was charged and is no longer seated only comes back paid again.
LEMMA ChargedRowEnds ==
    ASSUME Moves, NEW r \in Regs, intent[r] # NoSession,
           status[r] \notin Occupying \cup {"waitlisted"}, ~PaidAgain(r)'
    PROVE  status'[r] \notin Occupying \cup {"waitlisted"}
<1>1. status[r] # "none"
    BY ChargedRows DEF Moves, MoneyInvariant
<1>2. ~ \E s \in Sessions : Completed(s) /\ sessReg[s] = r /\ RecordPayment(r, s)
    BY CompletedAgain
<1> QED
    BY <1>1, <1>2 DEF Moves, RowMoves, Charged, Occupying

LEMMA DenialsStep == Moves => DenialsAreOfRequests'
<1> SUFFICES ASSUME Moves, NEW r \in denials'
             PROVE  /\ intent'[r] # NoSession
                    /\ status'[r] \in Occupying \cup {"waitlisted"} => PaidAgain(r)'
    BY DEF DenialsAreOfRequests
<1>1. r \in Regs
    BY DEF Moves, TypeOK
<1>2. /\ intent[r] # NoSession
      /\ status[r] \in Occupying \cup {"waitlisted"} => PaidAgain(r)
    BY <1>1 DEF Moves, DenialMoves, MoneyInvariant, DenialsAreOfRequests, RequestsHaveCharges, Occupying
<1> QED
    BY <1>1, <1>2, ChargeStays, PaidAgainStays, ChargedRowEnds

LEMMA StaleDenialStep == Moves => StaleDenialNeedsSecondPayment'
<1> SUFFICES ASSUME Moves, staleDenial'
             PROVE  \E r \in Regs : PaidAgain(r)'
    BY DEF StaleDenialNeedsSecondPayment
<1>1. CASE staleDenial
    BY <1>1, PaidAgainStays DEF Moves, MoneyInvariant, StaleDenialNeedsSecondPayment
<1>2. ASSUME NEW r \in denials, status[r] \in Occupying
      PROVE  \E q \in Regs : PaidAgain(q)'
    <2>1. r \in Regs
        BY <1>2 DEF Moves, TypeOK
    <2>2. PaidAgain(r)
        BY <1>2 DEF Moves, MoneyInvariant, DenialsAreOfRequests
    <2> QED
        BY <2>1, <2>2, PaidAgainStays
<1> QED
    BY <1>1, <1>2 DEF Moves, DenialMoves

LEMMA PaidStays == Moves => PaidOnlyByCharge'
<1> SUFFICES ASSUME Moves, IntentsAreCharges',
                    NEW r \in Regs, status'[r] = "paid", hasFee'
             PROVE  intent'[r] # NoSession
    BY IntentsStep DEF PaidOnlyByCharge, IntentsAreCharges, Rows
<1>1. hasFee
    BY DEF Moves, FeeMoves, QuietDraft
<1>2. CASE status[r] = "paid"
    BY <1>1, <1>2, ChargeStays DEF Moves, MoneyInvariant, MoneyMatchesRow, PaidOnlyByCharge, Rows
<1>3. CASE status[r] # "paid"
    <2>1. PICK s \in Sessions : sessReg[s] = r /\ RecordPayment(r, s)
        BY <1>1, <1>3 DEF Moves, RowMoves, PromotionTarget, Charged
    <2> QED
        BY <2>1, NullsAreNew DEF RecordPayment, Moves, TypeOK
<1> QED
    BY <1>2, <1>3

LEMMA ChargeAccounted == Moves => SoleChargeAccounted'
<1> SUFFICES ASSUME Moves, NEW s \in Sessions, Kept(s)', Sole(sessReg[s])'
             PROVE  \/ Owed(s)'
                    \/ /\ intent'[sessReg'[s]] = s
                       /\ status'[sessReg'[s]] \in {"paid", "refund_requested", "removed", "cancelled"}
    BY DEF SoleChargeAccounted
<1> DEFINE r == sessReg[s]
<1>1. sessState[s] \notin {"unused", "refunded"}
    BY DEF Moves, StripeMoves, Kept
<1>2. r \in Regs /\ sessReg'[s] = r
    BY <1>1 DEF Moves, StripeMoves, MoneyInvariant, SessionsAreOfRows
<1>3. Sole(r)
    BY <1>2, SoleBefore
<1>4. CASE ~Processed("completed", s)
    <2>1. ChargeLands(s)
        BY <1>4 DEF Moves, IntentMoves, Kept
    <2> QED
        BY <1>2, <2>1 DEF ChargeLands, Owed
<1>5. CASE Processed("completed", s)
    <2>1. Kept(s)
        BY <1>1, <1>5 DEF Kept, Moves, MoneyInvariant, CompletedAreCaptured
    <2>2. CASE Owed(s)
        <3>1. PICK t \in refunds : t.intent = s /\ ~t.called
            BY <2>2 DEF Owed
        <3>2. t \in refunds'
            BY <3>1 DEF Moves, RefundMoves, Kept
        <3> QED
            BY <3>1, <3>2 DEF Owed
    <2>3. CASE ~Owed(s)
        <3>1. /\ intent[r] = s
              /\ status[r] \in {"paid", "refund_requested", "removed", "cancelled"}
            BY <1>3, <2>1, <2>3 DEF Moves, MoneyInvariant, MoneyMatchesRow, SoleChargeAccounted
        <3>2. intent[r] # NoSession
            BY <3>1, NullsAreNew
        <3>3. intent'[r] = s
            BY <1>2, <1>3, <3>1, <3>2, SoleIntentStays
        <3>4. ~ \E t \in refunds : t.called /\ t.reg = r
            <4> SUFFICES ASSUME NEW t \in refunds, t.called, t.reg = r
                         PROVE  FALSE
                OBVIOUS
            <4>1. t.intent \in Sessions /\ sessReg[t.intent] = r /\ sessState[t.intent] = "refunded"
                BY DEF Moves, TypeOK, Refunds, MoneyInvariant, RefundsAreOfCharges
            <4>2. t.intent = s
                BY <1>3, <4>1 DEF Sole
            <4> QED
                BY <1>1, <4>1, <4>2
        <3>5. status'[r] \in {"paid", "refund_requested", "removed", "cancelled"}
            BY <1>2, <3>1, <3>4 DEF Moves, RowMoves, Charged
        <3> QED
            BY <1>2, <3>3, <3>5
    <2> QED
        BY <2>2, <2>3
<1> QED
    BY <1>4, <1>5

LEMMA RefundedHasMoney == Moves => SoleRefundedHasMoney'
<1> SUFFICES ASSUME Moves, NEW r \in Regs, status'[r] = "refunded", Sole(r)'
             PROVE  intent'[r] # NoSession /\ sessState'[intent'[r]] = "refunded"
    BY DEF SoleRefundedHasMoney, Rows
<1>1. Sole(r)
    BY SoleBefore
<1>2. intent[r] # NoSession /\ sessState[intent[r]] = "refunded"
    <2>1. CASE status[r] = "refunded"
        BY <1>1, <2>1 DEF Moves, MoneyInvariant, MoneyMatchesRow, SoleRefundedHasMoney, Rows
    <2>2. CASE status[r] # "refunded"
        <3>1. PICK t \in refunds : t.called /\ t.reg = r
            BY <2>2 DEF Moves, RowMoves, PromotionTarget, Charged
        <3>2. /\ intent[r] # NoSession
              /\ t.intent \in Sessions /\ sessReg[t.intent] = r /\ sessState[t.intent] = "refunded"
            BY <3>1 DEF Moves, TypeOK, Refunds, MoneyInvariant, RefundsAreOfCharges
        <3>3. t.intent = intent[r]
            BY <1>1, <3>2, SoleCharge DEF Moves
        <3> QED
            BY <3>2, <3>3
    <2> QED
        BY <2>1, <2>2
<1>3. intent[r] \in Sessions
    BY <1>2 DEF Moves, TypeOK
<1> QED
    BY <1>1, <1>2, <1>3, ChargeStays, SoleIntentStays DEF Moves, StripeMoves
-----------------------------------------------------------------------------
(* The theorems *)

LEMMA MoneyInit == Init => MoneyInvariant
<1> SUFFICES ASSUME Init PROVE MoneyInvariant
    OBVIOUS
<1>1. /\ seen = {} /\ refunds = {} /\ denials = {} /\ staleDenial = FALSE
      /\ \A r \in Regs : status[r] = "none" /\ intent[r] = NoSession
      /\ \A s \in Sessions : sessReg[s] = NoReg /\ sessState[s] = "unused"
    BY DEF Init
<1> QED
    BY <1>1 DEF MoneyInvariant, IntentsAreCharges, CompletedAreCaptured, SessionsAreOfRows,
        RefundsAreOfCharges, RequestsHaveCharges, DenialsAreOfRequests, StaleDenialNeedsSecondPayment,
        MoneyMatchesRow, PaidOnlyByCharge, SoleChargeAccounted, SoleRefundedHasMoney,
        Processed, Kept, Rows

LEMMA MoneyStep == SeatInvariant /\ SeatInvariant' /\ MoneyInvariant /\ [Next]_vars => MoneyInvariant'
<1> SUFFICES ASSUME SeatInvariant, SeatInvariant', MoneyInvariant, [Next]_vars
             PROVE  MoneyInvariant'
    OBVIOUS
<1>1. CASE Next
    <2>1. TypeOK /\ TypeOK' /\ SessionsHaveRows /\ QuietDraft
        BY DEF SeatInvariant
    <2>2. Moves
        BY <1>1, <2>1, RowsMove, StripeMove, IntentsMove, RefundsMove, DenialsMove, ChargesLand DEF Moves
    <2> QED
        BY <2>2, IntentsStep, CapturedStep, SessionRowsStep, RefundChargesStep, RequestsStep,
           DenialsStep, StaleDenialStep, PaidStays, ChargeAccounted, RefundedHasMoney
        DEF MoneyInvariant, MoneyMatchesRow
<1>2. CASE UNCHANGED vars
    BY <1>2 DEF MoneyInvariant, IntentsAreCharges, CompletedAreCaptured, SessionsAreOfRows,
        RefundsAreOfCharges, RequestsHaveCharges, DenialsAreOfRequests, StaleDenialNeedsSecondPayment,
        MoneyMatchesRow, PaidOnlyByCharge, SoleChargeAccounted, SoleRefundedHasMoney,
        Processed, Payments, PaidAgain, Kept, Owed, Sole, Rows
<1> QED
    BY <1>1, <1>2

\* The inductive invariant of the money holds in every reachable state, with
\* any number of players, rows, sessions and refunds under way.
THEOREM MoneyCorrect == Spec => []MoneyInvariant
<1>1. Init => MoneyInvariant
    BY MoneyInit
<1>2. SeatInvariant /\ SeatInvariant' /\ MoneyInvariant /\ [Next]_vars => MoneyInvariant'
    BY MoneyStep
<1> QED
    BY <1>1, <1>2, SeatsCorrect, PTL DEF Spec

\* A paid row of an event with a fee rests on a charge of its own; a row with
\* one session never loses its charge and is only called refunded when the
\* money went back, however webhooks, refunds and removals interleave.
THEOREM MoneyMatches == Spec => []MoneyMatchesRow
<1>1. MoneyInvariant => MoneyMatchesRow
    BY DEF MoneyInvariant
<1> QED
    BY <1>1, MoneyCorrect, PTL

\* DenyRefund takes a seat away only from a row for which a second completion
\* event was processed: without concurrent Pay calls and without a payment that
\* Stripe tells twice its unlocked write is harmless.
THEOREM StaleDenialNeedsPayment == Spec => []StaleDenialNeedsSecondPayment
<1>1. MoneyInvariant => StaleDenialNeedsSecondPayment
    BY DEF MoneyInvariant
<1> QED
    BY <1>1, MoneyCorrect, PTL
=============================================================================
