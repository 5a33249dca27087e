---------------------- MODULE RegistrationsSeatingProofs ----------------------
(***************************************************************************)
(* The waitlist is fair, and the registrations implement SeatAllocation as *)
(* long as no denial hits a seat.                                          *)
(*                                                                         *)
(* Every step is one of few moves of seats and queue (Moves below), each   *)
(* stated in terms of Rows and waitlist_pos alone.  Both theorems follow   *)
(* from the moves, whatever action made them.                              *)
(***************************************************************************)
EXTENDS RegistrationsSeating, RegistrationsProofs

USE DEF vars, eventVars, rowVars, stripeVars, flightVars

Same == UNCHANGED <<evStatus, maxParticipants>>

\* The rows in the queue after the step that were in it before keep their place.
PlacesKept ==
    \A r \in Rows(status, {"waitlisted"}) \cap Rows(status', {"waitlisted"}) :
        waitlistPos'[r] = waitlistPos[r]

\* No seat moves; rows may leave the queue.
LeavesQueue ==
    /\ Same /\ PlacesKept
    /\ Rows(status', Occupying) = Rows(status, Occupying)
    /\ Rows(status', {"waitlisted"}) \subseteq Rows(status, {"waitlisted"})

\* Rows leave, then promoteLocked serves the queue.
ServesQueue == Same /\ \E st : Vacates(st) /\ SetStatuses(Promote(st))

\* A row takes a free seat without queueing.
TakesSeat(r) ==
    /\ Same /\ PlacesKept
    /\ evStatus = "published" /\ Occupied(status) < maxParticipants
    /\ status[r] \notin Occupying \cup {"waitlisted"}
    /\ Rows(status', Occupying) = Rows(status, Occupying) \cup {r}
    /\ Rows(status', {"waitlisted"}) = Rows(status, {"waitlisted"})

JoinsQueue(r) ==
    /\ Same /\ PlacesKept
    /\ evStatus = "published" /\ Occupied(status) >= maxParticipants
    /\ status[r] \notin Occupying \cup {"waitlisted"}
    /\ Rows(status', Occupying) = Rows(status, Occupying)
    /\ Rows(status', {"waitlisted"}) = Rows(status, {"waitlisted"}) \cup {r}
    /\ waitlistPos'[r] = waitlistCounter + 1

\* The event closes, or is closed.
Closes ==
    /\ UNCHANGED maxParticipants
    /\ evStatus # "draft" /\ evStatus' \notin {"draft", "published"}
    /\ Rows(status', Occupying) \subseteq Rows(status, Occupying)
    /\ Rows(status', {"waitlisted"}) = {}

\* A denial takes a seat away and offers it to nobody.
DenialHits ==
    /\ Same /\ staleDenial'
    /\ Rows(status', Occupying) \subseteq Rows(status, Occupying)

SeatMoves ==
    \/ UpdateDraft \/ Publish \/ LeavesQueue \/ ServesQueue \/ Closes \/ DenialHits
    \/ \E r \in Regs : TakesSeat(r) \/ JoinsQueue(r)
-----------------------------------------------------------------------------
(* Every step is one of the moves *)

\* The places that SetStatuses keeps.
LEMMA SetKeepsPlaces ==
    ASSUME NEW st, SetStatuses(st)
    PROVE  status' = st /\ PlacesKept
BY DEF SetStatuses, PlacesKept, Rows

LEMMA FreeSpotServes ==
    ASSUME TypeOK, Same, NEW r \in Regs, NEW s \in Terminal \cup {"refund_requested"},
           s = "refund_requested" => status[r] \in Active,
           FreeSpot(r, s)
    PROVE  ServesQueue
BY OneVacates DEF FreeSpot, ServesQueue

\* A row without a seat leaves.
LEMMA UnseatedLeaves ==
    ASSUME TypeOK, Same, NEW r \in Regs, status[r] \notin Occupying,
           NEW s \in Terminal, SetStatus(r, s)
    PROVE  LeavesQueue
<1>1. status' = [status EXCEPT ![r] = s] /\ PlacesKept
    BY SetKeepsPlaces DEF SetStatus
<1> QED
    BY <1>1 DEF LeavesQueue, Rows, TypeOK, Terminal, Occupying

LEMMA StatusKeptLeaves ==
    ASSUME Same, UNCHANGED <<status, waitlistPos>>
    PROVE  LeavesQueue
BY DEF LeavesQueue, PlacesKept, Rows

LEMMA OrganizerMoves ==
    ASSUME SeatInvariant, UpdateDraft \/ Publish \/ Start \/ Finish \/ CancelEvent \/ Sweep
    PROVE  SeatMoves
<1>0. TypeOK /\ ClosedRegistration
    BY DEF SeatInvariant
<1>1. CASE Start
    <2> DEFINE st == [r \in Regs |-> CloseRow(status[r])]
    <2>1. /\ evStatus # "draft" /\ evStatus' \notin {"draft", "published"} /\ UNCHANGED maxParticipants
          /\ status' = st
        BY <1>1, SetKeepsPlaces DEF Start
    <2>2. Rows(st, {"waitlisted"}) = {}
        BY DEF Rows, CloseRow
    <2>3. Rows(st, Occupying) \subseteq Rows(status, Occupying)
        BY DEF Rows, CloseRow, Occupying
    <2> HIDE DEF st
    <2>4. Closes
        BY <2>1, <2>2, <2>3 DEF Closes
    <2> QED
        BY <2>4 DEF SeatMoves
<1>2. CASE Finish
    <2>1. /\ evStatus = "started" /\ evStatus' = "finished" /\ UNCHANGED <<maxParticipants, status>>
        BY <1>2 DEF Finish
    <2>2. Rows(status, {"waitlisted"}) = {}
        BY <1>0, <2>1 DEF ClosedRegistration, Rows
    <2> QED
        BY <2>1, <2>2 DEF SeatMoves, Closes, Rows
<1>3. CASE CancelEvent
    <2> DEFINE st == [r \in Regs |-> IF status[r] \in Active /\ r \notin Refundable
                                     THEN "cancelled" ELSE status[r]]
    <2>1. /\ evStatus # "draft" /\ evStatus' \notin {"draft", "published"} /\ UNCHANGED maxParticipants
          /\ status' = st
        BY <1>3, SetKeepsPlaces DEF CancelEvent
    <2>2. Rows(st, {"waitlisted"}) = {}
        BY DEF Rows, Refundable, Active
    <2>3. Rows(st, Occupying) \subseteq Rows(status, Occupying)
        BY DEF Rows, Occupying
    <2> HIDE DEF st
    <2>4. Closes
        BY <2>1, <2>2, <2>3 DEF Closes
    <2> QED
        BY <2>4 DEF SeatMoves
<1>4. CASE Sweep
    <2> DEFINE st == [r \in Regs |-> IF r \in Overdue THEN "expired" ELSE status[r]]
    <2>1. SetStatuses(Promote(st)) /\ Same
        BY <1>4 DEF Sweep, Same
    <2>2. Vacates(st)
        BY <1>0 DEF Vacates, TypeOK, RowStatuses, Active, Occupying, Terminal
    <2> QED
        BY <2>1, <2>2 DEF SeatMoves, ServesQueue
<1> QED
    BY <1>1, <1>2, <1>3, <1>4 DEF SeatMoves

LEMMA RegisterMoves ==
    ASSUME SeatInvariant, NEW u \in Users, NEW r \in Regs,
           RegisterWaitlisted(u, r) \/ RegisterInSpot(u, r)
    PROVE  SeatMoves
<1>1. /\ TypeOK /\ Same /\ evStatus = "published"
      /\ status[r] = "none" /\ status[r] \notin Occupying \cup {"waitlisted"}
    BY DEF SeatInvariant, Same, RegisterWaitlisted, RegisterInSpot, RegisterAs, Occupying
<1>2. CASE RegisterWaitlisted(u, r)
    <2>1. /\ Occupied(status) >= maxParticipants
          /\ status' = [status EXCEPT ![r] = "waitlisted"]
          /\ waitlistPos' = [waitlistPos EXCEPT ![r] = waitlistCounter + 1]
        BY <1>2 DEF RegisterWaitlisted, RegisterAs
    <2>2. /\ Rows(status', Occupying) = Rows(status, Occupying)
          /\ Rows(status', {"waitlisted"}) = Rows(status, {"waitlisted"}) \cup {r}
        BY <1>1, <2>1 DEF Rows, TypeOK, Occupying
    <2>3. PlacesKept /\ waitlistPos'[r] = waitlistCounter + 1
        BY <1>1, <2>1 DEF PlacesKept, Rows, TypeOK
    <2> QED
        BY <1>1, <2>1, <2>2, <2>3 DEF SeatMoves, JoinsQueue
<1>3. CASE RegisterInSpot(u, r)
    <2>1. /\ Occupied(status) < maxParticipants
          /\ status' = [status EXCEPT ![r] = PromotionTarget]
          /\ waitlistPos' = [waitlistPos EXCEPT ![r] = 0]
        BY <1>3 DEF RegisterInSpot, RegisterAs
    <2>2. /\ Rows(status', Occupying) = Rows(status, Occupying) \cup {r}
          /\ Rows(status', {"waitlisted"}) = Rows(status, {"waitlisted"})
        BY <1>1, <2>1 DEF Rows, TypeOK, Occupying, PromotionTarget
    <2>3. PlacesKept
        BY <1>1, <2>1 DEF PlacesKept, Rows, TypeOK
    <2> QED
        BY <1>1, <2>1, <2>2, <2>3 DEF SeatMoves, TakesSeat
<1> QED
    BY <1>2, <1>3

LEMMA RowStepMoves ==
    ASSUME SeatInvariant, NEW r \in Regs,
           \/ CancelWaitlisted(r) \/ CancelUncharged(r)
           \/ CancelInWindow(r) \/ CancelPastDeadline(r)
           \/ OrganizerRefund(r) \/ DenyRead(r) \/ DenyWrite(r) \/ WindowPasses(r)
           \/ \E s \in Sessions : PayCheck(r, s)
           \/ \E keepPayment \in BOOLEAN : RemoveRegistration(r, keepPayment)
    PROVE  SeatMoves
<1>0. /\ TypeOK /\ Same
      /\ "cancelled" \in Terminal /\ "removed" \in Terminal
    BY DEF SeatInvariant, Terminal, Same, CancelWaitlisted, CancelUncharged, CancelInWindow,
           CancelPastDeadline, OrganizerRefund, DenyRead, DenyWrite, WindowPasses, PayCheck,
           RemoveRegistration
<1>1. CASE CancelWaitlisted(r)
    BY <1>0, <1>1, UnseatedLeaves DEF CancelWaitlisted, SeatMoves, Occupying
<1>2. CASE CancelUncharged(r) \/ \E keepPayment \in BOOLEAN : RemoveRegistration(r, keepPayment)
    BY <1>0, <1>2, FreeSpotServes DEF CancelUncharged, RemoveRegistration, SeatMoves
<1>3. CASE CancelPastDeadline(r)
    <2>1. status[r] \in Active /\ FreeSpot(r, "refund_requested")
        BY <1>3 DEF CancelPastDeadline, Active, Occupying
    <2> QED
        BY <1>0, <2>1, FreeSpotServes DEF SeatMoves
<1>4. CASE DenyWrite(r)
    <2>1. SetStatus(r, "cancelled") /\ (staleDenial' <=> staleDenial \/ status[r] \in Occupying)
        BY <1>4 DEF DenyWrite
    <2>2. CASE status[r] \notin Occupying
        BY <1>0, <2>1, <2>2, UnseatedLeaves DEF SeatMoves
    <2>3. CASE status[r] \in Occupying
        <3>1. status' = [status EXCEPT ![r] = "cancelled"] /\ staleDenial'
            BY <2>1, <2>3, SetKeepsPlaces DEF SetStatus
        <3>2. Rows(status', Occupying) \subseteq Rows(status, Occupying)
            BY <1>0, <3>1 DEF Rows, TypeOK, Occupying
        <3> QED
            BY <1>0, <3>1, <3>2 DEF SeatMoves, DenialHits
    <2> QED
        BY <2>2, <2>3
<1>5. CASE \/ CancelInWindow(r) \/ OrganizerRefund(r) \/ DenyRead(r) \/ WindowPasses(r)
           \/ \E s \in Sessions : PayCheck(r, s)
    <2>1. UNCHANGED <<status, waitlistPos>>
        BY <1>5 DEF CancelInWindow, OrganizerRefund, DenyRead, WindowPasses, PayCheck
    <2> QED
        BY <1>0, <2>1, StatusKeptLeaves DEF SeatMoves
<1> QED
    BY <1>1, <1>2, <1>3, <1>4, <1>5

LEMMA RefundStepMoves ==
    ASSUME SeatInvariant, NEW t \in refunds,
           CallRefund(t) \/ FinalizeRefund(t) \/ FinalizeCancelledRow(t)
    PROVE  SeatMoves
<1>0. TypeOK /\ Same /\ t.reg \in Regs /\ "refunded" \in Terminal
    BY DEF SeatInvariant, TypeOK, Refunds, Terminal, Same, CallRefund, FinalizeRefund, FinalizeCancelledRow
<1>1. CASE CallRefund(t)
    BY <1>0, <1>1, StatusKeptLeaves DEF CallRefund, SeatMoves
<1>2. CASE FinalizeRefund(t)
    BY <1>0, <1>2, FreeSpotServes, UnseatedLeaves DEF FinalizeRefund, MarkRefunded, SeatMoves
<1>3. CASE FinalizeCancelledRow(t)
    <2>1. /\ evStatus = "cancelled" /\ UNCHANGED <<evStatus, maxParticipants>>
          /\ status' = [status EXCEPT ![t.reg] = "refunded"]
        BY <1>3, SetKeepsPlaces
        DEF SeatInvariant, CancelledRowRefunds, FinalizeCancelledRow, SetStatus
    <2>2. Rows(status, {"waitlisted"}) = {}
        BY <2>1 DEF SeatInvariant, ClosedRegistration, Rows
    <2>3. /\ Rows(status', {"waitlisted"}) = {}
          /\ Rows(status', Occupying) \subseteq Rows(status, Occupying)
        BY <1>0, <2>1, <2>2 DEF Rows, TypeOK, Occupying
    <2> QED
        BY <2>1, <2>3 DEF SeatMoves, Closes
<1> QED
    BY <1>1, <1>2, <1>3

LEMMA SessionStepMoves ==
    ASSUME SeatInvariant, NEW s \in Sessions,
           \/ PayStore(s) \/ PayFails(s) \/ ExpireRemoved(s)
           \/ CustomerPays(s) \/ StripeExpires(s) \/ DashboardRefund(s) \/ SessionTimePasses(s)
           \/ CompletedInTime(s) \/ CompletedTwice(s) \/ CompletedLate(s)
           \/ HandleCheckoutExpired(s) \/ HandleChargeRefunded(s)
    PROVE  SeatMoves
<1>0. TypeOK /\ Same
    BY DEF SeatInvariant, Same, PayStore, PayFails, ExpireRemoved, CustomerPays, StripeExpires,
           DashboardRefund, SetSession, SessionTimePasses, CompletedInTime, CompletedTwice,
           CompletedLate, HandleCheckoutExpired, HandleChargeRefunded
<1>1. CASE UNCHANGED <<status, waitlistPos>>
    BY <1>0, <1>1, StatusKeptLeaves DEF SeatMoves
<1>2. CASE \/ PayStore(s) \/ PayFails(s) \/ ExpireRemoved(s) \/ CustomerPays(s) \/ StripeExpires(s)
           \/ DashboardRefund(s) \/ SessionTimePasses(s) \/ CompletedTwice(s)
           \/ HandleChargeRefunded(s)
    BY <1>1, <1>2 DEF PayStore, PayFails, CustomerPays, StripeExpires, DashboardRefund,
           ExpireRemoved, SetSession, SessionTimePasses, CompletedTwice, HandleChargeRefunded
<1> DEFINE r == sessReg[s]
<1>3. CASE CompletedInTime(s)
    <2>1. r \in Regs /\ status[r] = "pending_payment" /\ SetStatus(r, "paid")
        BY <1>3 DEF CompletedInTime, Completed, SeatInvariant, SessionsHaveRows
    <2>2. status' = [status EXCEPT ![r] = "paid"] /\ PlacesKept
        BY <2>1, SetKeepsPlaces DEF SetStatus
    <2>3. /\ Rows(status', Occupying) = Rows(status, Occupying)
          /\ Rows(status', {"waitlisted"}) = Rows(status, {"waitlisted"})
        BY <1>0, <2>1, <2>2 DEF Rows, TypeOK, Occupying
    <2> QED
        BY <1>0, <2>2, <2>3 DEF SeatMoves, LeavesQueue
<1>4. CASE CompletedLate(s) /\ ~UNCHANGED <<status, waitlistPos>>
    <2>1. /\ r \in Regs /\ Reclaimable(r) /\ SetStatus(r, "paid")
          /\ status[r] \notin {"pending_payment", "paid"}
        BY <1>4 DEF CompletedLate, Completed, SeatInvariant, SessionsHaveRows
    <2>2. /\ evStatus = "published" /\ Occupied(status) < maxParticipants
          /\ status[r] \notin Occupying \cup {"waitlisted"}
        BY <2>1 DEF Reclaimable, ActiveRows, Active, Occupying
    <2>3. status' = [status EXCEPT ![r] = "paid"] /\ PlacesKept
        BY <2>1, SetKeepsPlaces DEF SetStatus
    <2>4. /\ Rows(status', Occupying) = Rows(status, Occupying) \cup {r}
          /\ Rows(status', {"waitlisted"}) = Rows(status, {"waitlisted"})
        BY <1>0, <2>1, <2>2, <2>3 DEF Rows, TypeOK, Occupying
    <2>5. TakesSeat(r)
        BY <1>0, <2>2, <2>3, <2>4 DEF TakesSeat
    <2> QED
        BY <2>1, <2>5 DEF SeatMoves
<1>5. CASE HandleCheckoutExpired(s) /\ ~UNCHANGED <<status, waitlistPos>>
    <2>1. r \in Regs /\ FreeSpot(r, "expired")
        BY <1>5 DEF HandleCheckoutExpired, SeatInvariant, SessionsHaveRows
    <2> QED
        BY <1>0, <2>1, FreeSpotServes DEF SeatMoves, Terminal
<1> QED
    BY <1>1, <1>2, <1>3, <1>4, <1>5

LEMMA StepsAreSeatMoves ==
    ASSUME SeatInvariant, Next
    PROVE  SeatMoves
BY OrganizerMoves, RegisterMoves, RowStepMoves, RefundStepMoves, SessionStepMoves DEF Next
-----------------------------------------------------------------------------
(* The waitlist *)

\* Whoever is ahead of a promoted row is promoted too.
LEMMA PromoteInOrder ==
    ASSUME TypeOK, NEW st, NEW r \in Rows(st, {"waitlisted"}), NEW q \in Rows(st, {"waitlisted"}),
           waitlistPos[r] <= waitlistPos[q], Promote(st)[q] # "waitlisted"
    PROVE  Promote(st)[r] \in Occupying
<1>1. r \in Regs /\ q \in Regs /\ st[r] = "waitlisted" /\ st[q] = "waitlisted"
    BY DEF Rows
<1>2. Ahead(st, r) \subseteq Ahead(st, q)
    BY <1>1 DEF Ahead, Rows, TypeOK
<1>3. Cardinality(Ahead(st, r)) <= Cardinality(Ahead(st, q))
    BY <1>2, AheadFinite, FS_Subset
<1>4. Occupied(st) + Cardinality(Ahead(st, q)) < maxParticipants
    BY <1>1 DEF Promote
<1>5. Occupied(st) + Cardinality(Ahead(st, r)) < maxParticipants
    BY <1>3, <1>4, AheadFinite, OccupiedNat, MaxCapacityPositive DEF TypeOK
<1> QED
    BY <1>1, <1>5 DEF Promote, PromotionTarget, Occupying

QueueInOrder ==
    \A r, q \in Rows(status, {"waitlisted"}) :
        waitlistPos[r] < waitlistPos[q] /\ status'[q] \in Occupying => status'[r] # "waitlisted"

NobodyJumpsQueue ==
    \A r \in Regs :
        status[r] \notin Occupying \cup {"waitlisted"} /\ status'[r] \in Occupying
            => staleDenial \/ Rows(status, {"waitlisted"}) = {}

LEMMA FairStep ==
    ASSUME SeatInvariant, Next
    PROVE  QueueInOrder /\ NobodyJumpsQueue
<1>0. TypeOK /\ NoIdleSpotButStaleDenial /\ QuietDraft
    BY DEF SeatInvariant
<1>1. CASE Rows(status', Occupying) \subseteq Rows(status, Occupying)
    <2>1. ASSUME NEW q \in Regs, status'[q] \in Occupying
          PROVE  status[q] \in Occupying
        BY <1>1, <2>1 DEF Rows
    <2> QED
        BY <2>1 DEF QueueInOrder, NobodyJumpsQueue, Rows, Occupying
<1>2. CASE UpdateDraft \/ Publish
    BY <1>1, <1>2 DEF UpdateDraft, Publish
<1>3. CASE LeavesQueue \/ Closes \/ DenialHits \/ \E r \in Regs : JoinsQueue(r)
    BY <1>1, <1>3 DEF LeavesQueue, Closes, DenialHits, JoinsQueue
<1>4. CASE ServesQueue
    <2>1. PICK st : Vacates(st) /\ SetStatuses(Promote(st))
        BY <1>4 DEF ServesQueue
    <2>2. /\ status' = Promote(st)
          /\ \A r \in Regs : st[r] = status[r] \/ st[r] \notin Occupying \cup {"waitlisted"}
          /\ \A r \in Regs : Promote(st)[r] = st[r]
                                \/ (st[r] = "waitlisted" /\ Promote(st)[r] \in Occupying)
        BY <2>1, PromoteRow DEF SetStatuses, Vacates
    <2>3. NobodyJumpsQueue
        BY <2>2 DEF NobodyJumpsQueue
    <2>4. QueueInOrder
        <3> SUFFICES ASSUME NEW r \in Rows(status, {"waitlisted"}),
                            NEW q \in Rows(status, {"waitlisted"}),
                            waitlistPos[r] < waitlistPos[q], status'[q] \in Occupying,
                            status'[r] = "waitlisted"
                     PROVE  FALSE
            BY DEF QueueInOrder
        <3>1. /\ r \in Rows(st, {"waitlisted"}) /\ q \in Rows(st, {"waitlisted"})
              /\ Promote(st)[q] # "waitlisted"
            BY <2>2 DEF Rows, Occupying
        <3>2. waitlistPos[r] <= waitlistPos[q]
            BY <1>0 DEF TypeOK, Rows
        <3>3. Promote(st)[r] \in Occupying
            BY <1>0, <3>1, <3>2, PromoteInOrder
        <3> QED
            BY <2>2, <3>3 DEF Occupying
    <2> QED
        BY <2>3, <2>4
<1>5. ASSUME NEW r \in Regs, TakesSeat(r)
      PROVE  QueueInOrder /\ NobodyJumpsQueue
    <2>1. /\ Occupied(status) < maxParticipants
          /\ Rows(status', Occupying) = Rows(status, Occupying) \cup {r}
          /\ Rows(status', {"waitlisted"}) = Rows(status, {"waitlisted"})
        BY <1>5 DEF TakesSeat
    <2>2. QueueInOrder
        BY <2>1 DEF QueueInOrder, Rows, Occupying
    <2>3. staleDenial \/ Rows(status, {"waitlisted"}) = {}
        BY <1>0, <2>1, OccupiedNat, MaxCapacityPositive
        DEF NoIdleSpotButStaleDenial, NoIdleSpot, TypeOK
    <2> QED
        BY <2>2, <2>3 DEF NobodyJumpsQueue
<1> QED
    BY <1>2, <1>3, <1>4, <1>5, StepsAreSeatMoves DEF SeatMoves

\* The waitlist is served in the order of waitlist_pos, and nobody who was not
\* waiting takes a seat over it, by registering or by paying late: for every
\* number of players, rows and sessions.
THEOREM WaitlistServedFairly == Spec => WaitlistIsFair
<1>1. SeatInvariant /\ [Next]_vars =>
        [ /\ \A r, q \in Rows(status, {"waitlisted"}) :
                waitlistPos[r] < waitlistPos[q] /\ status'[q] \in Occupying
                   => status'[r] # "waitlisted"
          /\ \A r \in Regs :
                status[r] \notin Occupying \cup {"waitlisted"} /\ status'[r] \in Occupying
                   => staleDenial \/ Rows(status, {"waitlisted"}) = {} ]_vars
    BY FairStep DEF QueueInOrder, NobodyJumpsQueue
<1> QED
    BY <1>1, SeatsCorrect, PTL DEF Spec, WaitlistIsFair
-----------------------------------------------------------------------------
(* The refinement: every move is a step of SeatAllocation *)

Seated == Rows(status, Occupying)

LEMMA PhaseIs ==
    /\ evStatus = "draft" => Phase = "planned"
    /\ evStatus = "published" => Phase = "open"
    /\ evStatus \notin {"draft", "published"} => Phase = "closed"
    /\ evStatus' = "draft" => Phase' = "planned"
    /\ evStatus' = "published" => Phase' = "open"
    /\ evStatus' \notin {"draft", "published"} => Phase' = "closed"
BY DEF Phase

LEMMA BeforeIs ==
    /\ \A c, d : <<c, d>> \in Before <=>
            c \in Waitlist /\ d \in Waitlist /\ waitlistPos[c] < waitlistPos[d]
    /\ \A c, d : <<c, d>> \in Before' <=>
            c \in Waitlist' /\ d \in Waitlist' /\ waitlistPos'[c] < waitlistPos'[d]
    /\ Before \subseteq Waitlist \X Waitlist
    /\ Before' \subseteq Waitlist' \X Waitlist'
BY DEF Before

\* SeatAllocation counts as this module does.
LEMMA SameCount ==
    ASSUME NEW S
    PROVE  Seating!Cardinality(S) = Cardinality(S)
BY DEF Cardinality, Seating!Cardinality

\* Rows leave the seats and the queue, and the head of the queue moves up.
LEMMA LeaveMaps ==
    ASSUME SeatInvariant, SeatInvariant', ~staleDenial', Same, PlacesKept,
           evStatus = "published",
           Seated' \subseteq Seated \cup Waitlist,
           Waitlist' \subseteq Waitlist, Seated \cap Waitlist' = {},
           \A c \in Waitlist \cap Seated', d \in Waitlist' : waitlistPos[c] < waitlistPos[d]
    PROVE  \E S \in SUBSET Regs : Seating!Leave(S)
<1> DEFINE S == (Seated \cup Waitlist) \ (Seated' \cup Waitlist')
           head == Waitlist \cap Seated'
<1>1. S \in SUBSET Regs /\ head \in SUBSET (Waitlist \ S)
    BY DEF Seated, Waitlist, Rows
<1>2. Waitlist' \cap Seated' = {}
    BY DEF Seated, Waitlist, Rows, Occupying
<1>3. (Waitlist \ S) \ head = Waitlist'
    BY <1>2
<1>4. Seated' = (Seated \ S) \cup head
    BY <1>2
<1>5. head \X Waitlist' \subseteq Before
    BY BeforeIs
<1>6. Before' = Before \cap (Waitlist' \X Waitlist')
    <2>1. \A c, d \in Waitlist' : waitlistPos'[c] = waitlistPos[c] /\ waitlistPos'[d] = waitlistPos[d]
        BY DEF PlacesKept, Waitlist
    <2>2. \A c, d : <<c, d>> \in Before' <=> <<c, d>> \in Before /\ c \in Waitlist' /\ d \in Waitlist'
        BY <2>1, BeforeIs
    <2> QED
        BY <2>2, BeforeIs
<1>7. Cardinality(Seated') <= maxParticipants
    BY DEF SeatInvariant, Capacity, Occupied, Seated, Same
<1>8. Waitlist' # {} => Cardinality(Seated') = maxParticipants
    <2>1. Waitlist' # {} => Cardinality(Seated') >= maxParticipants
        BY DEF SeatInvariant, NoIdleSpotButStaleDenial, NoIdleSpot, Occupied, Seated, Waitlist, Same
    <2>2. Cardinality(Seated') \in Nat /\ maxParticipants \in Nat
        BY RowsFinite, MaxCapacityPositive DEF Seated, SeatInvariant, TypeOK
    <2> QED
        BY <1>7, <2>1, <2>2
<1>9. Phase = "open" /\ Phase' = Phase /\ maxParticipants' = maxParticipants
    BY PhaseIs DEF Same
<1> HIDE DEF S, head
<1>10. Seating!Leave(S)
    <2>1. /\ head \in SUBSET (Waitlist \ S)
          /\ head \X ((Waitlist \ S) \ head) \subseteq Before
          /\ Seated' = (Seated \ S) \cup head
          /\ IF (Waitlist \ S) \ head = {} THEN Cardinality(Seated') <= maxParticipants
                                         ELSE Cardinality(Seated') = maxParticipants
          /\ Waitlist' = (Waitlist \ S) \ head
          /\ Before' = Before \cap (((Waitlist \ S) \ head) \X ((Waitlist \ S) \ head))
        BY <1>1, <1>3, <1>4, <1>5, <1>6, <1>7, <1>8
    <2>2. Seating!Cardinality(Seated') = Cardinality(Seated')
        BY SameCount
    <2> QED
        BY <1>9, <2>1, <2>2 DEF Seating!Leave, Seated
<1> QED
    BY <1>1, <1>10

\* Outside "published" there is nobody to leave the queue or to be served.
LEMMA NobodyWaits ==
    ASSUME SeatInvariant, SeatInvariant', Same, evStatus # "draft", evStatus # "published",
           Seated' \subseteq Seated \cup Waitlist
    PROVE  Closes
<1>1. Waitlist = {} /\ Waitlist' = {}
    BY DEF SeatInvariant, ClosedRegistration, Waitlist, Rows, Same
<1>2. evStatus' = evStatus /\ evStatus \notin {"draft", "published"}
    BY DEF Same
<1> QED
    BY <1>1, <1>2 DEF Closes, Waitlist, Seated, Same

LEMMA CloseMaps ==
    ASSUME Closes
    PROVE  Seating!Close
<1>1. Before' = {} /\ Waitlist' = {}
    BY BeforeIs DEF Closes, Waitlist
<1>2. Phase \in {"open", "closed"} /\ Phase' = "closed"
    BY PhaseIs DEF Closes
<1> QED
    BY <1>1, <1>2 DEF Closes, Seating!Close

\* Before a draft is published there are no rows at all.
LEMMA DraftMaps ==
    ASSUME SeatInvariant, SeatInvariant', UpdateDraft \/ Publish
    PROVE  Seating!Plan \/ Seating!Open
<1>1. /\ evStatus = "draft" /\ UNCHANGED <<status, waitlistPos>>
      /\ maxParticipants' \in 1..MaxCapacity
    BY DEF UpdateDraft, Publish, SeatInvariant, TypeOK
<1>2. /\ Rows(status', Occupying) = Rows(status, Occupying)
      /\ Waitlist' = Waitlist /\ Before' = Before
    BY <1>1 DEF Rows, Waitlist, Before
<1>3. CASE UpdateDraft
    BY <1>1, <1>2, <1>3, PhaseIs DEF UpdateDraft, Seating!Plan
<1>4. CASE Publish
    BY <1>1, <1>2, <1>4, PhaseIs DEF Publish, Seating!Open
<1> QED
    BY <1>3, <1>4

LEMMA LeavesQueueMaps ==
    ASSUME SeatInvariant, SeatInvariant', ~staleDenial', LeavesQueue, evStatus # "draft"
    PROVE  Seating!Next
<1>1. /\ Same /\ PlacesKept /\ Seated' = Seated /\ Waitlist' \subseteq Waitlist
    BY DEF LeavesQueue, Seated, Waitlist
<1>2. Seated \cap Waitlist = {}
    BY DEF Seated, Waitlist, Rows, Occupying
<1>3. CASE evStatus = "published"
    BY <1>1, <1>2, <1>3, LeaveMaps DEF Seating!Next
<1>4. CASE evStatus # "published"
    BY <1>1, <1>4, NobodyWaits, CloseMaps DEF Seating!Next
<1> QED
    BY <1>3, <1>4

LEMMA ServesQueueMaps ==
    ASSUME SeatInvariant, SeatInvariant', ~staleDenial', ServesQueue, evStatus # "draft"
    PROVE  Seating!Next
<1>1. PICK st : Vacates(st) /\ SetStatuses(Promote(st))
    BY DEF ServesQueue
<1>2. /\ Same /\ PlacesKept /\ status' = Promote(st)
      /\ st \in [Regs -> RowStatuses]
      /\ \A r \in Regs : st[r] = status[r] \/ st[r] \notin Occupying \cup {"waitlisted"}
      /\ \A r \in Regs : Promote(st)[r] = st[r]
                            \/ (st[r] = "waitlisted" /\ Promote(st)[r] \in Occupying)
    BY <1>1, PromoteRow, SetKeepsPlaces DEF ServesQueue, SetStatuses, Vacates
<1>3. /\ Seated' \subseteq Seated \cup Waitlist
      /\ Waitlist' \subseteq Waitlist /\ Seated \cap Waitlist' = {}
    BY <1>2 DEF Seated, Waitlist, Rows, Occupying
<1>4. ASSUME NEW c \in Waitlist \cap Seated', NEW d \in Waitlist'
      PROVE  waitlistPos[c] < waitlistPos[d]
    <2>1. /\ c \in Rows(st, {"waitlisted"}) /\ Promote(st)[c] # "waitlisted"
          /\ d \in Rows(st, {"waitlisted"}) /\ Promote(st)[d] = "waitlisted"
        BY <1>2 DEF Waitlist, Seated, Rows, Occupying
    <2>2. Promote(st)[d] \notin Occupying
        BY <2>1 DEF Occupying
    <2>3. ~(waitlistPos[d] <= waitlistPos[c])
        BY <2>1, <2>2, PromoteInOrder DEF SeatInvariant
    <2>4. waitlistPos[c] \in Nat /\ waitlistPos[d] \in Nat
        BY <2>1 DEF SeatInvariant, TypeOK, Rows
    <2> QED
        BY <2>3, <2>4
<1>5. CASE evStatus = "published"
    BY <1>2, <1>3, <1>4, <1>5, LeaveMaps DEF Seating!Next
<1>6. CASE evStatus # "published"
    BY <1>2, <1>3, <1>6, NobodyWaits, CloseMaps DEF Seating!Next
<1> QED
    BY <1>5, <1>6

LEMMA TakesSeatMaps ==
    ASSUME SeatInvariant, ~staleDenial, NEW r \in Regs, TakesSeat(r)
    PROVE  Seating!Seat(r)
<1>1. /\ evStatus = "published" /\ Occupied(status) < maxParticipants
      /\ UNCHANGED <<evStatus, maxParticipants>>
      /\ r \notin Rows(status, Occupying)
      /\ Rows(status', Occupying) = Rows(status, Occupying) \cup {r}
      /\ Waitlist' = Waitlist
    BY DEF TakesSeat, Same, Waitlist, Rows
<1>2. Waitlist = {}
    BY <1>1, OccupiedNat, MaxCapacityPositive
    DEF SeatInvariant, NoIdleSpotButStaleDenial, NoIdleSpot, Waitlist, TypeOK
<1>3. Before = {} /\ Before' = {}
    BY <1>1, <1>2, BeforeIs
<1>4. Seating!Cardinality(Rows(status, Occupying)) < maxParticipants
    BY <1>1, SameCount DEF Occupied
<1>5. Phase = "open" /\ Phase' = "open"
    BY <1>1, PhaseIs
<1> QED
    BY <1>1, <1>2, <1>3, <1>4, <1>5 DEF Seating!Seat

LEMMA JoinsQueueMaps ==
    ASSUME SeatInvariant, NEW r \in Regs, JoinsQueue(r)
    PROVE  Seating!Queue(r)
<1>1. /\ evStatus = "published" /\ Occupied(status) >= maxParticipants
      /\ UNCHANGED <<evStatus, maxParticipants>>
      /\ r \notin Rows(status, Occupying) \cup Waitlist
      /\ Rows(status', Occupying) = Rows(status, Occupying)
      /\ Waitlist' = Waitlist \cup {r}
      /\ \A c \in Waitlist : waitlistPos'[c] = waitlistPos[c]
      /\ waitlistPos'[r] = waitlistCounter + 1
    BY DEF JoinsQueue, Same, PlacesKept, Waitlist, Rows
<1>2. Seating!Cardinality(Rows(status, Occupying)) = maxParticipants
    BY <1>1, SameCount, OccupiedNat, MaxCapacityPositive DEF SeatInvariant, Capacity, Occupied, TypeOK
<1>3. \A c \in Waitlist : waitlistPos[c] \in 1..waitlistCounter
    BY DEF SeatInvariant, WaitlistPositions, Waitlist, Rows
<1>4. waitlistCounter \in Nat
    BY DEF SeatInvariant, TypeOK
<1>5. \A c, d \in Waitlist' :
          waitlistPos'[c] < waitlistPos'[d]
             <=> \/ c \in Waitlist /\ d \in Waitlist /\ waitlistPos[c] < waitlistPos[d]
                 \/ c \in Waitlist /\ d = r
    BY <1>1, <1>3, <1>4
<1>6. \A c, d : <<c, d>> \in Before' <=> <<c, d>> \in Before \cup (Waitlist \X {r})
    BY <1>1, <1>5, BeforeIs
<1>7. Before' = Before \cup (Waitlist \X {r})
    BY <1>1, <1>6, BeforeIs
<1>8. Phase = "open" /\ Phase' = "open"
    BY <1>1, PhaseIs
<1> QED
    BY <1>1, <1>2, <1>7, <1>8 DEF Seating!Queue

LEMMA SeatingInit == Init => Seating!Init
<1> SUFFICES ASSUME Init PROVE Seating!Init
    OBVIOUS
<1>1. /\ evStatus = "draft" /\ maxParticipants \in 1..MaxCapacity
      /\ \A r \in Regs : status[r] = "none"
    BY DEF Init
<1>2. Rows(status, Occupying) = {} /\ Waitlist = {}
    BY <1>1 DEF Rows, Waitlist, Occupying
<1>3. Before = {} /\ Phase = "planned"
    BY <1>1, <1>2, BeforeIs, PhaseIs
<1> QED
    BY <1>1, <1>2, <1>3 DEF Seating!Init

LEMMA SeatingStep ==
    SeatInvariant /\ SeatInvariant' /\ ~staleDenial /\ ~staleDenial' /\ [Next]_vars
        => [Seating!Next]_(Seating!vars)
<1> SUFFICES ASSUME SeatInvariant, SeatInvariant', ~staleDenial, ~staleDenial', [Next]_vars
             PROVE  [Seating!Next]_(Seating!vars)
    OBVIOUS
<1>1. CASE UNCHANGED vars
    BY <1>1 DEF Seating!vars, Phase, Waitlist, Before, Rows
<1>2. CASE Next /\ evStatus = "draft"
    <2>1. UpdateDraft \/ Publish
        BY <1>2, DraftSteps DEF SeatInvariant
    <2> QED
        BY <2>1, DraftMaps DEF Seating!Next
<1>3. CASE Next /\ evStatus # "draft"
    <2>1. \/ LeavesQueue \/ ServesQueue \/ Closes
          \/ \E r \in Regs : TakesSeat(r) \/ JoinsQueue(r)
        BY <1>3, StepsAreSeatMoves DEF SeatMoves, DenialHits, UpdateDraft, Publish
    <2>2. CASE LeavesQueue \/ ServesQueue
        BY <1>3, <2>2, LeavesQueueMaps, ServesQueueMaps
    <2>3. CASE Closes
        BY <2>3, CloseMaps DEF Seating!Next
    <2>4. CASE \E r \in Regs : TakesSeat(r) \/ JoinsQueue(r)
        BY <2>4, TakesSeatMaps, JoinsQueueMaps DEF Seating!Next
    <2> QED
        BY <2>1, <2>2, <2>3, <2>4
<1> QED
    BY <1>1, <1>2, <1>3

\* Registrations, payments, refunds, expiries and promotions keep the promises
\* of SeatAllocation, as long as no denial hits a row that holds a seat again.
THEOREM SeatsArePromised == Spec /\ []~staleDenial => ImplementsSeatAllocation
<1>1. Init => Seating!Init
    BY SeatingInit
<1>2. SeatInvariant /\ SeatInvariant' /\ ~staleDenial /\ ~staleDenial' /\ [Next]_vars
          => [Seating!Next]_(Seating!vars)
    BY SeatingStep
<1> QED
    BY <1>1, <1>2, SeatsCorrect, PTL DEF Spec, ImplementsSeatAllocation, Seating!Spec

\* Where no row has two completion events, the promises hold without more.
THEOREM SolePaymentsKeepPromise ==
    Spec /\ [](\A r \in Regs : ~PaidAgain(r)) => ImplementsSeatAllocation
<1>1. StaleDenialNeedsSecondPayment /\ (\A r \in Regs : ~PaidAgain(r)) => ~staleDenial
    BY DEF StaleDenialNeedsSecondPayment
<1> QED
    BY <1>1, StaleDenialNeedsPayment, SeatsArePromised, PTL
=============================================================================
