------------------------ MODULE RegistrationsSeating ------------------------
(***************************************************************************)
(* The registrations of an event implement SeatAllocation: the rows that   *)
(* CountOccupiedSpots counts are the seats, the waitlisted rows in the     *)
(* order of waitlist_pos are the queue.                                    *)
(***************************************************************************)
EXTENDS Registrations

Phase ==
    CASE evStatus = "draft"     -> "planned"
      [] evStatus = "published" -> "open"
      [] OTHER                  -> "closed"

Waitlist == Rows(status, {"waitlisted"})

Before == {pair \in Waitlist \X Waitlist : waitlistPos[pair[1]] < waitlistPos[pair[2]]}

Seating == INSTANCE SeatAllocation WITH
    Claims <- Regs, MaxSeats <- MaxCapacity,
    phase <- Phase, seats <- maxParticipants,
    seated <- Rows(status, Occupying), waiting <- Waitlist, before <- Before

\* Registering, promoting, cancelling, expiring, refunding, removing and paying
\* late are steps of SeatAllocation or leave the seats and the queue alone.
ImplementsSeatAllocation == Seating!Spec
=============================================================================
