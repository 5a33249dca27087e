--------------------------- MODULE SeatAllocation ---------------------------
(***************************************************************************)
(* What an event promises its players about seats, without registrations,  *)
(* payments or timers: a limited number of seats and one queue.  A claim   *)
(* that comes while a seat is free is seated at once; otherwise it queues. *)
(* Seats that become free go to those at the head of the queue in the same *)
(* step, until the seats or the queue are used up.  Once the event closes, *)
(* the queue is gone and nobody is seated.                                 *)
(***************************************************************************)
EXTENDS Integers, FiniteSets

CONSTANTS Claims, MaxSeats

VARIABLES
    phase,    \* "planned", "open", "closed"
    seats,    \* number of seats, fixed when the event opens
    seated,   \* claims that hold a seat
    waiting,  \* claims in the queue
    before    \* <<c, d>>: c came to the queue before d

vars == <<phase, seats, seated, waiting, before>>

Init ==
    /\ phase = "planned"
    /\ seats \in 1..MaxSeats
    /\ seated = {} /\ waiting = {} /\ before = {}

Plan ==
    /\ phase = "planned"
    /\ seats' \in 1..MaxSeats
    /\ UNCHANGED <<phase, seated, waiting, before>>

Open ==
    /\ phase = "planned"
    /\ phase' = "open"
    /\ UNCHANGED <<seats, seated, waiting, before>>

Seat(c) ==
    /\ phase = "open"
    /\ waiting = {} /\ Cardinality(seated) < seats
    /\ c \notin seated
    /\ seated' = seated \cup {c}
    /\ UNCHANGED <<phase, seats, waiting, before>>

Queue(c) ==
    /\ phase = "open"
    /\ Cardinality(seated) = seats
    /\ c \notin seated \cup waiting
    /\ waiting' = waiting \cup {c}
    /\ before' = before \cup (waiting \X {c})
    /\ UNCHANGED <<phase, seats, seated>>

\* The claims in S leave; the head of the queue moves to the free seats.
Leave(S) == \E head \in SUBSET (waiting \ S) :
    LET rest == (waiting \ S) \ head IN
    /\ phase = "open"
    /\ head \X rest \subseteq before
    /\ seated' = (seated \ S) \cup head
    /\ IF rest = {} THEN Cardinality(seated') <= seats ELSE Cardinality(seated') = seats
    /\ waiting' = rest
    /\ before' = before \cap (rest \X rest)
    /\ UNCHANGED <<phase, seats>>

Close ==
    /\ phase' = "closed"
    /\ phase \in {"open", "closed"}
    /\ seated' \in SUBSET seated
    /\ waiting' = {} /\ before' = {}
    /\ UNCHANGED seats

Next ==
    \/ Plan \/ Open \/ Close
    \/ \E c \in Claims : Seat(c) \/ Queue(c)
    \/ \E S \in SUBSET Claims : Leave(S)

Spec == Init /\ [][Next]_vars
=============================================================================
