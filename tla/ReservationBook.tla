-------------------------- MODULE ReservationBook ---------------------------
(***************************************************************************)
(* What callers of acquire and release take them for: one step that finds  *)
(* room among the other flows' reservations and makes the new one, and one *)
(* that gives it up.  ResourceLock models the calls as they are; in memory *)
(* they amount to this, except for the reservations of calls that were     *)
(* overtaken between their checks and their write.                         *)
(***************************************************************************)
EXTENDS Integers, Functions

CONSTANTS Flows, Resources, Capacity, Requests

VARIABLES
    book,       \* what each flow has reserved
    told,       \* what it was told it has
    overtaken   \* whether some reservation was made on outdated checks

bookvars == <<book, told, overtaken>>

NoReservation == [r \in Resources |-> 0]

(* What the flows but f have reserved of r.                                *)
Taken(r, f) == SumFunctionOnSet([g \in Flows |-> book[g][r]], Flows \ {f})

Fits(f, req) ==
    \A r \in Resources : req[r] > 0 => Taken(r, f) + req[r] <= Capacity[r]

BookInit ==
    /\ book = [f \in Flows |-> NoReservation]
    /\ told = [f \in Flows |-> NoReservation]
    /\ overtaken = FALSE

(* The flow's reservation becomes req, and the flow is told so.            *)
Enter(f, req) ==
    /\ book' = [book EXCEPT ![f] = req]
    /\ told' = [told EXCEPT ![f] = req]

Reserve(f, req) ==
    /\ Enter(f, req)
    /\ Fits(f, req)
    /\ UNCHANGED overtaken

ReserveBlindly(f, req) ==
    /\ Enter(f, req)
    /\ overtaken' = TRUE

Cancel(f) ==
    /\ Enter(f, NoReservation)
    /\ UNCHANGED overtaken

(* The process dies: nobody holds or believes anything.                    *)
Clear ==
    /\ book' = [f \in Flows |-> NoReservation]
    /\ told' = [f \in Flows |-> NoReservation]
    /\ UNCHANGED overtaken

BookNext ==
    \/ \E f \in Flows : \/ \E req \in Requests : Reserve(f, req) \/ ReserveBlindly(f, req)
                        \/ Cancel(f)
    \/ Clear

BookSpec == BookInit /\ [][BookNext]_bookvars
=============================================================================
