------------------------------ MODULE HtcPipe ------------------------------
(***************************************************************************)
(* What an HTC endpoint promises to the drivers that send on it: a pipe.   *)
(* A packet that is submitted is refused or accepted; accepted packets     *)
(* leave for the target in the order they were accepted in, one or more at *)
(* a time, and their owners are told in that order.  A flush cancels       *)
(* packets from the end of the pipe only, never one that has left.         *)
(* Nothing is said of locks, threads, credits, bundles or retries.         *)
(***************************************************************************)
EXTENDS Integers, Sequences, Lists

CONSTANT Packets

VARIABLES
    waiting,    \* accepted packets that have not left, oldest first
    inFlight,   \* packets that have left and whose owner was not told yet
    told        \* what the owner of each packet knows of it

vars == <<waiting, inFlight, told>>

Results == {"A_OK", "A_ECANCELED", "A_NO_RESOURCE"}

Tell(S, result) == told' = [p \in Packets |-> IF p \in S THEN result ELSE told[p]]

Init ==
    /\ waiting = <<>> /\ inFlight = <<>>
    /\ told = [p \in Packets |-> "unsent"]

Submit(p) ==
    /\ told[p] = "unsent"
    /\ Tell({p}, "pending")
    /\ UNCHANGED <<waiting, inFlight>>

(* The packet was submitted and neither accepted nor refused yet.          *)
Offered(p) == told[p] = "pending" /\ p \notin Elements(waiting \o inFlight)

Accept(p) ==
    /\ Offered(p)
    /\ waiting' = Append(waiting, p)
    /\ UNCHANGED <<inFlight, told>>

Refuse(p) ==
    /\ Offered(p)
    /\ \E result \in Results \ {"A_OK"} : Tell({p}, result)
    /\ UNCHANGED <<waiting, inFlight>>

(* The n oldest packets leave as one transfer.                             *)
Depart(n) ==
    /\ inFlight' = inFlight \o SubSeq(waiting, 1, n)
    /\ waiting' = SubSeq(waiting, n + 1, Len(waiting))
    /\ UNCHANGED told

(* The owners of the n packets that left first are told.                   *)
Arrive(n) ==
    /\ Tell(Elements(SubSeq(inFlight, 1, n)), "A_OK")
    /\ inFlight' = SubSeq(inFlight, n + 1, Len(inFlight))
    /\ UNCHANGED waiting

(* All but the n oldest waiting packets are cancelled.                     *)
Cancel(n) ==
    /\ Tell(Elements(SubSeq(waiting, n + 1, Len(waiting))), "A_ECANCELED")
    /\ waiting' = SubSeq(waiting, 1, n)
    /\ UNCHANGED inFlight

Answer(p) == Accept(p) \/ Refuse(p)
Departs == \E n \in 1..Len(waiting) : Depart(n)
Arrives == \E n \in 1..Len(inFlight) : Arrive(n)

Next ==
    \/ \E p \in Packets : Submit(p) \/ Answer(p)
    \/ Departs
    \/ Arrives
    \/ \E n \in 0..(Len(waiting) - 1) : Cancel(n)

Spec == Init /\ [][Next]_vars

(* The pipe moves: a submitted packet is answered, a waiting one leaves,   *)
(* the owner of one that left is told.                                     *)
FairSpec ==
    /\ Spec
    /\ \A p \in Packets : WF_vars(Answer(p))
    /\ WF_vars(Departs)
    /\ WF_vars(Arrives)
=============================================================================
