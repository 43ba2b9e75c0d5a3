------------------------------- MODULE Escrow -------------------------------
(***************************************************************************)
(* What a conditional payment promises, whichever contract runs it: the    *)
(* money leaves the sender's purse when the deal is opened, and then, once *)
(* and whole, either reaches the receiver, not after the deadline, or      *)
(* returns to the sender.  EarlyReturn says that it may return before the  *)
(* deadline has passed, SharedPurse that the purses also serve other       *)
(* business than the deals.  Aid implements it with neither, Payments with *)
(* both.                                                                   *)
(*                                                                         *)
(* A receiver that is no party keeps its money out of sight.               *)
(***************************************************************************)
EXTENDS Integers

CONSTANTS Parties, Ids, EarlyReturn, SharedPurse

VARIABLES
    time,
    deals,   \* identifier -> deal
    purse    \* party -> what it has outside the deals

vars == <<time, deals, purse>>

NoDeal == [stage |-> "None"]

Init ==
    /\ time \in Nat
    /\ deals = [i \in Ids |-> NoDeal]
    /\ purse \in [Parties -> Nat]

\* The purses after party p has received amount (given it up, if negative).
Moved(p, amount) == [q \in Parties |-> IF q = p THEN purse[q] + amount ELSE purse[q]]

Close(i, stage) ==
    /\ deals[i].stage = "Held"
    /\ deals' = [deals EXCEPT ![i].stage = stage]
    /\ time' = time

Open(i) ==
    LET d == deals'[i]
    IN  /\ deals[i] = NoDeal
        /\ deals' = [deals EXCEPT ![i] = d]
        /\ d.stage = "Held"
        /\ d.from \in Parties
        /\ d.deadline > time
        /\ d.amount > 0
        /\ d.amount <= purse[d.from]
        /\ purse' = Moved(d.from, -d.amount)
        /\ time' = time

Deliver(i) ==
    /\ Close(i, "Delivered")
    /\ time <= deals[i].deadline
    /\ purse' = Moved(deals[i].to, deals[i].amount)

Return(i) ==
    /\ Close(i, "Returned")
    /\ time > deals[i].deadline \/ EarlyReturn
    /\ purse' = Moved(deals[i].from, deals[i].amount)

Pass ==
    /\ time' > time
    /\ UNCHANGED <<deals, purse>>

OtherBusiness ==
    /\ SharedPurse
    /\ UNCHANGED <<time, deals>>

Next ==
    \/ Pass
    \/ OtherBusiness
    \/ \E i \in Ids : Open(i) \/ Deliver(i) \/ Return(i)

Spec == Init /\ [][Next]_vars
=============================================================================
