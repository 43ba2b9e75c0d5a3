-------------------------------- MODULE Aid --------------------------------
(***************************************************************************)
(* contracts/aid-contract: a donor escrows an amount for a recipient, who  *)
(* claims it up to the expiry ledger; after it the amount goes back to the *)
(* donor.  As everywhere, an action is a call that succeeds.               *)
(*                                                                         *)
(* initialize is guarded, so there is one token for the life of the        *)
(* contract and `balance' holds the balances of that token.  A client that *)
(* follows the cursors of the paginated queries, while others create,      *)
(* claim and refund, is part of the model: `walk'.  create_aid also adds   *)
(* the new record to a map under KEY_AIDS, which nothing reads but         *)
(* create_aid itself, to add the next one: it is left out.                 *)
(*                                                                         *)
(* The ledger sequence and the number of aids are bounded by MaxSequence   *)
(* and MaxAids.                                                            *)
(***************************************************************************)
EXTENDS Ledger

CONSTANTS
    Users,           \* the addresses that sign calls
    Contract,        \* the address of the aid contract
    NoAddress,       \* not set
    AnyDonor,        \* a walk through list_aids, not list_aids_by_donor
    InitialBalance,  \* account -> amount before the first call
    Treasuries,      \* treasuries the admin may pass
    DefaultExpiries, \* default expiry times the admin may pass
    Amounts,         \* amounts a donor may pass
    Expiries,        \* expiry ledgers a donor may pass
    Limits,          \* page sizes a client may pass
    MaxSequence, MaxAids

Accounts == Users \cup {Contract}
AidIds   == 0 .. MaxAids - 1

ASSUME AidAssumption ==
    /\ Contract \notin Users
    /\ NoAddress \notin Users
    /\ AnyDonor \notin Users
    /\ InitialBalance \in [Accounts -> Nat]
    /\ Amounts \subseteq Int
    /\ Expiries \subseteq Nat
    /\ Treasuries \subseteq Accounts
    /\ DefaultExpiries \subseteq Nat
    /\ Limits \subseteq Nat
    /\ MaxSequence \in Nat
    /\ MaxAids \in Nat

VARIABLES
    sequence,  \* env.ledger().sequence()
    config,    \* admin, treasury and default expiry; NoAddress before initialize
    paused,
    counter,   \* AidCounter: the next identifier
    aids,      \* the records under Aid(id)
    balance,   \* account -> amount of the escrow token
    walk       \* a client reading the records page by page

vars == <<sequence, config, paused, counter, aids, balance, walk>>

NoAid == [status |-> "None"]

AidRecord ==
    [donor : Users, recipient : Accounts, amount : Nat \ {0}, expiry_ledger : Nat,
     status : {"Pending", "Settled", "Refunded"}]

\* cursor is the one to pass next (where the last page ended, when done); seen
\* and received are the aids the pages had, as a set and counted.
NoWalk == [donor |-> AnyDonor, cursor |-> 0, seen |-> {}, received |-> 0, done |-> TRUE]

\* An unused identifier is one the counter has not reached.
RecordsBelowCounter == \A i \in AidIds : aids[i].status = "None" <=> i >= counter

TypeOK ==
    /\ sequence \in Nat
    /\ config \in [admin : Users \cup {NoAddress}, treasury : Accounts \cup {NoAddress},
                   default_expiry : Nat]
    /\ paused \in BOOLEAN
    /\ counter \in 0 .. MaxAids
    /\ aids \in [AidIds -> AidRecord \cup {NoAid}]
    /\ balance \in [Accounts -> Nat]
    /\ walk \in [donor : Users \cup {AnyDonor}, cursor : Nat, seen : SUBSET AidIds,
                 received : Nat, done : BOOLEAN]
    /\ RecordsBelowCounter
    /\ walk.cursor <= counter

Init ==
    /\ sequence = 0
    /\ config = [admin |-> NoAddress, treasury |-> NoAddress, default_expiry |-> 0]
    /\ paused = FALSE
    /\ counter = 0
    /\ aids = [i \in AidIds |-> NoAid]
    /\ balance = InitialBalance
    /\ walk = NoWalk
-----------------------------------------------------------------------------
(* Lifecycle and administration.                                           *)

Initialize(admin, treasury, expiry) ==
    /\ config.admin = NoAddress
    /\ config' = [admin |-> admin, treasury |-> treasury, default_expiry |-> expiry]
    /\ UNCHANGED <<sequence, paused, counter, aids, balance, walk>>

\* None for either argument keeps what is there.
UpdateConfig(admin, treasury, expiry) ==
    /\ admin = config.admin
    /\ config' = [config EXCEPT !.treasury = treasury, !.default_expiry = expiry]
    /\ UNCHANGED <<sequence, paused, counter, aids, balance, walk>>

SetPaused(admin, value) ==
    /\ admin = config.admin
    /\ paused' = value
    /\ UNCHANGED <<sequence, config, counter, aids, balance, walk>>

-----------------------------------------------------------------------------
(* The escrow.                                                             *)

NextId(id) == id + 1

\* A paused contract still takes aids in.
CreateAid(donor, recipient, amount, expiry) ==
    LET record == [donor |-> donor, recipient |-> recipient, amount |-> amount,
                   expiry_ledger |-> expiry, status |-> "Pending"]
    IN  /\ config.admin # NoAddress
        /\ counter \in AidIds
        /\ amount > 0
        /\ expiry > sequence
        /\ aids[counter].status = "None"
        /\ CanTransfer(balance, donor, amount)
        /\ counter' = NextId(counter)
        /\ aids' = [aids EXCEPT ![counter] = record]
        /\ balance' = Transfer(balance, donor, Contract, amount)
        /\ UNCHANGED <<sequence, config, paused, walk>>

\* Mutants: the expiry ledger is already too late; a claim takes no notice of it.
ClaimableBefore(id) == aids[id].status = "Pending" /\ sequence < aids[id].expiry_ledger
ClaimableForEver(id) == aids[id].status = "Pending"

Claimable(id) == aids[id].status = "Pending" /\ sequence <= aids[id].expiry_ledger

\* Mutant: a settled aid can be refunded.
RefundableTwice(id) ==
    aids[id].status \in {"Pending", "Settled"} /\ sequence > aids[id].expiry_ledger

Refundable(id) == aids[id].status = "Pending" /\ sequence > aids[id].expiry_ledger

Finish(id, status, to) ==
    /\ CanTransfer(balance, Contract, aids[id].amount)
    /\ aids' = [aids EXCEPT ![id].status = status]
    /\ balance' = Transfer(balance, Contract, to, aids[id].amount)
    /\ UNCHANGED <<sequence, config, paused, counter, walk>>

ClaimAid(id, recipient) ==
    /\ ~paused
    /\ Claimable(id)
    /\ recipient = aids[id].recipient
    /\ Finish(id, "Settled", aids[id].recipient)

\* Anyone may call it, and a pause does not stop it.
RefundAid(id) ==
    /\ Refundable(id)
    /\ Finish(id, "Refunded", aids[id].donor)

-----------------------------------------------------------------------------
(* The paginated queries.                                                  *)

\* What list_aids_by_donor, or list_aids (AnyDonor), is looking for from cursor on.
Listed(donor, cursor) ==
    {i \in AidIds : i >= cursor /\ i < counter /\ donor \in {aids[i].donor, AnyDonor}}

\* The page: the first limit of them.
Page(donor, limit, cursor) ==
    LET listed == Listed(donor, cursor)
    IN  {i \in listed : Cardinality({j \in listed : j < i}) < limit}

\* Mutant: the size of a full page is taken for the length of its scan.
ScanEndBySize(donor, limit, cursor) ==
    IF Cardinality(Page(donor, limit, cursor)) = limit THEN cursor + limit ELSE counter

\* Where the scan stops: behind the aid that fills the page, or at the counter.
ScanEnd(donor, limit, cursor) ==
    LET page == Page(donor, limit, cursor)
    IN  IF limit = 0 THEN cursor
        ELSE IF Cardinality(page) = limit
        THEN 1 + CHOOSE i \in page : \A j \in page : j <= i
        ELSE counter

StartWalk(donor) ==
    /\ walk = NoWalk
    /\ walk' = [donor |-> donor, cursor |-> 0, seen |-> {},
                received |-> 0, done |-> FALSE]
    /\ UNCHANGED <<sequence, config, paused, counter, aids, balance>>

\* The client asks for the next page with the cursor of the last one, until it
\* gets none.  With a limit of zero it gets its cursor back.
ReadPage(limit) ==
    LET page == Page(walk.donor, limit, walk.cursor)
        end == ScanEnd(walk.donor, limit, walk.cursor)
    IN  /\ ~walk.done
        /\ walk' = [walk EXCEPT !.seen = @ \cup page,
                                !.received = @ + Cardinality(page),
                                !.cursor = end,
                                !.done = limit > 0 /\ end >= counter]
        /\ UNCHANGED <<sequence, config, paused, counter, aids, balance>>

-----------------------------------------------------------------------------

Tick ==
    /\ sequence < MaxSequence
    /\ sequence' = sequence + 1
    /\ UNCHANGED <<config, paused, counter, aids, balance, walk>>

AdminStep ==
    \E admin \in Users :
        \/ \E treasury \in Treasuries, expiry \in DefaultExpiries :
                Initialize(admin, treasury, expiry)
        \/ \E treasury \in Treasuries \cup {config.treasury},
              expiry \in DefaultExpiries \cup {config.default_expiry} :
                UpdateConfig(admin, treasury, expiry)
        \/ \E value \in BOOLEAN : SetPaused(admin, value)

EscrowStep ==
    \/ \E donor \in Users, recipient \in Accounts, amount \in Amounts, expiry \in Expiries :
            CreateAid(donor, recipient, amount, expiry)
    \/ \E id \in AidIds : RefundAid(id) \/ \E u \in Users : ClaimAid(id, u)

WalkStep ==
    \/ \E donor \in Users \cup {AnyDonor} : StartWalk(donor)
    \/ \E limit \in Limits : ReadPage(limit)

Next == Tick \/ AdminStep \/ EscrowStep \/ WalkStep

Spec == Init /\ [][Next]_vars

-----------------------------------------------------------------------------

PendingAmounts ==
    [i \in AidIds |-> IF aids[i].status = "Pending" THEN aids[i].amount ELSE 0]

\* The contract holds the pending aids and nothing is lost or gained on the
\* side: its balance is always what it started with plus exactly what is
\* pending, through creation, claim and refund in any order (create_aid,
\* claim_aid, refund_aid).
PotIsPending ==
    balance[Contract] = InitialBalance[Contract] + SumOver(AidIds, PendingAmounts)

\* Every pending aid whose recipient can sign has exactly one way out at each ledger, the
\* claim up to the expiry ledger and the refund after it: no ledger allows
\* both and none allows neither.  A pause closes the first way and never the
\* second.
OneWayOut ==
    \A i \in AidIds : aids[i].status = "Pending" =>
        LET signer == aids[i].recipient \in Users
            claim == signer /\ ENABLED ClaimAid(i, aids[i].recipient)
            refund == ENABLED RefundAid(i)
        IN  /\ ~(claim /\ refund)
            /\ signer /\ ~paused => claim \/ refund
            /\ sequence > aids[i].expiry_ledger => refund

\* A client that follows the cursors has at each point received exactly the
\* aids before its cursor that it asked for, each of them once, and when it is
\* told that there are no more pages the cursor is past them all: whatever
\* page sizes it used and whatever was created, claimed or refunded between
\* two pages (list_aids, list_aids_by_donor).
WalkMissesNothing ==
    /\ walk.seen = {i \in Listed(walk.donor, 0) : i < walk.cursor}
    /\ walk.received = Cardinality(walk.seen)

-----------------------------------------------------------------------------
(* An aid is a deal between donor and recipient: Aid implements Escrow.    *)

Stage(status) ==
    CASE status = "Pending" -> "Held"
      [] status = "Settled" -> "Delivered"
      [] status = "Refunded" -> "Returned"

AidDeals ==
    [i \in AidIds |->
        IF aids[i].status = "None" THEN [stage |-> "None"]
        ELSE [stage |-> Stage(aids[i].status), from |-> aids[i].donor,
              to |-> aids[i].recipient, amount |-> aids[i].amount,
              deadline |-> aids[i].expiry_ledger]]

E == INSTANCE Escrow WITH Parties <- Users, Ids <- AidIds,
        EarlyReturn <- FALSE, SharedPurse <- FALSE,
        time <- sequence, deals <- AidDeals, purse <- [u \in Users |-> balance[u]]

\* Every call of the contract is a step of Escrow or none: an aid moves its
\* whole amount exactly once after it is created, to the recipient not after
\* the expiry ledger or to the donor after it, and no other call moves money.
ImplementsEscrow == E!Spec
=============================================================================
