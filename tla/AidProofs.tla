----------------------------- MODULE AidProofs -----------------------------
(***************************************************************************)
(* Theorems about Aid, for every set of users, every balance, amount and   *)
(* expiry, and any number of aids and ledgers.                             *)
(***************************************************************************)
EXTENDS Aid, LedgerProofs

\* The aids are finitely many.
LEMMA AidIdsFinite == IsFiniteSet(AidIds) /\ AidIds \subseteq Nat
<1>1. MaxAids \in Nat
  BY AidAssumption
<1>2. IsFiniteSet(0 .. MaxAids - 1)
  BY <1>1, FS_Interval
<1> QED BY <1>1, <1>2 DEF AidIds

-----------------------------------------------------------------------------
(* The queries.                                                            *)

\* A nonempty set of naturals below a bound has a greatest element.
LEMMA GreatestExists ==
    ASSUME NEW n \in Nat, NEW S \in SUBSET (0 .. n), S # {}
    PROVE  \E m \in S : \A j \in S : j <= m
<1> DEFINE D == {k \in Nat : \E i \in S : k = n - i}
<1>1. D \in SUBSET Nat /\ D # {}
  <2>1. PICK i \in S : TRUE
    OBVIOUS
  <2>2. n - i \in D
    BY <2>1
  <2> QED BY <2>2
<1>2. PICK d \in D : \A k \in D : d <= k
  <2> HIDE DEF D
  <2> QED BY <1>1, LeastExists
<1>3. PICK m \in S : d = n - m
  BY <1>2
<1>4. ASSUME NEW j \in S PROVE j <= m
  <2>1. n - j \in D
    OBVIOUS
  <2>2. d <= n - j
    BY <1>2, <2>1
  <2> QED BY <1>3, <2>2
<1> QED BY <1>3, <1>4

\* The listed aids before a given one are finitely many, and more of them come
\* before a later aid.
LEMMA ListedBelow ==
    ASSUME NEW donor, NEW cursor \in Nat, NEW i \in Nat, NEW k \in Nat, i <= k
    PROVE  LET L == Listed(donor, cursor)
               Below(x) == {j \in L : j < x}
           IN  /\ IsFiniteSet(L)
               /\ IsFiniteSet(Below(k))
               /\ Cardinality(Below(i)) \in Nat /\ Cardinality(Below(k)) \in Nat
               /\ Cardinality(Below(i)) <= Cardinality(Below(k))
<1> DEFINE L == Listed(donor, cursor)
           Below(x) == {j \in L : j < x}
<1>1. L \in SUBSET AidIds /\ L \subseteq Nat
  BY AidIdsFinite DEF Listed
<1>2. IsFiniteSet(L)
  BY <1>1, AidIdsFinite, FS_Subset
<1>3. Below(k) \subseteq L /\ Below(i) \subseteq Below(k)
  BY <1>1
<1>4. IsFiniteSet(Below(k))
  BY ONLY <1>2, <1>3, FS_Subset
<1>5. IsFiniteSet(Below(i)) /\ Cardinality(Below(i)) <= Cardinality(Below(k))
  BY ONLY <1>3, <1>4, FS_Subset
<1>6. Cardinality(Below(i)) \in Nat /\ Cardinality(Below(k)) \in Nat
  BY ONLY <1>4, <1>5, FS_CardinalityType
<1> QED BY <1>2, <1>4, <1>5, <1>6

\* A page, whatever its size, is exactly what is listed between the cursor and
\* the point where the scan stops.
LEMMA PageIsASegment ==
    ASSUME NEW donor, NEW limit \in Nat, NEW cursor \in Nat,
           counter \in Nat, counter <= MaxAids, cursor <= counter
    PROVE  LET end == ScanEnd(donor, limit, cursor)
           IN  /\ end \in Nat /\ cursor <= end /\ end <= counter
               /\ Page(donor, limit, cursor) = {i \in Listed(donor, cursor) : i < end}
               /\ IsFiniteSet(Page(donor, limit, cursor))
<1> DEFINE L == Listed(donor, cursor)
           P == Page(donor, limit, cursor)
           Below(x) == {j \in L : j < x}
           end == ScanEnd(donor, limit, cursor)
<1>1. /\ L \in SUBSET (0 .. counter) /\ IsFiniteSet(L)
      /\ L \in SUBSET Nat /\ \A i \in L : cursor <= i /\ i < counter
  <2>1. L \in SUBSET Nat
    BY AidIdsFinite DEF Listed
  <2>2. \A i \in L : cursor <= i /\ i < counter
    BY DEF Listed
  <2>3. IsFiniteSet(L)
    <3>1. 0 \in Nat /\ 0 <= 0
      OBVIOUS
    <3> QED BY ONLY <3>1, ListedBelow, cursor \in Nat
  <2>4. L \in SUBSET (0 .. counter)
    BY ONLY <2>1, <2>2, counter \in Nat
  <2> QED BY ONLY <2>1, <2>2, <2>3, <2>4
<1>2. \A i \in L : Cardinality(Below(i)) \in Nat /\ IsFiniteSet(Below(i))
  <2>1. ASSUME NEW i \in L PROVE Cardinality(Below(i)) \in Nat /\ IsFiniteSet(Below(i))
    <3>1. i \in Nat /\ i <= i
      BY <1>1
    <3> QED BY ONLY <3>1, ListedBelow, cursor \in Nat
  <2> QED BY <2>1
<1>3. \A i, k \in L : i <= k => Cardinality(Below(i)) <= Cardinality(Below(k))
  BY <1>1, ListedBelow
<1>4. P = {i \in L : Cardinality(Below(i)) < limit}
  BY DEF Page
<1>5. P \in SUBSET L /\ P \in SUBSET (0 .. counter) /\ IsFiniteSet(P)
      /\ Cardinality(P) \in Nat
  BY <1>1, <1>4, FS_Subset, FS_CardinalityType
<1> HIDE DEF L, P, Below
<1>6. CASE limit = 0
  <2>1. end = cursor
    BY <1>6 DEF ScanEnd
  <2>2. P = {}
    BY <1>2, <1>4, <1>6
  <2>3. ASSUME NEW i \in L, i < end PROVE FALSE
    BY <1>1, <2>1, <2>3
  <2> QED BY <1>5, <2>1, <2>2, <2>3 DEF L, P
<1>7. CASE limit # 0 /\ Cardinality(P) = limit
  <2>1. P # {}
    BY <1>7, FS_EmptySet
  <2>2. \E m \in P : \A j \in P : j <= m
    BY <1>5, <2>1, GreatestExists
  <2> DEFINE m == CHOOSE i \in P : \A j \in P : j <= i
  <2>3. m \in P /\ \A j \in P : j <= m
    BY <2>2
  <2>4. end = 1 + m
    BY <1>7 DEF ScanEnd, P
  <2> HIDE DEF m, end
  <2>5. m \in L /\ m \in Nat
    BY <1>1, <1>5, <2>3
  <2>6. end \in Nat /\ cursor <= end /\ end <= counter
    BY <1>1, <2>4, <2>5
  <2>7. ASSUME NEW i \in L, i < end PROVE i \in P
    <3>1. i <= m
      BY <1>1, <2>4, <2>5, <2>7
    <3>2. Cardinality(Below(i)) <= Cardinality(Below(m))
      BY <1>3, <2>5, <3>1
    <3>3. Cardinality(Below(m)) < limit
      BY <1>4, <2>3
    <3> QED BY <1>2, <1>4, <2>5, <3>2, <3>3
  <2>8. ASSUME NEW i \in P PROVE i \in L /\ i < end
    BY <1>1, <1>5, <2>3, <2>4, <2>5
  <2> QED BY <1>5, <2>6, <2>7, <2>8 DEF L, P, end
<1>8. CASE limit # 0 /\ Cardinality(P) # limit
  <2>1. end = counter
    BY <1>8 DEF ScanEnd, P
  <2>2. L \subseteq P
    <3>1. SUFFICES ASSUME L \ P # {} PROVE FALSE
      OBVIOUS
    <3>2. L \ P \in SUBSET Nat
      BY ONLY <1>1
    <3>3. PICK i \in L \ P : \A j \in L \ P : i <= j
      BY <3>1, <3>2, LeastExists
    <3>4. Cardinality(Below(i)) >= limit
      BY <1>2, <1>4, <3>3
    <3>5. Below(i) \subseteq P
      <4>1. ASSUME NEW j \in L, j < i, j \notin P PROVE FALSE
        <5>1. i <= j
          BY <3>3, <4>1
        <5> QED BY <1>1, <3>3, <4>1, <5>1
      <4> QED BY <4>1 DEF Below
    <3>6. P \subseteq Below(i)
      <4>1. ASSUME NEW j \in P, ~(j < i) PROVE FALSE
        <5>1. i <= j /\ j \in L
          BY <1>1, <1>5, <3>3, <4>1
        <5>2. Cardinality(Below(i)) <= Cardinality(Below(j))
          BY <1>3, <3>3, <5>1
        <5>3. Cardinality(Below(j)) < limit
          BY <1>4, <4>1
        <5> QED BY <1>2, <3>3, <3>4, <5>1, <5>2, <5>3
      <4> QED BY <1>5, <4>1 DEF Below
    <3>7. P = Below(i) /\ Cardinality(P) > limit
      <4>1. P = Below(i)
        BY ONLY <3>5, <3>6
      <4>2. Cardinality(P) >= limit
        BY ONLY <3>4, <4>1
      <4> QED BY ONLY <1>5, <1>8, <4>1, <4>2, limit \in Nat
    <3>8. P # {}
      BY <1>8, <3>7, FS_EmptySet
    <3>9. PICK m \in P : \A j \in P : j <= m
      BY <1>5, <3>8, GreatestExists
    <3>10. Below(m) = P \ {m}
      <4>1. ASSUME NEW j \in Below(m) PROVE j \in P \ {m}
        <5>1. j \in L /\ j < m /\ m \in L
          BY <1>5 DEF Below
        <5>2. Cardinality(Below(j)) <= Cardinality(Below(m))
          BY <1>1, <1>3, <5>1
        <5>3. Cardinality(Below(m)) < limit
          BY <1>4
        <5> QED BY <1>1, <1>2, <1>4, <5>1, <5>2, <5>3
      <4>2. ASSUME NEW j \in P \ {m} PROVE j \in Below(m)
        BY <1>1, <1>5, <3>9 DEF Below
      <4> QED BY <4>1, <4>2
    <3>11. Cardinality(P \ {m}) = Cardinality(P) - 1
      BY <1>5, FS_RemoveElement
    <3>12. Cardinality(Below(m)) < limit
      BY <1>4
    <3> QED BY <1>5, <3>7, <3>10, <3>11, <3>12
  <2>3. {i \in L : i < end} = P
    BY <1>1, <1>5, <2>1, <2>2
  <2> QED BY <1>5, <2>1, <2>3 DEF L, P
<1> QED BY <1>6, <1>7, <1>8

-----------------------------------------------------------------------------
(* Type correctness.                                                       *)

\* The initial state is well typed.
LEMMA InitType == Init => TypeOK
<1> SUFFICES ASSUME Init PROVE TypeOK
  OBVIOUS
<1> USE DEF Init
<1>1. sequence \in Nat /\ counter \in 0 .. MaxAids
  <2>1. MaxAids \in Nat
    BY AidAssumption
  <2> QED BY <2>1
<1>7. paused \in BOOLEAN
  OBVIOUS
<1>2. config \in [admin : Users \cup {NoAddress}, treasury : Accounts \cup {NoAddress},
                  default_expiry : Nat]
  OBVIOUS
<1>3. aids \in [AidIds -> AidRecord \cup {NoAid}]
  OBVIOUS
<1>4. balance \in [Accounts -> Nat]
  BY AidAssumption
<1>5. /\ walk \in [donor : Users \cup {AnyDonor}, cursor : Nat, seen : SUBSET AidIds,
                   received : Nat, done : BOOLEAN]
      /\ walk.cursor <= counter
  BY DEF NoWalk
<1>6. RecordsBelowCounter
  BY AidIdsFinite DEF RecordsBelowCounter, NoAid
<1> QED BY <1>1, <1>2, <1>3, <1>4, <1>5, <1>6, <1>7 DEF TypeOK

\* The actions of the admin, and the clock, keep the types.
LEMMA AdminType == TypeOK /\ (AdminStep \/ Tick) => TypeOK'
<1> SUFFICES ASSUME TypeOK, AdminStep \/ Tick PROVE TypeOK'
  OBVIOUS
<1>1. UNCHANGED <<counter, aids, balance, walk>>
  BY DEF AdminStep, Tick, Initialize, UpdateConfig, SetPaused
<1>2. sequence' \in Nat
  <2>1. sequence \in Nat
    BY DEF TypeOK
  <2>2. sequence' = sequence \/ sequence' = sequence + 1
    BY DEF AdminStep, Tick, Initialize, UpdateConfig, SetPaused
  <2> QED BY <2>1, <2>2
<1>3. paused' \in BOOLEAN
  BY DEF TypeOK, AdminStep, Tick, Initialize, UpdateConfig, SetPaused
<1>4. config' \in [admin : Users \cup {NoAddress}, treasury : Accounts \cup {NoAddress},
                   default_expiry : Nat]
  <2> DEFINE C == [admin : Users \cup {NoAddress}, treasury : Accounts \cup {NoAddress},
                   default_expiry : Nat]
  <2>1. config \in C
    BY DEF TypeOK
  <2>2. ASSUME NEW admin \in Users, NEW treasury \in Treasuries, NEW expiry \in DefaultExpiries,
               Initialize(admin, treasury, expiry)
        PROVE  config' \in C
    <3>1. treasury \in Accounts /\ expiry \in Nat
      BY AidAssumption
    <3> QED BY <2>2, <3>1 DEF Initialize
  <2>3. ASSUME NEW admin \in Users, NEW treasury \in Treasuries \cup {config.treasury},
               NEW expiry \in DefaultExpiries \cup {config.default_expiry},
               UpdateConfig(admin, treasury, expiry)
        PROVE  config' \in C
    <3>1. treasury \in Accounts \cup {NoAddress} /\ expiry \in Nat
      BY <2>1, AidAssumption
    <3> QED BY <2>1, <2>3, <3>1 DEF UpdateConfig
  <2>4. ASSUME NEW admin \in Users, NEW value \in BOOLEAN, SetPaused(admin, value)
        PROVE  config' \in C
    BY <2>1, <2>4 DEF SetPaused
  <2>5. ASSUME Tick PROVE config' \in C
    BY <2>1, <2>5 DEF Tick
  <2> HIDE DEF C
  <2>6. config' \in C
    BY <2>2, <2>3, <2>4, <2>5 DEF AdminStep
  <2> QED BY <2>6 DEF C
<1> QED BY <1>1, <1>2, <1>3, <1>4 DEF TypeOK, RecordsBelowCounter

\* A new aid takes the first unused identifier and nothing else.
LEMMA CreateType ==
    ASSUME TypeOK, NEW donor \in Users, NEW recipient \in Accounts,
           NEW amount \in Amounts, NEW expiry \in Expiries,
           CreateAid(donor, recipient, amount, expiry)
    PROVE  TypeOK'
<1> DEFINE record == [donor |-> donor, recipient |-> recipient, amount |-> amount,
                      expiry_ledger |-> expiry, status |-> "Pending"]
<1>1. amount \in Nat \ {0} /\ expiry \in Nat
  BY AidAssumption DEF CreateAid
<1>2. record \in AidRecord /\ record.status # "None"
  BY <1>1 DEF AidRecord
<1>3. counter \in AidIds /\ counter \in Nat /\ counter' = counter + 1
      /\ aids' = [aids EXCEPT ![counter] = record]
  BY AidIdsFinite DEF TypeOK, CreateAid, NextId
<1> HIDE DEF record
<1>4. counter' \in 0 .. MaxAids
  BY <1>3, AidAssumption DEF AidIds
<1>5. aids' \in [AidIds -> AidRecord \cup {NoAid}]
  BY <1>2, <1>3 DEF TypeOK
<1>6. balance' \in [Accounts -> Nat]
  <2>1. donor \in Accounts /\ Contract \in Accounts
    BY DEF Accounts
  <2> QED BY <1>1, <2>1, TransferBounds DEF TypeOK, CreateAid
<1>7. RecordsBelowCounter'
  <2>1. ASSUME NEW i \in AidIds PROVE aids'[i].status = "None" <=> i >= counter'
    <3>1. i \in Nat
      BY AidIdsFinite
    <3>2. CASE i = counter
      BY <1>2, <1>3, <3>1, <3>2 DEF TypeOK
    <3>3. CASE i # counter
      BY <1>3, <3>1, <3>3 DEF TypeOK, RecordsBelowCounter
    <3> QED BY <3>2, <3>3
  <2> QED BY <2>1 DEF RecordsBelowCounter
<1>8. /\ walk' = walk /\ sequence' = sequence /\ config' = config /\ paused' = paused
      /\ walk.cursor <= counter'
  BY <1>3 DEF TypeOK, CreateAid
<1> QED BY <1>4, <1>5, <1>6, <1>7, <1>8 DEF TypeOK

\* An unused identifier has no pending record.
LEMMA PendingRecord ==
    ASSUME TypeOK, NEW id \in AidIds, aids[id].status # "None"
    PROVE  aids[id] \in AidRecord
BY DEF TypeOK, NoAid

\* Finishing an aid changes its status and moves its amount.
LEMMA FinishType ==
    ASSUME TypeOK, NEW id \in AidIds, aids[id].status # "None",
           NEW status \in {"Settled", "Refunded"}, NEW to \in Accounts,
           Finish(id, status, to)
    PROVE  TypeOK'
<1>1. aids[id] \in AidRecord
  BY PendingRecord
<1>2. aids' = [aids EXCEPT ![id].status = status]
  BY DEF Finish
<1>3. [aids[id] EXCEPT !.status = status] \in AidRecord
  BY <1>1 DEF AidRecord
<1>4. aids' \in [AidIds -> AidRecord \cup {NoAid}]
  BY <1>2, <1>3 DEF TypeOK
<1>5. balance' \in [Accounts -> Nat]
  <2>1. Contract \in Accounts /\ aids[id].amount \in Nat
    BY <1>1 DEF Accounts, AidRecord
  <2> QED BY <2>1, TransferBounds DEF TypeOK, Finish
<1>6. RecordsBelowCounter'
  <2>1. ASSUME NEW i \in AidIds PROVE aids'[i].status = "None" <=> i >= counter
    <3>1. CASE i = id
      BY <1>1, <1>2, <3>1 DEF TypeOK, RecordsBelowCounter, AidRecord
    <3>2. CASE i # id
      BY <1>2, <3>2 DEF TypeOK, RecordsBelowCounter
    <3> QED BY <3>1, <3>2
  <2> QED BY <2>1 DEF RecordsBelowCounter, Finish
<1> QED BY <1>4, <1>5, <1>6 DEF TypeOK, Finish

\* Reading pages moves the cursor forward, not past the counter.
LEMMA WalkType == TypeOK /\ WalkStep => TypeOK'
<1> SUFFICES ASSUME TypeOK, WalkStep PROVE TypeOK'
  OBVIOUS
<1> DEFINE W == [donor : Users \cup {AnyDonor}, cursor : Nat, seen : SUBSET AidIds,
                 received : Nat, done : BOOLEAN]
<1>1. walk \in W /\ counter \in Nat /\ counter <= MaxAids
  BY AidAssumption DEF TypeOK
<1>2. ASSUME NEW donor \in Users \cup {AnyDonor}, StartWalk(donor)
      PROVE  walk' \in W /\ walk'.cursor <= counter
  BY <1>1, <1>2 DEF StartWalk
<1>3. ASSUME NEW limit \in Limits, ReadPage(limit)
      PROVE  walk' \in W /\ walk'.cursor <= counter
  <2> DEFINE page == Page(walk.donor, limit, walk.cursor)
             end == ScanEnd(walk.donor, limit, walk.cursor)
  <2>1. limit \in Nat /\ walk.cursor \in Nat /\ walk.cursor <= counter
    BY <1>1, AidAssumption DEF TypeOK
  <2>2. end \in Nat /\ end <= counter /\ IsFiniteSet(page)
    BY <1>1, <2>1, PageIsASegment
  <2>3. page \in SUBSET AidIds /\ Cardinality(page) \in Nat
    BY <2>2, FS_CardinalityType DEF Page, Listed
  <2>4. walk' = [walk EXCEPT !.seen = @ \cup page, !.received = @ + Cardinality(page),
                             !.cursor = end, !.done = limit > 0 /\ end >= counter]
    BY <1>3 DEF ReadPage
  <2> DEFINE over == limit > 0 /\ end >= counter
  <2>5. over \in BOOLEAN
    OBVIOUS
  <2> HIDE DEF page, end, over
  <2>6. walk' = [walk EXCEPT !.seen = @ \cup page, !.received = @ + Cardinality(page),
                             !.cursor = end, !.done = over]
    BY ONLY <2>4 DEF over
  <2>7. walk' = [donor |-> walk.donor, cursor |-> end, seen |-> walk.seen \cup page,
                 received |-> walk.received + Cardinality(page), done |-> over]
    BY ONLY <1>1, <2>6
  <2>8. /\ walk.donor \in Users \cup {AnyDonor}
        /\ walk.seen \cup page \in SUBSET AidIds
        /\ walk.received + Cardinality(page) \in Nat
    BY ONLY <1>1, <2>3
  <2> QED BY ONLY <2>2, <2>5, <2>7, <2>8
<1>4. walk' \in W /\ walk'.cursor <= counter
  <2> HIDE DEF W
  <2> QED BY <1>2, <1>3 DEF WalkStep
<1>5. UNCHANGED <<sequence, config, paused, counter, aids, balance>>
  BY DEF WalkStep, StartWalk, ReadPage
<1> QED BY <1>4, <1>5 DEF TypeOK, RecordsBelowCounter

\* Every step keeps the types.
LEMMA NextType == TypeOK /\ [Next]_vars => TypeOK'
<1> SUFFICES ASSUME TypeOK, [Next]_vars PROVE TypeOK'
  OBVIOUS
<1>1. CASE AdminStep \/ Tick
  BY <1>1, AdminType
<1>2. CASE EscrowStep
  <2>1. ASSUME NEW donor \in Users, NEW recipient \in Accounts, NEW amount \in Amounts,
               NEW expiry \in Expiries, CreateAid(donor, recipient, amount, expiry)
        PROVE  TypeOK'
    BY <2>1, CreateType
  <2>2. ASSUME NEW id \in AidIds, RefundAid(id) PROVE TypeOK'
    <3>1. aids[id].status # "None"
      BY <2>2 DEF RefundAid, Refundable
    <3>2. aids[id].donor \in Accounts
      BY <3>1, PendingRecord DEF AidRecord, Accounts
    <3> QED BY <2>2, <3>1, <3>2, FinishType DEF RefundAid
  <2>3. ASSUME NEW id \in AidIds, NEW u \in Users, ClaimAid(id, u) PROVE TypeOK'
    <3>1. aids[id].status # "None"
      BY <2>3 DEF ClaimAid, Claimable
    <3>2. aids[id].recipient \in Accounts
      BY <3>1, PendingRecord DEF AidRecord
    <3> QED BY <2>3, <3>1, <3>2, FinishType DEF ClaimAid
  <2> QED BY <1>2, <2>1, <2>2, <2>3 DEF EscrowStep
<1>3. CASE WalkStep
  BY <1>3, WalkType
<1>4. CASE UNCHANGED vars
  BY <1>4 DEF vars, TypeOK, RecordsBelowCounter
<1> QED BY <1>1, <1>2, <1>3, <1>4 DEF Next

\* Every record of the contract and of a reading client keeps its type, and the
\* identifiers in use are exactly those below the counter.
THEOREM TypeCorrect == Spec => []TypeOK
<1> QED BY InitType, NextType, PTL DEF Spec

-----------------------------------------------------------------------------
(* The pot.                                                                *)

\* Pending amounts are naturals.
LEMMA PendingType ==
    ASSUME TypeOK, NEW i \in AidIds
    PROVE  /\ PendingAmounts[i] \in Nat
           /\ aids[i].status = "Pending" => PendingAmounts[i] = aids[i].amount
           /\ aids[i].status # "Pending" => PendingAmounts[i] = 0
<1>1. aids[i].status = "Pending" => aids[i].amount \in Nat
  BY PendingRecord DEF AidRecord
<1> QED BY <1>1 DEF PendingAmounts

\* When one aid changes, the total of the pending amounts changes by the
\* difference at that aid.
LEMMA PendingUpdate ==
    ASSUME TypeOK, TypeOK', NEW id \in AidIds,
           \A i \in AidIds \ {id} : aids'[i] = aids[i]
    PROVE  /\ SumOver(AidIds, PendingAmounts) \in Nat
           /\ SumOver(AidIds, PendingAmounts)'
                = SumOver(AidIds, PendingAmounts) + PendingAmounts'[id] - PendingAmounts[id]
<1> DEFINE F == PendingAmounts
           G == PendingAmounts'
<1>1. \A i \in AidIds : F[i] \in Nat
  BY PendingType
<1>2. \A i \in AidIds : G[i] \in Nat
  <2>1. ASSUME NEW i \in AidIds PROVE G[i] \in Nat
    <3>1. aids'[i] \in AidRecord \cup {NoAid}
      BY DEF TypeOK
    <3>2. aids'[i].status = "Pending" => aids'[i].amount \in Nat
      BY <3>1 DEF AidRecord, NoAid
    <3> QED BY <3>2 DEF PendingAmounts
  <2> QED BY <2>1
<1>3. \A i \in AidIds \ {id} : F[i] = G[i]
  BY DEF PendingAmounts
<1>4. IsFiniteSet(AidIds)
  BY AidIdsFinite
<1> HIDE DEF F, G
<1>5. SumOver(AidIds, G) = SumOver(AidIds, F) + G[id] - F[id]
  BY <1>1, <1>2, <1>3, <1>4, SumUpdate
<1>6. SumOver(AidIds, F) \in Nat
  BY <1>1, <1>4, SumType
<1>7. SumOver(AidIds, PendingAmounts)' = SumOver(AidIds, G)
  BY DEF G, SumOver, Units
<1> QED BY <1>5, <1>6, <1>7 DEF F, G

\* Closing a pending aid in favour of a signer takes its amount out of the pot
\* and off what is pending.
LEMMA FinishKeepsPot ==
    ASSUME TypeOK, TypeOK', PotIsPending, NEW id \in AidIds, aids[id].status = "Pending",
           NEW status \in {"Settled", "Refunded"}, NEW to \in Users,
           Finish(id, status, to)
    PROVE  PotIsPending'
<1>1. aids[id] \in AidRecord
  BY PendingRecord
<1>2. aids' = [aids EXCEPT ![id].status = status]
  BY DEF Finish
<1>3. aids'[id].status = status /\ \A i \in AidIds \ {id} : aids'[i] = aids[i]
  BY <1>1, <1>2 DEF TypeOK, AidRecord
<1>4. PendingAmounts[id] = aids[id].amount /\ PendingAmounts'[id] = 0
  BY <1>3, PendingType DEF PendingAmounts
<1>5. /\ SumOver(AidIds, PendingAmounts) \in Nat
      /\ SumOver(AidIds, PendingAmounts)'
            = SumOver(AidIds, PendingAmounts) + 0 - aids[id].amount
  BY <1>3, <1>4, PendingUpdate
<1>6. Contract \in Accounts /\ to \in Accounts /\ Contract # to /\ aids[id].amount \in Nat
  BY <1>1, AidAssumption DEF Accounts, AidRecord
<1>7. balance'[Contract] = balance[Contract] - aids[id].amount /\ balance[Contract] \in Nat
  BY <1>6, TransferBounds DEF TypeOK, Finish
<1>8. InitialBalance[Contract] \in Nat
  BY <1>6, AidAssumption
<1> QED BY <1>5, <1>6, <1>7, <1>8 DEF PotIsPending

\* Creating an aid puts its amount into the pot and onto what is pending.
LEMMA CreateKeepsPot ==
    ASSUME TypeOK, TypeOK', PotIsPending,
           NEW donor \in Users, NEW recipient \in Accounts,
           NEW amount \in Amounts, NEW expiry \in Expiries,
           CreateAid(donor, recipient, amount, expiry)
    PROVE  PotIsPending'
<1>1. amount \in Nat /\ counter \in AidIds /\ aids[counter].status = "None"
  BY AidAssumption DEF CreateAid
<1>2. /\ aids'[counter].status = "Pending" /\ aids'[counter].amount = amount
      /\ \A i \in AidIds \ {counter} : aids'[i] = aids[i]
  BY <1>1 DEF TypeOK, CreateAid
<1>3. PendingAmounts[counter] = 0 /\ PendingAmounts'[counter] = amount
  BY <1>1, <1>2, PendingType DEF PendingAmounts
<1>4. /\ SumOver(AidIds, PendingAmounts) \in Nat
      /\ SumOver(AidIds, PendingAmounts)'
            = SumOver(AidIds, PendingAmounts) + amount - 0
  BY <1>1, <1>2, <1>3, PendingUpdate
<1>5. Contract \in Accounts /\ donor \in Accounts /\ donor # Contract
  BY AidAssumption DEF Accounts
<1>6. balance'[Contract] = balance[Contract] + amount /\ balance[Contract] \in Nat
  <2>1. balance \in [Accounts -> Nat]
    BY DEF TypeOK
  <2>2. CanTransfer(balance, donor, amount) /\ balance' = Transfer(balance, donor, Contract, amount)
    BY DEF CreateAid
  <2> QED BY <1>1, <1>5, <2>1, <2>2, TransferBounds
<1>7. InitialBalance[Contract] \in Nat
  BY <1>5, AidAssumption
<1> QED BY <1>1, <1>4, <1>6, <1>7 DEF PotIsPending

\* Before the first call nothing is pending.
LEMMA InitPot == Init => PotIsPending
<1> SUFFICES ASSUME Init PROVE PotIsPending
  OBVIOUS
<1> DEFINE F == PendingAmounts
<1>1. \A i \in AidIds : F[i] = 0
  BY DEF Init, PendingAmounts, NoAid
<1> HIDE DEF F
<1>2. Units(AidIds, F) = {}
  <2>1. \A i \in AidIds : {i} \X (1 .. F[i]) = {}
    BY <1>1
  <2> QED BY <2>1 DEF Units
<1>3. SumOver(AidIds, F) = 0
  BY <1>2, FS_EmptySet DEF SumOver
<1>4. balance[Contract] = InitialBalance[Contract] /\ InitialBalance[Contract] \in Nat
  BY AidAssumption DEF Init, Accounts
<1> QED BY <1>3, <1>4 DEF PotIsPending, F

\* The contract's balance is always what it started with and exactly the
\* pending aids on top, for any number of donors, aids and ledgers.
THEOREM PotAlwaysPending == Spec => []PotIsPending
<1>1. TypeOK /\ TypeOK' /\ PotIsPending /\ [Next]_vars => PotIsPending'
  <2> SUFFICES ASSUME TypeOK, TypeOK', PotIsPending, [Next]_vars PROVE PotIsPending'
    OBVIOUS
  <2>1. CASE EscrowStep
    <3>1. ASSUME NEW id \in AidIds, RefundAid(id) PROVE PotIsPending'
      <4>1. aids[id].status = "Pending"
        BY <3>1 DEF RefundAid, Refundable
      <4>2. aids[id].donor \in Users
        BY <4>1, PendingRecord DEF AidRecord
      <4> QED BY <3>1, <4>1, <4>2, FinishKeepsPot DEF RefundAid
    <3>2. ASSUME NEW id \in AidIds, NEW u \in Users, ClaimAid(id, u) PROVE PotIsPending'
      <4>1. aids[id].status = "Pending" /\ aids[id].recipient \in Users
        BY <3>2 DEF ClaimAid, Claimable
      <4> QED BY <3>2, <4>1, FinishKeepsPot DEF ClaimAid
    <3> QED BY <2>1, <3>1, <3>2, CreateKeepsPot DEF EscrowStep
  <2>2. CASE UNCHANGED <<aids, balance>>
    <3>1. PendingAmounts' = PendingAmounts /\ balance' = balance
      BY <2>2 DEF PendingAmounts
    <3>2. SumOver(AidIds, PendingAmounts)' = SumOver(AidIds, PendingAmounts)
      BY <3>1 DEF SumOver, Units
    <3> QED BY <3>1, <3>2 DEF PotIsPending
  <2>3. Next \/ UNCHANGED vars => EscrowStep \/ UNCHANGED <<aids, balance>>
    BY DEF Next, Tick, AdminStep, Initialize, UpdateConfig, SetPaused, WalkStep,
           StartWalk, ReadPage, vars
  <2> QED BY <2>1, <2>2, <2>3
<1> QED BY <1>1, InitPot, TypeCorrect, PTL DEF Spec

\* What OneWayOut needs of the pot: each pending aid can be paid.
PendingIsFunded ==
    \A i \in AidIds : aids[i].status = "Pending" => CanTransfer(balance, Contract, aids[i].amount)

\* The transfer of a claim or a refund never fails for lack of funds, however
\* many aids are open and were closed before: what remains of the guards of
\* claim_aid and refund_aid is the ledger, the pause and the signer.
THEOREM PendingAlwaysFunded == Spec => []PendingIsFunded
<1>1. TypeOK /\ PotIsPending => PendingIsFunded
  <2> SUFFICES ASSUME TypeOK, PotIsPending, NEW i \in AidIds, aids[i].status = "Pending"
               PROVE  CanTransfer(balance, Contract, aids[i].amount)
    BY DEF PendingIsFunded
  <2> DEFINE F == PendingAmounts
  <2>1. \A j \in AidIds : F[j] \in Nat
    BY PendingType
  <2>2. F[i] = aids[i].amount
    BY PendingType
  <2>3. InitialBalance[Contract] \in Nat /\ balance[Contract] \in Nat
    BY AidAssumption DEF TypeOK, Accounts
  <2>4. balance[Contract] = InitialBalance[Contract] + SumOver(AidIds, F)
    BY DEF PotIsPending
  <2> HIDE DEF F
  <2>5. SumOver(AidIds, F) \in Nat /\ SumOver({i}, F) <= SumOver(AidIds, F)
    BY <2>1, AidIdsFinite, SumType, SumSubset
  <2>6. SumOver({i}, F) = F[i]
    BY <2>1, SumSingleton
  <2> QED BY <2>1, <2>2, <2>3, <2>4, <2>5, <2>6 DEF CanTransfer
<1> QED BY <1>1, TypeCorrect, PotAlwaysPending, PTL DEF Spec

\* The next state of a claim or a refund, every variable given a value and
\* nothing asked of the present one: there always is one.
PaidOut(i, status, to) ==
    /\ aids' = [aids EXCEPT ![i].status = status]
    /\ balance' = Transfer(balance, Contract, to, aids[i].amount)
    /\ UNCHANGED <<sequence, config, paused, counter, walk>>

\* The two ways out of a pending aid: at each ledger one is shut to every step,
\* and the state behind the other is one the call allows.
ClaimThenRefund ==
    \A i \in AidIds : aids[i].status = "Pending" =>
        IF sequence <= aids[i].expiry_ledger
        THEN /\ ~RefundAid(i)
             /\ ~paused /\ PaidOut(i, "Settled", aids[i].recipient)
                    => ClaimAid(i, aids[i].recipient)
        ELSE /\ ~ClaimAid(i, aids[i].recipient)
             /\ PaidOut(i, "Refunded", aids[i].donor) => RefundAid(i)

\* What OneWayOut says, with the steps themselves in place of ENABLED: a funded
\* aid can be claimed up to the expiry ledger and refunded after it, never both
\* and never neither, and a pause shuts the claim alone.  (claim_aid, refund_aid.)
THEOREM EachLedgerHasItsWayOut ==
    ASSUME TypeOK, PendingIsFunded
    PROVE  ClaimThenRefund
<1> SUFFICES ASSUME NEW i \in AidIds, aids[i].status = "Pending"
             PROVE  IF sequence <= aids[i].expiry_ledger
                    THEN /\ ~RefundAid(i)
                         /\ ~paused /\ PaidOut(i, "Settled", aids[i].recipient)
                                => ClaimAid(i, aids[i].recipient)
                    ELSE /\ ~ClaimAid(i, aids[i].recipient)
                         /\ PaidOut(i, "Refunded", aids[i].donor) => RefundAid(i)
  BY DEF ClaimThenRefund
<1>1. sequence \in Nat /\ aids[i].expiry_ledger \in Nat
  BY PendingRecord DEF TypeOK, AidRecord
<1>2. CanTransfer(balance, Contract, aids[i].amount)
  BY DEF PendingIsFunded
<1>3. ASSUME NEW status, NEW to, PaidOut(i, status, to) PROVE Finish(i, status, to)
  BY <1>2, <1>3 DEF PaidOut, Finish
<1>4. ASSUME sequence <= aids[i].expiry_ledger
      PROVE  ~RefundAid(i) /\ (~paused /\ PaidOut(i, "Settled", aids[i].recipient)
                                    => ClaimAid(i, aids[i].recipient))
  BY <1>1, <1>3, <1>4 DEF RefundAid, Refundable, ClaimAid, Claimable
<1>5. ASSUME ~(sequence <= aids[i].expiry_ledger)
      PROVE  /\ ~ClaimAid(i, aids[i].recipient)
             /\ PaidOut(i, "Refunded", aids[i].donor) => RefundAid(i)
  BY <1>1, <1>3, <1>5 DEF RefundAid, Refundable, ClaimAid, Claimable
<1> QED BY <1>4, <1>5

-----------------------------------------------------------------------------
(* The walk through the pages.                                             *)

\* The calls of others leave what is listed below the counter as it is.
LEMMA ListedKept ==
    ASSUME TypeOK, [Next]_vars, NEW donor
    PROVE  /\ counter' \in Nat /\ counter <= counter'
           /\ {i \in Listed(donor, 0)' : i < counter} = Listed(donor, 0)
<1>1. counter \in Nat /\ aids \in [AidIds -> AidRecord \cup {NoAid}] /\ AidIds \subseteq Nat
  BY AidIdsFinite, AidAssumption DEF TypeOK
<1>2. /\ counter' \in {counter, counter + 1}
      /\ \A i \in AidIds : i < counter => aids'[i].donor = aids[i].donor
  <2>1. CASE EscrowStep
    <3>1. ASSUME NEW d \in Users, NEW recipient \in Accounts, NEW amount \in Amounts,
                 NEW expiry \in Expiries, CreateAid(d, recipient, amount, expiry)
          PROVE  <1>2!1 /\ <1>2!2
      BY <1>1, <3>1 DEF CreateAid, NextId
    <3>2. ASSUME NEW id \in AidIds, NEW status, NEW to, Finish(id, status, to),
                 aids[id].status # "None"
          PROVE  <1>2!1 /\ <1>2!2
      <4>1. aids[id] \in AidRecord
        BY <3>2, PendingRecord
      <4>2. aids'[id].donor = aids[id].donor
        BY <1>1, <3>2, <4>1 DEF Finish, AidRecord
      <4> QED BY <1>1, <3>2, <4>2 DEF Finish
    <3> QED BY <2>1, <3>1, <3>2
            DEF EscrowStep, RefundAid, ClaimAid, Refundable, Claimable
  <2>2. CASE UNCHANGED <<aids, counter>>
    BY <2>2
  <2>3. EscrowStep \/ UNCHANGED <<aids, counter>>
    BY DEF Next, Tick, AdminStep, Initialize, UpdateConfig, SetPaused, WalkStep,
           StartWalk, ReadPage, vars
  <2> QED BY <2>1, <2>2, <2>3
<1>3. counter' \in Nat /\ counter <= counter'
  BY <1>1, <1>2
<1>4. ASSUME NEW i \in AidIds, i < counter
      PROVE  i \in Listed(donor, 0)' <=> i \in Listed(donor, 0)
  BY <1>1, <1>2, <1>3, <1>4 DEF Listed
<1>5. \A i \in Listed(donor, 0) : i \in AidIds /\ i < counter
  BY DEF Listed
<1>6. \A i \in Listed(donor, 0)' : i \in AidIds
  BY DEF Listed
<1> QED BY <1>3, <1>4, <1>5, <1>6

\* A page adds to what was seen exactly what lies between two cursors.
LEMMA ReadPageComplete ==
    ASSUME TypeOK, WalkMissesNothing, NEW limit \in Limits, ReadPage(limit)
    PROVE  WalkMissesNothing'
<1> DEFINE d == walk.donor
           c == walk.cursor
           page == Page(d, limit, c)
           end == ScanEnd(d, limit, c)
<1>1. /\ counter \in Nat /\ counter <= MaxAids /\ limit \in Nat
      /\ c \in Nat /\ c <= counter /\ walk.seen \in SUBSET AidIds
  BY AidAssumption DEF TypeOK
<1>2. /\ end \in Nat /\ c <= end
      /\ page = {i \in Listed(d, c) : i < end}
      /\ IsFiniteSet(page)
  BY <1>1, PageIsASegment
<1>3. /\ walk'.donor = d /\ walk'.cursor = end
      /\ walk'.seen = walk.seen \cup page
      /\ walk'.received = walk.received + Cardinality(page)
      /\ UNCHANGED <<counter, aids>>
  BY DEF TypeOK, ReadPage
<1>4. walk.seen = {i \in Listed(d, 0) : i < c} /\ walk.received = Cardinality(walk.seen)
  BY DEF WalkMissesNothing
<1>5. ASSUME NEW i PROVE i \in Listed(d, c) <=> i \in Listed(d, 0) /\ i >= c
  <2>1. i \in AidIds => i \in Nat /\ i >= 0
    BY AidIdsFinite
  <2> QED BY <2>1 DEF Listed
<1> HIDE DEF page, end, c
<1>6. \A i \in Listed(d, 0) : i \in Nat
  BY AidIdsFinite DEF Listed
<1>7. walk.seen \cup page = {i \in Listed(d, 0) : i < end}
  BY <1>1, <1>2, <1>4, <1>5, <1>6
<1>8. walk.seen \cap page = {}
  BY <1>1, <1>2, <1>4, <1>5, <1>6
<1>9. IsFiniteSet(walk.seen)
  BY <1>1, AidIdsFinite, FS_Subset
<1>10. Cardinality(walk.seen \cup page) = Cardinality(walk.seen) + Cardinality(page)
  <2>1. Cardinality(walk.seen \cup page)
            = Cardinality(walk.seen) + Cardinality(page) - Cardinality(walk.seen \cap page)
    BY ONLY <1>2, <1>9, FS_Union
  <2>2. Cardinality(walk.seen) \in Nat /\ Cardinality(page) \in Nat
    BY <1>2, <1>9, FS_CardinalityType
  <2> QED BY <1>8, <2>1, <2>2, FS_EmptySet
<1>11. Listed(walk.donor, 0)' = Listed(d, 0)
  BY <1>3 DEF Listed
<1> QED BY <1>3, <1>4, <1>7, <1>10, <1>11 DEF WalkMissesNothing

\* A client that follows the cursors receives every aid it asked for exactly
\* once, for every choice of page sizes and every interleaving with creations,
\* claims and refunds.
THEOREM WalkComplete == Spec => []WalkMissesNothing
<1>1. Init => WalkMissesNothing
  <2> SUFFICES ASSUME Init PROVE WalkMissesNothing
    OBVIOUS
  <2>1. ASSUME NEW i \in Listed(walk.donor, 0) PROVE FALSE
    <3>1. i \in Nat /\ i < 0
      BY AidIdsFinite DEF Init, Listed
    <3> QED BY <3>1
  <2> QED BY <2>1, FS_EmptySet DEF Init, NoWalk, WalkMissesNothing
<1>2. TypeOK /\ TypeOK' /\ WalkMissesNothing /\ [Next]_vars => WalkMissesNothing'
  <2> SUFFICES ASSUME TypeOK, TypeOK', WalkMissesNothing, [Next]_vars
               PROVE  WalkMissesNothing'
    OBVIOUS
  <2>1. ASSUME NEW donor \in Users \cup {AnyDonor}, StartWalk(donor)
        PROVE  WalkMissesNothing'
    <3>1. /\ walk' = [donor |-> donor, cursor |-> 0, seen |-> {}, received |-> 0,
                      done |-> FALSE]
      BY <2>1 DEF StartWalk
    <3>2. \A i \in Listed(donor, 0)' : ~(i < 0)
      BY AidIdsFinite DEF Listed
    <3> QED BY <3>1, <3>2, FS_EmptySet DEF WalkMissesNothing
  <2>2. CASE UNCHANGED walk
    <3>1. /\ walk.cursor \in Nat /\ counter \in Nat /\ walk.cursor <= counter
      BY AidAssumption DEF TypeOK
    <3>2. PICK d : d = walk.donor
      OBVIOUS
    <3>3. \A i \in Listed(d, 0)' : i \in Nat
      BY AidIdsFinite DEF Listed
    <3>4. {i \in Listed(d, 0)' : i < counter} = Listed(d, 0)
      BY ListedKept
    <3>5. {i \in Listed(d, 0)' : i < walk.cursor} = {i \in Listed(d, 0) : i < walk.cursor}
      BY ONLY <3>1, <3>3, <3>4
    <3>6. Listed(walk.donor, 0)' = Listed(d, 0)'
      BY <2>2, <3>2 DEF Listed
    <3> QED BY <2>2, <3>2, <3>5, <3>6 DEF WalkMissesNothing
  <2>3. WalkStep \/ UNCHANGED walk
    BY DEF Next, Tick, AdminStep, Initialize, UpdateConfig, SetPaused, EscrowStep,
           CreateAid, RefundAid, ClaimAid, Finish, vars
  <2> QED BY <2>1, <2>2, <2>3, ReadPageComplete DEF WalkStep
<1> QED BY <1>1, <1>2, TypeCorrect, PTL DEF Spec

-----------------------------------------------------------------------------
(* Aid implements Escrow.                                                  *)

\* The deal behind an identifier.
LEMMA DealOf ==
    ASSUME NEW i \in AidIds
    PROVE  /\ aids[i].status = "None" => AidDeals[i] = [stage |-> "None"]
           /\ aids[i].status # "None" =>
                AidDeals[i] = [stage |-> Stage(aids[i].status), from |-> aids[i].donor,
                               to |-> aids[i].recipient, amount |-> aids[i].amount,
                               deadline |-> aids[i].expiry_ledger]
BY DEF AidDeals

\* Creating an aid opens its deal.
LEMMA CreateOpens ==
    ASSUME TypeOK, NEW id \in AidIds, id = counter,
           NEW donor \in Users, NEW recipient \in Accounts,
           NEW amount \in Amounts, NEW expiry \in Expiries,
           CreateAid(donor, recipient, amount, expiry)
    PROVE  E!Open(id)
<1> DEFINE d == [stage |-> "Held", from |-> donor, to |-> recipient,
                 amount |-> amount, deadline |-> expiry]
<1>1. /\ aids[id].status = "None" /\ amount > 0
      /\ expiry > sequence /\ CanTransfer(balance, donor, amount)
      /\ sequence' = sequence
      /\ balance' = Transfer(balance, donor, Contract, amount)
      /\ aids' = [aids EXCEPT ![id] =
                    [donor |-> donor, recipient |-> recipient, amount |-> amount,
                     expiry_ledger |-> expiry, status |-> "Pending"]]
  BY DEF CreateAid
<1>2. AidDeals[id] = [stage |-> "None"]
  BY <1>1 DEF AidDeals
<1>3. AidDeals' = [AidDeals EXCEPT ![id] = d]
  BY <1>1 DEF TypeOK, AidDeals, Stage
<1>4. AidDeals'[id] = d
  BY <1>1, <1>3 DEF AidDeals
<1>5. amount \in Int /\ balance \in [Accounts -> Nat] /\ amount <= balance[donor]
  BY <1>1, AidAssumption DEF TypeOK, CanTransfer
<1>6. donor \in Accounts /\ Contract \in Accounts /\ Users \subseteq Accounts /\ Contract \notin Users
  BY AidAssumption DEF Accounts
<1>7. [u \in Users |-> balance'[u]]
        = [u \in Users |-> IF u = donor THEN balance[u] + -amount ELSE balance[u]]
  BY <1>1, <1>5, <1>6 DEF Transfer
<1>8. /\ d.stage = "Held" /\ d.from = donor /\ d.deadline = expiry /\ d.amount = amount
  OBVIOUS
<1>9. [u \in Users |-> balance[u]][donor] = balance[donor]
  OBVIOUS
<1>10. E!Moved(donor, -amount) = [u \in Users |-> balance'[u]]
  BY <1>7 DEF E!Moved
<1> HIDE DEF d
<1> QED BY <1>1, <1>2, <1>3, <1>4, <1>5, <1>8, <1>9, <1>10 DEF E!Open, E!NoDeal

\* Finishing an aid closes its deal and pays one side of it.
LEMMA FinishCloses ==
    ASSUME TypeOK, NEW id \in AidIds, aids[id].status = "Pending",
           NEW status \in {"Settled", "Refunded"}, NEW to \in Users,
           Finish(id, status, to)
    PROVE  /\ E!Close(id, Stage(status))
           /\ [u \in Users |-> balance'[u]] = E!Moved(to, aids[id].amount)
           /\ AidDeals[id] = [stage |-> "Held", from |-> aids[id].donor,
                              to |-> aids[id].recipient, amount |-> aids[id].amount,
                              deadline |-> aids[id].expiry_ledger]
<1>1. aids[id] \in AidRecord
  BY PendingRecord
<1>2. /\ aids' = [aids EXCEPT ![id].status = status] /\ sequence' = sequence
      /\ balance' = Transfer(balance, Contract, to, aids[id].amount)
  BY DEF Finish
<1>3. aids'[id] = [aids[id] EXCEPT !.status = status]
      /\ \A i \in AidIds \ {id} : aids'[i] = aids[i]
  BY <1>2 DEF TypeOK
<1>4. AidDeals[id] = [stage |-> "Held", from |-> aids[id].donor,
                      to |-> aids[id].recipient, amount |-> aids[id].amount,
                      deadline |-> aids[id].expiry_ledger]
  BY DEF AidDeals, Stage
<1>5. AidDeals'[id] = [AidDeals[id] EXCEPT !.stage = Stage(status)]
  BY <1>1, <1>3, <1>4 DEF AidDeals, AidRecord, Stage
<1>6. \A i \in AidIds \ {id} : AidDeals'[i] = AidDeals[i]
  BY <1>3 DEF AidDeals, Stage
<1>7. AidDeals' = [AidDeals EXCEPT ![id].stage = Stage(status)]
  <2>1. AidDeals' = [i \in AidIds |-> AidDeals'[i]] /\ AidDeals = [i \in AidIds |-> AidDeals[i]]
    BY DEF AidDeals
  <2> QED BY <1>5, <1>6, <2>1
<1>8. /\ balance \in [Accounts -> Nat] /\ aids[id].amount \in Nat /\ Contract \in Accounts
      /\ Contract \notin Users /\ Users \subseteq Accounts
  BY <1>1, AidAssumption DEF TypeOK, AidRecord, Accounts
<1>9. [u \in Users |-> balance'[u]] = E!Moved(to, aids[id].amount)
  BY <1>2, <1>8 DEF Transfer, E!Moved
<1> QED BY <1>2, <1>4, <1>7, <1>9 DEF E!Close

\* Aid implements the abstract escrow: every call is a step of a deal, which
\* moves the whole amount once and to the right side of the deadline, or
\* moves no money and no deal at all.
THEOREM AidImplementsEscrow == Spec => ImplementsEscrow
<1>1. Init => E!Init
  <2> SUFFICES ASSUME Init PROVE E!Init
    OBVIOUS
  <2>1. AidDeals = [i \in AidIds |-> E!NoDeal]
    BY DEF Init, AidDeals, NoAid, E!NoDeal
  <2>2. [u \in Users |-> balance[u]] \in [Users -> Nat]
    BY AidAssumption DEF Init, Accounts
  <2> QED BY <2>1, <2>2 DEF Init, E!Init
<1>2. TypeOK /\ [Next]_vars => [E!Next]_(E!vars)
  <2> SUFFICES ASSUME TypeOK, [Next]_vars PROVE [E!Next]_(E!vars)
    OBVIOUS
  <2>1. CASE EscrowStep
    <3>1. ASSUME NEW donor \in Users, NEW recipient \in Accounts, NEW amount \in Amounts,
                 NEW expiry \in Expiries, CreateAid(donor, recipient, amount, expiry)
          PROVE  E!Next
      <4>1. PICK id \in AidIds : id = counter
        BY <3>1 DEF CreateAid
      <4>2. E!Open(id)
        BY <3>1, <4>1, CreateOpens
      <4> QED BY <4>2 DEF E!Next
    <3>2. ASSUME NEW id \in AidIds, RefundAid(id) PROVE E!Next
      <4>1. aids[id].status = "Pending" /\ sequence > aids[id].expiry_ledger
        BY <3>2 DEF RefundAid, Refundable
      <4>2. aids[id].donor \in Users /\ Finish(id, "Refunded", aids[id].donor)
        BY <3>2, <4>1, PendingRecord DEF RefundAid, AidRecord
      <4>3. /\ E!Close(id, Stage("Refunded"))
            /\ [u \in Users |-> balance'[u]] = E!Moved(aids[id].donor, aids[id].amount)
            /\ AidDeals[id] = [stage |-> "Held", from |-> aids[id].donor,
                               to |-> aids[id].recipient, amount |-> aids[id].amount,
                               deadline |-> aids[id].expiry_ledger]
        BY <4>1, <4>2, FinishCloses
      <4>4. E!Return(id)
        BY <4>1, <4>3 DEF E!Return, Stage
      <4> QED BY <4>4 DEF E!Next
    <3>3. ASSUME NEW id \in AidIds, NEW u \in Users, ClaimAid(id, u) PROVE E!Next
      <4>1. /\ aids[id].status = "Pending" /\ sequence <= aids[id].expiry_ledger
            /\ aids[id].recipient \in Users /\ Finish(id, "Settled", aids[id].recipient)
        BY <3>3 DEF ClaimAid, Claimable
      <4>2. /\ E!Close(id, Stage("Settled"))
            /\ [v \in Users |-> balance'[v]] = E!Moved(aids[id].recipient, aids[id].amount)
            /\ AidDeals[id] = [stage |-> "Held", from |-> aids[id].donor,
                               to |-> aids[id].recipient, amount |-> aids[id].amount,
                               deadline |-> aids[id].expiry_ledger]
        BY <4>1, FinishCloses
      <4>3. E!Deliver(id)
        BY <4>1, <4>2 DEF E!Deliver, Stage
      <4> QED BY <4>3 DEF E!Next
    <3> QED BY <2>1, <3>1, <3>2, <3>3 DEF EscrowStep
  <2>2. CASE Tick
    <3>1. sequence' > sequence /\ aids' = aids /\ balance' = balance
      BY <2>2 DEF Tick, TypeOK
    <3>2. E!Pass
      BY <3>1 DEF E!Pass, AidDeals
    <3> QED BY <3>2 DEF E!Next
  <2>3. CASE UNCHANGED <<sequence, aids, balance>>
    BY <2>3 DEF E!vars, AidDeals
  <2>4. EscrowStep \/ Tick \/ UNCHANGED <<sequence, aids, balance>>
    BY DEF Next, AdminStep, Initialize, UpdateConfig, SetPaused, WalkStep,
           StartWalk, ReadPage, vars
  <2> QED BY <2>1, <2>2, <2>3, <2>4
<1> QED BY <1>1, <1>2, TypeCorrect, PTL DEF Spec, ImplementsEscrow, E!Spec
=============================================================================
