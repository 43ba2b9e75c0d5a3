--------------------------- MODULE RewardsProofs ---------------------------
(***************************************************************************)
(* Theorems about Referral alone, whatever the treasury answers, and about *)
(* the three contracts of Rewards together, for every finite set of        *)
(* wallets, all amounts, tier configurations and limits.                   *)
(***************************************************************************)
EXTENDS Rewards, LedgerProofs

-----------------------------------------------------------------------------
(* Types.                                                                  *)

\* The share of a positive amount is a natural number.
LEMMA BpsOfType ==
    ASSUME NEW amount \in Nat, NEW bps \in Nat
    PROVE  BpsOf(amount, bps) \in Nat
<1>1. /\ amount \div BPS_DENOM \in Nat
      /\ amount % BPS_DENOM \in Nat
  BY DEF BPS_DENOM
<1>2. /\ (amount \div BPS_DENOM) * bps \in Nat
      /\ (amount % BPS_DENOM) * bps \in Nat
  BY <1>1
<1>3. ((amount % BPS_DENOM) * bps) \div BPS_DENOM \in Nat
  BY <1>2 DEF BPS_DENOM
<1> QED BY <1>2, <1>3 DEF BpsOf

\* The tiers are finitely many.
LEMMA TiersFinite ==
    ASSUME NEW S, NEW s \in Seq(S), NEW P \in SUBSET DOMAIN s
    PROVE  IsFiniteSet(P)
<1>1. Len(s) \in Nat /\ DOMAIN s = 1 .. Len(s)
  OBVIOUS
<1>2. IsFiniteSet(1 .. Len(s))
  BY <1>1, FS_Interval
<1> QED BY <1>1, <1>2, FS_Subset

\* Sequences and their elements.
LEMMA SeqElement ==
    ASSUME NEW S, NEW s \in Seq(S), NEW t \in DOMAIN s
    PROVE  s[t] \in S
OBVIOUS

LEMMA SeqOfElements ==
    ASSUME NEW Q, NEW S, NEW s \in Seq(Q), \A t \in DOMAIN s : s[t] \in S
    PROVE  s \in Seq(S)
<1>1. Len(s) \in Nat /\ DOMAIN s = 1 .. Len(s) /\ s = [t \in 1 .. Len(s) |-> s[t]]
  OBVIOUS
<1>2. s \in [1 .. Len(s) -> S]
  BY <1>1
<1> QED BY <1>1, <1>2

\* A credit is a natural number and keeps the referrer within the cap.
LEMMA CreditBounds ==
    ASSUME TypeOK, NEW wallet \in Wallets, NEW base \in BaseAmounts, base > 0, NEW who \in Wallets
    PROVE  /\ Credit(wallet, base, who) \in Nat
           /\ lifetime[who] + Credit(wallet, base, who) \in 0 .. MAX_REWARD_CAP
<1> DEFINE up == Uplines(wallet)
           tiers == {t \in DOMAIN tier_bps : up[t] = who}
           commission == [t \in DOMAIN tier_bps |-> BpsOf(base, tier_bps[t])]
           n == SumOver(tiers, commission)
<1>1. base \in Nat
  BY ReferralAssumption
<1>2. tier_bps \in Seq(0 .. BPS_DENOM)
  BY DEF TypeOK
<1>3. \A t \in DOMAIN tier_bps : commission[t] \in Nat
  <2>1. ASSUME NEW t \in DOMAIN tier_bps PROVE BpsOf(base, tier_bps[t]) \in Nat
    <3>1. tier_bps[t] \in 0 .. BPS_DENOM
      BY ONLY <1>2, <2>1, SeqElement
    <3>2. BPS_DENOM \in Nat
      BY DEF BPS_DENOM
    <3>3. tier_bps[t] \in Nat
      BY <3>1, <3>2
    <3> QED BY <1>1, <3>3, BpsOfType
  <2> QED BY <2>1
<1>4. n \in Nat
  <2>1. IsFiniteSet(tiers)
    <3>1. tiers \in SUBSET DOMAIN tier_bps
      OBVIOUS
    <3> HIDE DEF tiers
    <3> QED BY <1>2, <3>1, TiersFinite
  <2>2. \A t \in tiers : commission[t] \in Nat
    BY <1>3
  <2> HIDE DEF tiers, commission
  <2> QED BY <2>1, <2>2, SumType
<1>5. Credit(wallet, base, who) = Capped(who, n)
  BY DEF Credit
<1>6. /\ lifetime[who] \in 0 .. MAX_REWARD_CAP
      /\ reward_cap \in 0 .. MAX_REWARD_CAP
      /\ MAX_REWARD_CAP \in Nat
  BY ReferralAssumption DEF TypeOK
<1> HIDE DEF n
<1> QED BY <1>4, <1>5, <1>6 DEF Capped

\* What a valid configuration holds.
LEMMA ConfigType ==
    ASSUME NEW config \in TierConfigs, ValidTierConfig(config)
    PROVE  /\ config.tier_bps \in Seq(0 .. BPS_DENOM)
           /\ Len(config.tier_bps) <= MAX_SUPPORTED_TIERS
           /\ config.reward_cap \in 0 .. MAX_REWARD_CAP
<1>1. config \in [tier_bps : Seq(Int), max_tiers : Nat, reward_cap : Int]
  BY ReferralAssumption
<1>2. config.tier_bps \in Seq(Int)
  BY <1>1
<1>3. \A t \in DOMAIN config.tier_bps : config.tier_bps[t] \in 0 .. BPS_DENOM
  BY DEF ValidTierConfig
<1>4. config.tier_bps \in Seq(0 .. BPS_DENOM)
  BY ONLY <1>2, <1>3, SeqOfElements
<1>5. /\ config.max_tiers \in 1 .. MAX_SUPPORTED_TIERS
      /\ Len(config.tier_bps) = config.max_tiers
      /\ config.reward_cap \in 0 .. MAX_REWARD_CAP
  BY DEF ValidTierConfig
<1>6. Len(config.tier_bps) <= MAX_SUPPORTED_TIERS
  BY <1>5, ReferralAssumption
<1> QED BY <1>4, <1>5, <1>6

\* Each call keeps the types.
LEMMA TypeStep ==
    ASSUME TypeOK, [Next]_vars
    PROVE  TypeOK'
<1> USE DEF TypeOK
<1>1. CASE \E new_admin \in Admins : Initialize(new_admin)
  <2>1. PICK new_admin \in Admins : Initialize(new_admin)
    BY <1>1
  <2>2. /\ admin' \in Wallets \cup {NoAddress}
        /\ reward_cap' \in 0 .. MAX_REWARD_CAP
    BY <2>1, ReferralAssumption DEF Initialize
  <2>3. tier_bps' \in Seq(0 .. BPS_DENOM) /\ Len(tier_bps') <= MAX_SUPPORTED_TIERS
    <3>1. 0 \in 0 .. BPS_DENOM
      BY DEF BPS_DENOM
    <3>2. tier_bps' = <<0>>
      BY <2>1 DEF Initialize
    <3>3. MAX_SUPPORTED_TIERS \in Nat \ {0}
      BY ReferralAssumption
    <3> QED BY <3>1, <3>2, <3>3
  <2> QED BY <2>1, <2>2, <2>3 DEF Initialize
<1>2. ASSUME NEW caller \in Wallets, NEW config \in TierConfigs, SetTierConfig(caller, config)
      PROVE  TypeOK'
  BY <1>2, ConfigType DEF SetTierConfig
<1>3. ASSUME NEW wallet \in Wallets, NEW upper \in Wallets, Link(wallet, upper)
      PROVE  TypeOK'
  BY <1>3 DEF Link
<1>4. ASSUME NEW caller \in Wallets, NEW wallet \in Wallets, NEW base \in BaseAmounts,
             Accrue(caller, wallet, base)
      PROVE  TypeOK'
  <2>1. base > 0
    BY <1>4 DEF Accrue
  <2>2. \A w \in Wallets : /\ Credit(wallet, base, w) \in Nat
                           /\ lifetime[w] + Credit(wallet, base, w) \in 0 .. MAX_REWARD_CAP
    BY <2>1, CreditBounds
  <2> DEFINE credit == [w \in Wallets |-> Credit(wallet, base, w)]
  <2>3. accrued' \in [Wallets -> Nat] /\ lifetime' \in [Wallets -> 0 .. MAX_REWARD_CAP]
    <3>1. /\ \A w \in Wallets : credit[w] \in Nat /\ lifetime[w] + credit[w] \in 0 .. MAX_REWARD_CAP
          /\ accrued' = [w \in Wallets |-> accrued[w] + credit[w]]
          /\ lifetime' = [w \in Wallets |-> lifetime[w] + credit[w]]
      BY <1>4, <2>2 DEF Accrue
    <3>2. accrued \in [Wallets -> Nat]
      OBVIOUS
    <3> HIDE DEF credit
    <3>3. \A w \in Wallets : accrued[w] + credit[w] \in Nat
      BY ONLY <3>1, <3>2
    <3> QED BY ONLY <3>1, <3>3
  <2> QED BY <1>4, <2>3 DEF Accrue
<1>5. ASSUME NEW who \in Wallets, ClaimRewards(who)
      PROVE  TypeOK'
  BY <1>5 DEF ClaimRewards
<1>6. CASE UNCHANGED vars
  BY <1>6 DEF vars
<1> QED BY <1>1, <1>2, <1>3, <1>4, <1>5, <1>6
        DEF Next, AdminStep, OpenStep, SetReferrer, Register

LEMMA TypeInit == Init => TypeOK
<1>1. 0 \in 0 .. MAX_REWARD_CAP
  BY ReferralAssumption
<1>2. << >> \in Seq(0 .. BPS_DENOM) /\ Len(<< >>) <= MAX_SUPPORTED_TIERS
  BY ReferralAssumption
<1> QED BY <1>1, <1>2 DEF Init, TypeOK

\* Every balance of the referral contract stays a natural number, no referrer
\* earns more than the highest cap, and no configuration has a share above 100%.
THEOREM TypeCorrect == Spec => []TypeOK
<1>1. Init => TypeOK
  BY TypeInit
<1>2. TypeOK /\ [Next]_vars => TypeOK'
  BY TypeStep
<1> QED BY <1>1, <1>2, PTL DEF Spec
-----------------------------------------------------------------------------
(* The referral graph.                                                     *)

\* A link that closed a cycle would close it with the new edge: behind its last
\* use and before its first one the old edges lead from the new referrer to the
\* wallet, and the search would have met the wallet on that way.
LEMMA LinkClosesNoCycle ==
    ASSUME TypeOK, NoShortCycle,
           NEW wallet \in Wallets, NEW upper \in Wallets, Link(wallet, upper),
           NEW n \in 1 .. MAX_SUPPORTED_TIERS, NEW path \in [0 .. n -> Wallets],
           Climbs(path, n)', path[n] = path[0]
    PROVE  FALSE
<1> DEFINE New == {k \in 1 .. n : path[k - 1] = wallet}
<1>1. /\ MAX_SUPPORTED_TIERS \in Nat \ {0}
      /\ n \in Nat /\ n >= 1 /\ n <= MAX_SUPPORTED_TIERS
  BY ReferralAssumption
<1>2. \A k \in 1 .. n : /\ k - 1 \in 0 .. n
                        /\ k \in 0 .. n
                        /\ path[k] = IF path[k - 1] = wallet THEN upper ELSE referrer[path[k - 1]]
  <2>1. referrer' = [referrer EXCEPT ![wallet] = upper]
    BY DEF Link
  <2>2. referrer \in [Wallets -> Wallets \cup {NoAddress}]
    BY DEF TypeOK
  <2>3. \A k \in 1 .. n : path[k] = referrer'[path[k - 1]]
    BY DEF Climbs
  <2>4. \A k \in 1 .. n : k - 1 \in 0 .. n /\ k \in 0 .. n
    BY <1>1
  <2>5. \A k \in 1 .. n : path[k - 1] \in Wallets
    BY <2>4
  <2> QED BY <2>1, <2>2, <2>3, <2>4, <2>5
<1>3. CASE New = {}
  <2>1. Climbs(path, n)
    BY <1>2, <1>3 DEF Climbs
  <2> QED BY <2>1 DEF NoShortCycle
<1>4. CASE New # {}
  <2>1. PICK j \in New : \A k \in New : j <= k
    <3>1. New \in SUBSET Nat
      BY <1>1
    <3> HIDE DEF New
    <3> QED BY <1>4, <3>1, LeastExists
  <2>2. PICK k \in New : \A i \in New : i <= k
    <3> DEFINE D == {n - i : i \in New}
    <3>1. D \in SUBSET Nat /\ D # {}
      BY <1>1, <1>4
    <3>2. PICK d \in D : \A e \in D : d <= e
      <4> HIDE DEF D
      <4> QED BY <3>1, LeastExists
    <3>3. PICK k \in New : d = n - k
      BY <3>2
    <3>4. ASSUME NEW i \in New PROVE i <= k
      <4>1. d <= n - i
        BY <3>2
      <4> QED BY <1>1, <3>3, <4>1
    <3> QED BY <3>3, <3>4
  <2>3. /\ j \in 1 .. n /\ k \in 1 .. n /\ j <= k
        /\ path[j - 1] = wallet /\ path[k] = upper
    BY <1>2, <2>1, <2>2
  <2>4. \A i \in 1 .. n : i < j \/ i > k => path[i] = referrer[path[i - 1]]
    <3>1. ASSUME NEW i \in 1 .. n, i < j \/ i > k PROVE i \notin New
      BY <2>1, <2>2, <2>3, <3>1
    <3> QED BY <1>2, <3>1
  <2> DEFINE m == (n - k) + (j - 1)
             q == [i \in 0 .. m |-> IF i <= n - k THEN path[k + i] ELSE path[i - (n - k)]]
  <2>5. m \in 0 .. MAX_SUPPORTED_TIERS - 1 /\ m \in Nat
    BY <1>1, <2>3
  <2>6. \A i \in 0 .. m : /\ i <= n - k => k + i \in 0 .. n
                          /\ i > n - k => i - (n - k) \in 0 .. n
    BY <1>1, <2>3
  <2>7. q \in [0 .. m -> Wallets]
    BY <2>6
  <2>8. q[0] = upper /\ q[m] = wallet
    <3>1. 0 \in 0 .. m /\ m \in 0 .. m /\ 0 <= n - k /\ k + 0 = k
      BY <1>1, <2>3
    <3>2. q[0] = path[k]
      BY <3>1
    <3>3. CASE j = 1
      <4>1. m <= n - k /\ k + m = n /\ j - 1 = 0
        BY <1>1, <2>3, <3>3
      <4>2. q[m] = path[n]
        BY <3>1, <4>1
      <4> QED BY <2>3, <3>2, <4>1, <4>2
    <3>4. CASE j # 1
      <4>1. ~(m <= n - k) /\ m - (n - k) = j - 1
        BY <1>1, <2>3, <3>4
      <4>2. q[m] = path[j - 1]
        BY <3>1, <4>1
      <4> QED BY <2>3, <3>2, <4>2
    <3> QED BY <3>3, <3>4
  <2>9. Climbs(q, m)
    <3>1. ASSUME NEW i \in 1 .. m PROVE q[i] = referrer[q[i - 1]]
      <4>1. i \in 0 .. m /\ i - 1 \in 0 .. m
        BY <2>5
      <4>2. CASE i <= n - k
        <5>1. k + i \in 1 .. n /\ k + i > k /\ i - 1 <= n - k /\ k + (i - 1) = (k + i) - 1
          BY <1>1, <2>3, <4>2
        <5>2. q[i] = path[k + i] /\ q[i - 1] = path[(k + i) - 1]
          BY <4>1, <4>2, <5>1
        <5> QED BY <2>4, <5>1, <5>2
      <4>3. CASE i > n - k
        <5> DEFINE l == i - (n - k)
        <5>1. l \in 1 .. n /\ l < j /\ ~(i <= n - k)
          BY <1>1, <2>3, <4>3
        <5>2. q[i] = path[l]
          BY <4>1, <5>1
        <5>3. q[i - 1] = path[l - 1]
          <6>1. CASE i - 1 <= n - k
            <7>1. k + (i - 1) = n /\ l - 1 = 0
              BY <1>1, <2>3, <4>3, <6>1
            <7> QED BY <4>1, <6>1, <7>1
          <6>2. CASE ~(i - 1 <= n - k)
            <7>1. (i - 1) - (n - k) = l - 1
              BY <1>1, <2>3
            <7> QED BY <4>1, <6>2, <7>1
          <6> QED BY <6>1, <6>2
        <5>4. path[l] = referrer[path[l - 1]]
          BY <2>4, <5>1
        <5> QED BY <5>2, <5>3, <5>4
      <4> QED BY <1>1, <2>3, <4>2, <4>3
    <3> QED BY <3>1 DEF Climbs
  <2>10. ~WouldCreateCycle(wallet, upper)
    BY DEF Link
  <2> HIDE DEF m, q
  <2> QED BY <2>5, <2>7, <2>8, <2>9, <2>10 DEF WouldCreateCycle
<1> QED BY <1>3, <1>4

\* Without a new link the graph stays as it is.
LEMMA SameGraph ==
    ASSUME NoShortCycle, referrer' = referrer
    PROVE  NoShortCycle'
BY DEF NoShortCycle, Climbs

LEMMA NoShortCycleStep ==
    ASSUME TypeOK, NoShortCycle, [Next]_vars
    PROVE  NoShortCycle'
<1>1. ASSUME NEW wallet \in Wallets, NEW upper \in Wallets, Link(wallet, upper)
      PROVE  NoShortCycle'
  <2>1. \A n \in 1 .. MAX_SUPPORTED_TIERS : \A path \in [0 .. n -> Wallets] :
            Climbs(path, n)' => path[n] # path[0]
    BY <1>1, LinkClosesNoCycle
  <2> QED BY <2>1 DEF NoShortCycle
<1>2. ASSUME NEW caller \in Wallets, NEW wallet \in Wallets, NEW upper \in Wallets,
             SetReferrer(caller, wallet, upper) \/ Register(wallet, upper)
      PROVE  NoShortCycle'
  BY <1>1, <1>2 DEF SetReferrer, Register
<1>3. CASE \E new_admin \in Admins : Initialize(new_admin)
  BY <1>3, SameGraph DEF Initialize
<1>4. CASE \E caller \in Wallets, config \in TierConfigs : SetTierConfig(caller, config)
  BY <1>4, SameGraph DEF SetTierConfig
<1>5. CASE \E caller, wallet \in Wallets, base \in BaseAmounts : Accrue(caller, wallet, base)
  BY <1>5, SameGraph DEF Accrue
<1>6. CASE \E who \in Wallets : ClaimRewards(who)
  BY <1>6, SameGraph DEF ClaimRewards
<1>7. CASE UNCHANGED vars
  BY <1>7, SameGraph DEF vars
<1> QED BY <1>2, <1>3, <1>4, <1>5, <1>6, <1>7 DEF Next, AdminStep, OpenStep

\* No order of registrations and replaced referrers ever makes a wallet its own
\* referrer over as many tiers as an accrual may climb.
THEOREM NobodyRefersItself == Spec => []NoShortCycle
<1>1. Init => NoShortCycle
  <2>1. ASSUME Init, NEW n \in 1 .. MAX_SUPPORTED_TIERS, NEW path \in [0 .. n -> Wallets],
               Climbs(path, n)
        PROVE  FALSE
    <3>1. 1 \in 1 .. n /\ 0 \in 0 .. n /\ 1 \in 0 .. n /\ 1 - 1 = 0
      BY ReferralAssumption
    <3>2. path[1] = referrer[path[0]]
      BY <2>1, <3>1 DEF Climbs
    <3>3. referrer[path[0]] = NoAddress
      BY <2>1, <3>1 DEF Init
    <3> QED BY <3>1, <3>2, <3>3, ReferralAssumption
  <2> QED BY <2>1 DEF NoShortCycle
<1>2. Init => TypeOK
  BY TypeInit
<1>3. TypeOK /\ [Next]_vars => TypeOK'
  BY TypeStep
<1>4. TypeOK /\ NoShortCycle /\ [Next]_vars => NoShortCycle'
  BY NoShortCycleStep
<1> QED BY <1>1, <1>2, <1>3, <1>4, PTL DEF Spec
-----------------------------------------------------------------------------
(* Accruals.                                                               *)

\* A fold of additions is the sum: every set of positions, the whole one too, is
\* folded to the sum over it, since otherwise a smallest one that is not would be
\* neither empty nor one position more than one that is.
LEMMA FoldIsSum ==
    ASSUME NEW f, IsFiniteSet(DOMAIN f), \A x \in DOMAIN f : f[x] \in Nat
    PROVE  FoldFunction(+, 0, f) = SumOver(DOMAIN f, f)
<1> DEFINE D == DOMAIN f
           Pick(s) == CHOOSE x \in s : TRUE
           IsIter(g) == g = [s \in SUBSET D |-> IF s = {} THEN 0 ELSE f[Pick(s)] + g[s \ {Pick(s)}]]
           Iter == CHOOSE g : IsIter(g)
           Sums == [s \in SUBSET D |-> SumOver(s, f)]
<1>1. FoldFunction(+, 0, f) = Iter[D]
  BY DEF FoldFunction, FoldFunctionOnSet, MapThenFoldSet
<1>2. ASSUME NEW s \in SUBSET D, s # {}
      PROVE  /\ Pick(s) \in s /\ s \ {Pick(s)} \in SUBSET D
             /\ SumOver(s, f) = f[Pick(s)] + SumOver(s \ {Pick(s)}, f)
             /\ Cardinality(s \ {Pick(s)}) \in Nat /\ Cardinality(s) = Cardinality(s \ {Pick(s)}) + 1
  <2> DEFINE x == Pick(s)
             r == s \ {x}
  <2>1. x \in s
    BY <1>2
  <2>2. s = r \cup {x} /\ x \notin r /\ r \in SUBSET D /\ x \in D
    BY <2>1
  <2> HIDE DEF x, r
  <2>3. IsFiniteSet(r) /\ \A y \in r \cup {x} : f[y] \in Nat
    BY <2>2, FS_Subset
  <2>4. SumOver(r \cup {x}, f) = SumOver(r, f) + f[x]
    BY ONLY <2>2, <2>3, SumAdd
  <2>5. SumOver(r, f) \in Nat /\ f[x] \in Nat
    BY <2>3, SumType
  <2>6. Cardinality(r) \in Nat /\ Cardinality(r \cup {x}) = Cardinality(r) + 1
    BY ONLY <2>2, <2>3, FS_AddElement, FS_CardinalityType
  <2>7. /\ x \in s /\ r \in SUBSET D
        /\ SumOver(s, f) = f[x] + SumOver(r, f)
        /\ Cardinality(r) \in Nat /\ Cardinality(s) = Cardinality(r) + 1
    BY <2>1, <2>2, <2>4, <2>5, <2>6
  <2> QED BY <2>7 DEF x, r
<1> HIDE DEF Pick
<1>3. IsIter(Sums)
  <2>1. \A s \in SUBSET D : s # {} => s \ {Pick(s)} \in SUBSET D
    BY <1>2
  <2>2. \A s \in SUBSET D : Sums[s] = IF s = {} THEN 0 ELSE f[Pick(s)] + Sums[s \ {Pick(s)}]
    BY <1>2, <2>1, SumEmpty
  <2>3. Sums = [s \in SUBSET D |-> Sums[s]]
    OBVIOUS
  <2> HIDE DEF Sums
  <2> QED BY <2>2, <2>3
<1>4. IsIter(Iter)
  <2> HIDE DEF IsIter
  <2> QED BY <1>3
<1>5. \A s \in SUBSET D : Iter[s] = IF s = {} THEN 0 ELSE f[Pick(s)] + Iter[s \ {Pick(s)}]
  <2> HIDE DEF Iter
  <2> QED BY <1>4
<1> HIDE DEF Iter
<1> DEFINE Bad == {m \in Nat : \E s \in SUBSET D : Cardinality(s) = m /\ Iter[s] # SumOver(s, f)}
<1>6. Bad = {}
  <2> SUFFICES ASSUME Bad # {} PROVE FALSE
    OBVIOUS
  <2>1. PICK m \in Bad : m \in Nat /\ \A k \in Bad : m <= k
    <3>1. Bad \in SUBSET Nat
      OBVIOUS
    <3> HIDE DEF Bad
    <3> QED BY <3>1, LeastExists
  <2>2. PICK s \in SUBSET D : Cardinality(s) = m /\ Iter[s] # SumOver(s, f)
    BY <2>1
  <2>3. s # {}
    BY <1>5, <2>2, SumEmpty
  <2>4. Iter[s \ {Pick(s)}] # SumOver(s \ {Pick(s)}, f)
    BY <1>2, <1>5, <2>2, <2>3
  <2>5. Cardinality(s \ {Pick(s)}) \in Bad /\ Cardinality(s \ {Pick(s)}) < m
    BY <1>2, <2>2, <2>3, <2>4
  <2> DEFINE k == Cardinality(s \ {Pick(s)})
  <2>6. k \in Bad /\ k < m /\ k \in Nat
    BY <1>2, <2>3, <2>5
  <2> HIDE DEF Bad, k
  <2> QED BY <2>1, <2>6
<1>7. Iter[D] = SumOver(D, f)
  <2>1. Cardinality(D) \in Nat /\ D \in SUBSET D
    BY FS_CardinalityType
  <2> QED BY <1>6, <2>1
<1> QED BY <1>1, <1>7

\* The walk up the tiers is what its recursion says: of every length there is a
\* walk, since a smallest length without one would be one more than a length
\* with one.
LEMMA UplinesClimb ==
    ASSUME TypeOK, NEW wallet \in Wallets, NEW t \in 0 .. Len(tier_bps)
    PROVE  LET up == Uplines(wallet)
           IN  up[t] = IF t = 0 THEN wallet
                       ELSE IF up[t - 1] = NoAddress THEN NoAddress
                       ELSE referrer[up[t - 1]]
<1> DEFINE N == Len(tier_bps)
           Walk(g, n) == g = [i \in 0 .. n |-> IF i = 0 THEN wallet
                                               ELSE IF g[i - 1] = NoAddress THEN NoAddress
                                               ELSE referrer[g[i - 1]]]
           Bad == {n \in Nat : ~ \E g : Walk(g, n)}
           up == CHOOSE g : Walk(g, N)
<1>1. N \in Nat
  BY DEF TypeOK
<1>2. Uplines(wallet) = up
  BY DEF Uplines
<1>3. Bad = {}
  <2> SUFFICES ASSUME Bad # {} PROVE FALSE
    OBVIOUS
  <2>1. PICK n \in Bad : n \in Nat /\ \A k \in Bad : n <= k
    <3>1. Bad \in SUBSET Nat
      OBVIOUS
    <3> HIDE DEF Bad
    <3> QED BY <3>1, LeastExists
  <2>2. ~ \E g : Walk(g, n)
    BY <2>1
  <2>3. CASE n = 0
    <3>1. Walk([i \in 0 .. 0 |-> wallet], 0)
      OBVIOUS
    <3> HIDE DEF Walk
    <3> QED BY <2>2, <2>3, <3>1
  <2>4. CASE n # 0
    <3>1. n - 1 \in Nat /\ n - 1 \notin Bad
      <4> HIDE DEF Bad
      <4> QED BY <2>1, <2>4
    <3>2. PICK g : Walk(g, n - 1)
      <4> HIDE DEF Walk
      <4> QED BY <3>1
    <3> DEFINE last == IF g[n - 1] = NoAddress THEN NoAddress ELSE referrer[g[n - 1]]
               h == [i \in 0 .. n |-> IF i = n THEN last ELSE g[i]]
    <3>3. \A i \in 0 .. n - 1 : h[i] = g[i]
      BY <2>1
    <3>4. \A i \in 0 .. n : i # 0 => i - 1 \in 0 .. n - 1
      BY <2>1
    <3>5. ASSUME NEW i \in 0 .. n
          PROVE  h[i] = IF i = 0 THEN wallet
                        ELSE IF h[i - 1] = NoAddress THEN NoAddress
                        ELSE referrer[h[i - 1]]
      <4>1. CASE i = n
        <5>1. h[i] = last /\ h[i - 1] = g[n - 1] /\ i # 0
          BY <2>4, <3>3, <3>4, <4>1
        <5> HIDE DEF h
        <5> QED BY <5>1
      <4>2. CASE i # n
        <5>1. i \in 0 .. n - 1
          BY <2>1, <4>2
        <5>2. g[i] = IF i = 0 THEN wallet
                     ELSE IF g[i - 1] = NoAddress THEN NoAddress
                     ELSE referrer[g[i - 1]]
          BY <3>2, <5>1
        <5>3. h[i] = g[i] /\ (i # 0 => h[i - 1] = g[i - 1])
          BY <3>3, <3>4, <5>1
        <5> HIDE DEF h
        <5> QED BY <5>2, <5>3
      <4> QED BY <4>1, <4>2
    <3>6. h = [i \in 0 .. n |-> h[i]]
      OBVIOUS
    <3>7. Walk(h, n)
      <4> HIDE DEF h
      <4> QED BY <3>5, <3>6
    <3> HIDE DEF Walk, h
    <3> QED BY <2>2, <3>7
  <2> QED BY <2>3, <2>4
<1>4. Walk(up, N)
  <2> HIDE DEF Walk
  <2> QED BY <1>1, <1>3
<1> HIDE DEF up
<1> QED BY <1>2, <1>4

\* Below a wallet of the walk there are only wallets, each referred by the next.
LEMMA UplinesAreWallets ==
    ASSUME TypeOK, NEW wallet \in Wallets, NEW t \in 0 .. Len(tier_bps),
           Uplines(wallet)[t] \in Wallets
    PROVE  LET up == Uplines(wallet)
           IN  /\ \A s \in 0 .. t : up[s] \in Wallets
               /\ \A s \in 1 .. t : up[s] = referrer[up[s - 1]]
<1> DEFINE N == Len(tier_bps)
           up == Uplines(wallet)
           Next_(w) == IF w = NoAddress THEN NoAddress ELSE referrer[w]
<1>1. N \in Nat
  BY DEF TypeOK
<1>2. up[0] = wallet /\ \A s \in 1 .. N : up[s] = Next_(up[s - 1])
  <2>1. ASSUME NEW s \in 0 .. N PROVE up[s] = IF s = 0 THEN wallet ELSE Next_(up[s - 1])
    BY UplinesClimb
  <2> HIDE DEF up, Next_, N
  <2>2. 0 \in 0 .. N /\ \A s \in 1 .. N : s \in 0 .. N /\ s # 0
    BY <1>1
  <2> QED BY <2>1, <2>2
<1>3. \A w \in Wallets \cup {NoAddress} : Next_(w) \in Wallets \cup {NoAddress}
  BY DEF TypeOK
<1>4. NoAddress \notin Wallets /\ Next_(NoAddress) = NoAddress
  BY ReferralAssumption
<1>5. \A w : w # NoAddress => Next_(w) = referrer[w]
  OBVIOUS
<1>6. up[t] \in Wallets
  OBVIOUS
<1> HIDE DEF up, Next_, N
<1>7. t \in 0 .. N
  BY DEF N
<1>8. \A s \in 0 .. N : up[s] \in Wallets \cup {NoAddress}
  <2> DEFINE Bad == {s \in 0 .. N : up[s] \notin Wallets \cup {NoAddress}}
  <2> SUFFICES ASSUME Bad # {} PROVE FALSE
    OBVIOUS
  <2>1. PICK s \in Bad : \A k \in Bad : s <= k
    <3>1. Bad \in SUBSET Nat
      OBVIOUS
    <3> HIDE DEF Bad
    <3> QED BY <3>1, LeastExists
  <2>2. s \in 1 .. N
    BY <1>2, <2>1
  <2>3. s - 1 \in 0 .. N /\ s - 1 \notin Bad
    <3>1. ~(s <= s - 1) /\ s - 1 \in 0 .. N
      BY <1>1, <2>2
    <3> HIDE DEF Bad
    <3> QED BY <2>1, <3>1
  <2> QED BY <1>2, <1>3, <2>1, <2>2, <2>3
<1>9. \A s \in 0 .. t : up[s] \in Wallets
  <2> DEFINE Far == {n \in Nat : n <= t /\ up[t - n] = NoAddress}
  <2>1. Far = {}
    <3> SUFFICES ASSUME Far # {} PROVE FALSE
      OBVIOUS
    <3>1. PICK n \in Far : n \in Nat /\ n <= t /\ up[t - n] = NoAddress /\ \A k \in Far : n <= k
      <4>1. Far \in SUBSET Nat
        OBVIOUS
      <4>2. \A n \in Far : n <= t /\ up[t - n] = NoAddress
        OBVIOUS
      <4> HIDE DEF Far
      <4> QED BY <4>1, <4>2, LeastExists
    <3>2. n # 0
      BY <1>1, <1>4, <1>6, <1>7, <3>1
    <3> DEFINE s == t - (n - 1)
    <3>3. s \in 1 .. N /\ s - 1 = t - n /\ n - 1 \in Nat /\ n - 1 <= t
      BY <1>1, <1>7, <3>1, <3>2
    <3>4. up[s] = NoAddress
      <4> HIDE DEF s
      <4> QED BY <1>2, <1>4, <3>1, <3>3
    <3>5. n - 1 \in Far
      BY <3>3, <3>4
    <3> HIDE DEF Far, s
    <3> QED BY <3>1, <3>5
  <2>2. ASSUME NEW s \in 0 .. t PROVE up[s] # NoAddress
    <3>1. t - s \in Nat /\ t - s <= t /\ t - (t - s) = s
      BY <1>1, <1>7
    <3> QED BY <2>1, <3>1
  <2>3. \A s \in 0 .. t : s \in 0 .. N
    BY <1>1, <1>7
  <2> QED BY <1>8, <2>2, <2>3
<1>10. \A s \in 1 .. t : up[s] = referrer[up[s - 1]]
  <2>1. \A s \in 1 .. t : s \in 1 .. N /\ s - 1 \in 0 .. t
    BY <1>1, <1>7
  <2> QED BY <1>2, <1>4, <1>5, <1>9, <2>1
<1> QED BY <1>9, <1>10 DEF up

\* Nobody stands on two tiers of a walk, and the buyer on none above it: what
\* lies between two places would be a short cycle.
LEMMA OneTierEach ==
    ASSUME TypeOK, NoShortCycle, NEW wallet \in Wallets,
           NEW s \in 0 .. Len(tier_bps), NEW t \in 0 .. Len(tier_bps), s < t,
           Uplines(wallet)[t] \in Wallets
    PROVE  Uplines(wallet)[s] # Uplines(wallet)[t]
<1> DEFINE up == Uplines(wallet)
           n == t - s
           path == [i \in 0 .. n |-> up[s + i]]
<1>1. Len(tier_bps) \in Nat /\ Len(tier_bps) <= MAX_SUPPORTED_TIERS
  BY DEF TypeOK
<1>2. n \in 1 .. MAX_SUPPORTED_TIERS /\ s + n = t /\ s + 0 = s
  BY <1>1, ReferralAssumption
<1>3. /\ \A i \in 0 .. t : up[i] \in Wallets
      /\ \A i \in 1 .. t : up[i] = referrer[up[i - 1]]
  BY UplinesAreWallets
<1> HIDE DEF up
<1>4. \A i \in 0 .. n : s + i \in 0 .. t
  BY <1>1, <1>2
<1>5. path \in [0 .. n -> Wallets]
  BY <1>3, <1>4
<1>6. path[0] = up[s] /\ path[n] = up[t]
  <2>1. 0 \in 0 .. n /\ n \in 0 .. n
    BY <1>2
  <2> HIDE DEF n
  <2> QED BY <1>2, <2>1
<1>7. Climbs(path, n)
  <2>1. ASSUME NEW i \in 1 .. n PROVE path[i] = referrer[path[i - 1]]
    <3>1. i \in 0 .. n /\ i - 1 \in 0 .. n /\ s + i \in 1 .. t /\ s + (i - 1) = (s + i) - 1
      BY <1>1, <1>2
    <3>2. path[i] = up[s + i] /\ path[i - 1] = up[(s + i) - 1]
      <4> HIDE DEF n
      <4> QED BY <3>1
    <3> HIDE DEF path, n
    <3> QED BY <1>3, <3>1, <3>2
  <2> QED BY <2>1 DEF Climbs
<1> HIDE DEF path, n
<1>8. path[n] # path[0]
  BY <1>2, <1>5, <1>7 DEF NoShortCycle
<1> QED BY <1>6, <1>8 DEF up

\* The shares of all tiers come to the whole at most.
SharesFit == SumOver(DOMAIN tier_bps, tier_bps) <= BPS_DENOM

LEMMA SharesFitStep ==
    ASSUME TypeOK, SharesFit, [Next]_vars
    PROVE  SharesFit'
<1>1. CASE \E new_admin \in Admins : Initialize(new_admin)
  <2>1. tier_bps' = <<0>>
    BY <1>1 DEF Initialize
  <2>2. DOMAIN tier_bps' = {1} /\ tier_bps'[1] = 0
    BY <2>1
  <2>3. SumOver({1}, tier_bps') = tier_bps'[1]
    BY <2>2, SumSingleton
  <2> QED BY <2>2, <2>3 DEF SharesFit, BPS_DENOM
<1>2. ASSUME NEW caller \in Wallets, NEW config \in TierConfigs, SetTierConfig(caller, config)
      PROVE  SharesFit'
  <2> DEFINE b == config.tier_bps
  <2>1. ValidTierConfig(config) /\ tier_bps' = b
    BY <1>2 DEF SetTierConfig
  <2>2. b \in Seq(0 .. BPS_DENOM) /\ FoldFunction(+, 0, b) <= BPS_DENOM
    BY <2>1, ConfigType DEF ValidTierConfig
  <2> HIDE DEF b
  <2>3. IsFiniteSet(DOMAIN b)
    BY <2>2, TiersFinite
  <2>4. \A t \in DOMAIN b : b[t] \in Nat
    <3>1. \A t \in DOMAIN b : b[t] \in 0 .. BPS_DENOM
      BY ONLY <2>2, SeqElement
    <3>2. BPS_DENOM \in Nat
      BY DEF BPS_DENOM
    <3> QED BY ONLY <3>1, <3>2
  <2>5. FoldFunction(+, 0, b) = SumOver(DOMAIN b, b)
    BY <2>3, <2>4, FoldIsSum
  <2> QED BY <2>1, <2>2, <2>5 DEF SharesFit
<1>3. ASSUME UNCHANGED tier_bps PROVE SharesFit'
  BY <1>3 DEF SharesFit
<1>4. ASSUME NEW wallet \in Wallets, NEW upper \in Wallets, Link(wallet, upper)
      PROVE  SharesFit'
  BY <1>3, <1>4 DEF Link
<1>5. CASE \E caller, wallet \in Wallets, base \in BaseAmounts : Accrue(caller, wallet, base)
  BY <1>3, <1>5 DEF Accrue
<1>6. CASE \E who \in Wallets : ClaimRewards(who)
  BY <1>3, <1>6 DEF ClaimRewards
<1>7. CASE UNCHANGED vars
  BY <1>3, <1>7 DEF vars
<1> QED BY <1>1, <1>2, <1>4, <1>5, <1>6, <1>7
        DEF Next, AdminStep, OpenStep, SetReferrer, Register

LEMMA SharesFitInit == Init => SharesFit
<1> SUFFICES ASSUME Init PROVE SharesFit
  OBVIOUS
<1>1. DOMAIN tier_bps = {}
  BY DEF Init
<1>2. SumOver({}, tier_bps) = 0
  BY SumEmpty
<1> QED BY <1>1, <1>2 DEF SharesFit, BPS_DENOM

\* A share rounded down is at most the share.
LEMMA BpsOfBound ==
    ASSUME NEW amount \in Nat, NEW bps \in Nat
    PROVE  BPS_DENOM * BpsOf(amount, bps) <= amount * bps
<1> DEFINE q == amount \div BPS_DENOM
           r == amount % BPS_DENOM
           x == r * bps
           y == x \div BPS_DENOM
<1>1. q \in Nat /\ r \in Nat /\ amount = BPS_DENOM * q + r
  BY DEF BPS_DENOM
<1>2. x \in Nat
  BY <1>1
<1> HIDE DEF x
<1>3. y \in Nat /\ BPS_DENOM * y <= x
  BY <1>2 DEF BPS_DENOM
<1>4. BpsOf(amount, bps) = q * bps + y
  BY DEF BpsOf, x
<1> HIDE DEF q, r, y
<1>5. amount * bps = BPS_DENOM * (q * bps) + r * bps
  <2>1. q * bps \in Nat /\ r * bps \in Nat
    BY <1>1
  <2>2. (BPS_DENOM * q + r) * bps = BPS_DENOM * (q * bps) + r * bps
    BY <1>1 DEF BPS_DENOM
  <2> QED BY <1>1, <2>2
<1>6. q * bps \in Nat
  BY <1>1
<1> DEFINE u == q * bps
<1>7. u \in Nat /\ BpsOf(amount, bps) = u + y /\ amount * bps = BPS_DENOM * u + x
  BY <1>4, <1>5, <1>6 DEF x
<1> HIDE DEF u
<1>8. BPS_DENOM * (u + y) <= BPS_DENOM * u + x
  BY ONLY <1>2, <1>3, <1>7 DEF BPS_DENOM
<1> QED BY <1>7, <1>8

\* What an accrual credits: nothing to the buyer, to nobody more than the share
\* of one tier, and in all no more than the amount.
LEMMA CreditsAreFair ==
    ASSUME TypeOK, NoShortCycle, SharesFit,
           NEW wallet \in Wallets, NEW base \in BaseAmounts, base > 0
    PROVE  /\ Credit(wallet, base, wallet) = 0
           /\ \A w \in Wallets : Credit(wallet, base, w) > 0 =>
                /\ lifetime[w] + Credit(wallet, base, w) <= reward_cap
                /\ \E t \in DOMAIN tier_bps : Credit(wallet, base, w) <= BpsOf(base, tier_bps[t])
           /\ SumOver(Wallets, [w \in Wallets |-> Credit(wallet, base, w)]) <= base
<1> DEFINE up == Uplines(wallet)
           D == DOMAIN tier_bps
           commission == [t \in D |-> BpsOf(base, tier_bps[t])]
           Tiers(w) == {t \in D : up[t] = w}
           credit == [w \in Wallets |-> Credit(wallet, base, w)]
<1>1. base \in Nat
  BY ReferralAssumption
<1>2. /\ tier_bps \in Seq(0 .. BPS_DENOM) /\ Len(tier_bps) \in Nat /\ D = 1 .. Len(tier_bps)
      /\ IsFiniteSet(D)
  <2>1. tier_bps \in Seq(0 .. BPS_DENOM)
    BY DEF TypeOK
  <2>2. Len(tier_bps) \in Nat /\ D = 1 .. Len(tier_bps)
    BY <2>1
  <2> QED BY <2>1, <2>2, FS_Interval
<1>3. \A t \in D : tier_bps[t] \in Nat /\ commission[t] \in Nat /\ commission[t] = BpsOf(base, tier_bps[t])
  <2>1. ASSUME NEW t \in DOMAIN tier_bps PROVE tier_bps[t] \in Nat /\ BpsOf(base, tier_bps[t]) \in Nat
    <3>1. tier_bps[t] \in 0 .. BPS_DENOM
      BY ONLY <1>2, <2>1, SeqElement
    <3>2. BPS_DENOM \in Nat
      BY DEF BPS_DENOM
    <3>3. tier_bps[t] \in Nat
      BY ONLY <3>1, <3>2
    <3> QED BY <1>1, <3>3, BpsOfType
  <2> QED BY <2>1
<1>4. \A w \in Wallets : credit[w] = Credit(wallet, base, w) /\ credit[w] \in Nat
  BY CreditBounds
<1>5. \A w \in Wallets : credit[w] = Capped(w, SumOver(Tiers(w), commission))
  BY DEF Credit
<1>6. ASSUME NEW w \in Wallets, NEW s \in D, NEW t \in D, up[s] = w, up[t] = w
      PROVE  s = t
  <2>1. s \in 0 .. Len(tier_bps) /\ t \in 0 .. Len(tier_bps) /\ s \in Nat /\ t \in Nat
    BY <1>2
  <2> QED BY <1>6, <2>1, OneTierEach
<1>7. ASSUME NEW t \in D PROVE up[t] # wallet
  <2>1. t \in 0 .. Len(tier_bps) /\ 0 \in 0 .. Len(tier_bps) /\ 0 < t
    BY <1>2
  <2>2. up[0] = wallet
    BY <2>1, UplinesClimb
  <2> QED BY <2>1, <2>2, OneTierEach
<1>8. \A w \in Wallets : lifetime[w] \in Nat /\ reward_cap \in Nat
  BY ReferralAssumption DEF TypeOK
<1> HIDE DEF up, D, commission, credit
<1>9. ASSUME NEW w \in Wallets, credit[w] > 0
      PROVE  \E t \in D : up[t] = w /\ credit[w] <= commission[t] /\ lifetime[w] + credit[w] <= reward_cap
  <2> DEFINE n == SumOver(Tiers(w), commission)
  <2>1. CASE Tiers(w) = {}
    <3>1. n = 0
      <4> HIDE DEF Tiers
      <4> QED BY <2>1, SumEmpty
    <3> HIDE DEF n
    <3>2. Capped(w, 0) = 0
      BY <1>8 DEF Capped
    <3> QED BY <1>5, <1>9, <3>1, <3>2 DEF n
  <2>2. CASE Tiers(w) # {}
    <3>1. PICK t \in D : up[t] = w
      BY <2>2
    <3>2. Tiers(w) = {t}
      BY <1>6, <3>1
    <3>3. n = commission[t]
      <4> HIDE DEF Tiers
      <4> QED BY <1>3, <3>2, SumSingleton
    <3>4. credit[w] = Capped(w, commission[t]) /\ commission[t] \in Nat
      BY <1>3, <1>5, <3>3
    <3>5. credit[w] <= commission[t] /\ lifetime[w] + credit[w] <= reward_cap
      BY <1>8, <1>9, <3>4 DEF Capped
    <3> QED BY <3>1, <3>5
  <2> QED BY <2>1, <2>2
<1>10. credit[wallet] = 0
  <2>1. ~(credit[wallet] > 0)
    BY <1>7, <1>9
  <2> QED BY <1>4, <2>1
<1>11. SumOver(Wallets, credit) <= SumOver(D, commission)
  <2> DEFINE into == [w \in Wallets |-> CHOOSE t \in D : up[t] = w]
  <2>1. ASSUME NEW w \in Wallets, credit[w] > 0
        PROVE  into[w] \in D /\ up[into[w]] = w /\ credit[w] <= commission[into[w]]
    <3>1. PICK t \in D : up[t] = w /\ credit[w] <= commission[t]
      BY <1>9, <2>1
    <3>2. into[w] \in D /\ up[into[w]] = w
      BY <3>1
    <3>3. into[w] = t
      <4> HIDE DEF into
      <4> QED BY <1>6, <3>1, <3>2
    <3> QED BY <3>1, <3>3
  <2> HIDE DEF into
  <2>2. /\ IsFiniteSet(D)
        /\ \A x \in Wallets : credit[x] \in Nat
        /\ \A y \in D : commission[y] \in Nat
        /\ \A x \in Wallets : credit[x] > 0 => into[x] \in D /\ credit[x] <= commission[into[x]]
        /\ \A x, y \in Wallets : credit[x] > 0 /\ credit[y] > 0 /\ into[x] = into[y] => x = y
    BY <1>2, <1>3, <1>4, <2>1
  <2> QED BY ONLY <2>2, SumInjected
<1>12. SumOver(D, commission) <= base
  <2>1. \A t \in D : BPS_DENOM * commission[t] <= base * tier_bps[t]
    BY <1>1, <1>3, BpsOfBound
  <2>2. BPS_DENOM \in Nat
    BY DEF BPS_DENOM
  <2>3. BPS_DENOM * SumOver(D, commission) <= base * SumOver(D, tier_bps)
    BY ONLY <1>1, <1>2, <1>3, <2>1, <2>2, SumScaled
  <2>4. SumOver(D, commission) \in Nat /\ SumOver(D, tier_bps) \in Nat
    BY <1>2, <1>3, SumType
  <2>5. SumOver(D, tier_bps) <= BPS_DENOM
    BY DEF SharesFit, D
  <2> DEFINE a == SumOver(D, commission)
             b == SumOver(D, tier_bps)
  <2>6. a \in Nat /\ b \in Nat /\ b <= 10000 /\ 10000 * a <= base * b
    BY <2>3, <2>4, <2>5 DEF BPS_DENOM
  <2> HIDE DEF a, b
  <2>7. base * b <= base * 10000
    BY <1>1, <2>6
  <2>8. a <= base
    BY <1>1, <2>6, <2>7
  <2> QED BY <2>8 DEF a
<1>13. SumOver(Wallets, credit) <= base
  <2>1. SumOver(Wallets, credit) \in Nat /\ SumOver(D, commission) \in Nat
    BY <1>2, <1>3, <1>4, SumType, ReferralAssumption
  <2> QED BY <1>1, <1>11, <1>12, <2>1
<1>14. \A w \in Wallets : credit[w] > 0 =>
          /\ lifetime[w] + credit[w] <= reward_cap
          /\ \E t \in D : credit[w] <= BpsOf(base, tier_bps[t])
  BY <1>3, <1>9
<1> QED BY <1>4, <1>10, <1>13, <1>14 DEF D, credit

\* accrue credits no commission to the buyer itself, nobody for more than one
\* tier, nothing beyond the cap in force, and in all no more than the amount:
\* for every number of wallets and tiers, all shares and amounts, and in every
\* graph that set_referrer and register can make.
THEOREM AccrualsAreFair == Spec => AccrualIsFair
<1> DEFINE A == \A wallet \in Wallets, base \in BaseAmounts :
                  lifetime' # lifetime /\ Accrue(admin, wallet, base) =>
                    /\ Earned(wallet) = 0
                    /\ \A w \in Wallets : Earned(w) > 0 =>
                        /\ lifetime'[w] <= reward_cap
                        /\ \E t \in DOMAIN tier_bps : Earned(w) <= BpsOf(base, tier_bps[t])
                    /\ SumOver(Wallets, [w \in Wallets |-> Earned(w)]) <= base
<1>1. Spec => [](TypeOK /\ NoShortCycle)
  BY TypeCorrect, NobodyRefersItself, PTL
<1>2. Spec => []SharesFit
  <2>1. TypeOK /\ SharesFit /\ [Next]_vars => SharesFit'
    BY SharesFitStep
  <2> QED BY <1>1, <2>1, SharesFitInit, PTL DEF Spec
<1>3. TypeOK /\ NoShortCycle /\ SharesFit => A
  <2> SUFFICES ASSUME TypeOK, NoShortCycle, SharesFit,
                      NEW wallet \in Wallets, NEW base \in BaseAmounts,
                      Accrue(admin, wallet, base)
               PROVE  /\ Earned(wallet) = 0
                      /\ \A w \in Wallets : Earned(w) > 0 =>
                          /\ lifetime'[w] <= reward_cap
                          /\ \E t \in DOMAIN tier_bps : Earned(w) <= BpsOf(base, tier_bps[t])
                      /\ SumOver(Wallets, [w \in Wallets |-> Earned(w)]) <= base
    OBVIOUS
  <2>1. base > 0 /\ lifetime' = [w \in Wallets |-> lifetime[w] + Credit(wallet, base, w)]
    BY DEF Accrue
  <2> DEFINE credit == [w \in Wallets |-> Credit(wallet, base, w)]
  <2>2. \A w \in Wallets : credit[w] \in Nat /\ lifetime[w] \in Nat
    <3>1. \A w \in Wallets : lifetime[w] \in Nat
      BY ReferralAssumption DEF TypeOK
    <3> QED BY <2>1, <3>1, CreditBounds
  <2>3. /\ credit[wallet] = 0
        /\ \A w \in Wallets : credit[w] > 0 =>
              /\ lifetime[w] + credit[w] <= reward_cap
              /\ \E t \in DOMAIN tier_bps : credit[w] <= BpsOf(base, tier_bps[t])
        /\ SumOver(Wallets, credit) <= base
    BY <2>1, CreditsAreFair
  <2>4. \A w \in Wallets : lifetime'[w] = lifetime[w] + credit[w]
    BY <2>1
  <2>5. credit = [w \in Wallets |-> credit[w]]
    OBVIOUS
  <2> HIDE DEF credit
  <2>6. \A w \in Wallets : Earned(w) = credit[w]
    BY <2>2, <2>4 DEF Earned
  <2>7. [w \in Wallets |-> Earned(w)] = credit
    BY <2>5, <2>6
  <2> QED BY <2>3, <2>4, <2>6, <2>7
<1> QED BY <1>1, <1>2, <1>3, PTL DEF Spec, AccrualIsFair

-----------------------------------------------------------------------------
(* The three contracts together.                                           *)

\* To the referral contract every step of the three is one of its own or none.
LEMMA StepOfReferral ==
    ASSUME [RewardsNext]_all
    PROVE  [Next]_vars
<1>1. CASE ReferralStep
  BY <1>1 DEF ReferralStep, Next
<1>2. CASE LinkStep
  BY <1>2 DEF LinkStep, SetTreasury, SetRegistry
<1>3. CASE TreasuryStep \/ RegistryStep
  BY <1>3 DEF TreasuryStep, RegistryStep
<1>4. CASE ClaimStep
  BY <1>4 DEF ClaimStep, Claim, ClaimElsewhere, ForeignReward, Next
<1>5. CASE UNCHANGED all
  BY <1>5 DEF all
<1> QED BY <1>1, <1>2, <1>3, <1>4, <1>5 DEF RewardsNext

\* What holds of the referral contract alone holds of it among the others.
THEOREM RewardsImplementReferral == RewardsSpec => Spec
<1>1. RewardsInit => Init
  BY DEF RewardsInit
<1>2. [RewardsNext]_all => [Next]_vars
  BY StepOfReferral
<1> QED BY <1>1, <1>2, PTL DEF RewardsSpec, Spec

\* The treasury's calls keep its types.
LEMMA TreasuryTypeStep ==
    ASSUME T!TypeOK,
           \/ T!AdminStep \/ T!ManagerStep
           \/ \E caller \in {ReferralAddress, Elsewhere}, amount \in Int : T!DistributeReward(caller, amount)
    PROVE  T!TypeOK'
<1> USE RewardsAssumption, ReferralAssumption DEF T!TypeOK
<1>1. CASE T!AdminStep
  <2>1. CASE \E new_admin \in Admins, new_limit \in Limits : T!Initialize(new_admin, new_limit)
    BY <2>1 DEF T!Initialize
  <2>2. ASSUME NEW caller \in Wallets, NEW who \in Wallets,
               T!AddTreasuryManager(caller, who) \/ T!RemoveTreasuryManager(caller, who)
        PROVE  T!TypeOK'
    BY <2>2 DEF T!AddTreasuryManager, T!RemoveTreasuryManager
  <2>3. ASSUME NEW caller \in Wallets, NEW new_limit \in Limits, T!SetWithdrawalLimit(caller, new_limit)
        PROVE  T!TypeOK'
    BY <2>3 DEF T!SetWithdrawalLimit
  <2>4. ASSUME NEW caller \in Wallets, NEW contract \in {ReferralAddress, Elsewhere},
               T!SetReferralContract(caller, contract)
        PROVE  T!TypeOK'
    BY <2>4 DEF T!SetReferralContract
  <2> QED BY <1>1, <2>1, <2>2, <2>3, <2>4 DEF T!AdminStep
<1>2. ASSUME NEW category \in Categories, NEW amount \in Int, T!Book(category, amount),
             pool[category] + amount \in 0 .. MaxPool
      PROVE  T!TypeOK'
  BY <1>2 DEF T!Book
<1>3. ASSUME NEW caller \in Wallets, NEW category \in Categories, NEW amount \in Amounts,
             T!Deposit(caller, category, amount) \/ T!Withdraw(caller, category, amount)
      PROVE  T!TypeOK'
  <2>1. pool[category] \in 0 .. MaxPool /\ amount \in Int /\ -amount \in Int
    OBVIOUS
  <2>2. CASE T!Deposit(caller, category, amount)
    <3>1. T!Book(category, amount) /\ pool[category] + amount \in 0 .. MaxPool
      BY <2>1, <2>2 DEF T!Deposit
    <3> QED BY <1>2, <2>1, <3>1
  <2>3. CASE T!Withdraw(caller, category, amount)
    <3>1. T!Book(category, -amount) /\ pool[category] + (-amount) \in 0 .. MaxPool
      BY <2>1, <2>3 DEF T!Withdraw, T!Withdrawable
    <3> QED BY <1>2, <2>1, <3>1
  <2> QED BY <1>3, <2>2, <2>3
<1>4. ASSUME NEW caller \in {ReferralAddress, Elsewhere}, NEW amount \in Int, T!DistributeReward(caller, amount)
      PROVE  T!TypeOK'
  <2>1. pool[REWARDS_CATEGORY] \in 0 .. MaxPool /\ -amount \in Int
    OBVIOUS
  <2>2. T!Book(REWARDS_CATEGORY, -amount) /\ pool[REWARDS_CATEGORY] + (-amount) \in 0 .. MaxPool
    BY <1>4, <2>1 DEF T!DistributeReward
  <2> QED BY <1>2, <2>1, <2>2
<1> QED BY <1>1, <1>3, <1>4 DEF T!ManagerStep

\* The registry's calls keep its types.
LEMMA RegistryTypeStep ==
    ASSUME R!TypeOK, R!Step
    PROVE  R!TypeOK'
<1> USE DEF R!TypeOK
<1>1. CASE \E new_admin \in Admins : R!Initialize(new_admin)
  BY <1>1, ReferralAssumption DEF R!Initialize
<1>2. ASSUME NEW caller \in Wallets, NEW name \in {TreasuryName},
             NEW address \in {TreasuryAddress, Elsewhere}, NEW version \in Versions,
             R!SetContract(caller, name, address, version)
      PROVE  R!TypeOK'
  <2>1. contracts' \in [{TreasuryName} -> R!Registration \cup {R!Unregistered}]
    <3>1. [registered |-> TRUE, address |-> address, version |-> version] \in R!Registration
      BY DEF R!Registration
    <3> QED BY <1>2, <3>1 DEF R!SetContract
  <2>2. history' \in [{TreasuryName} -> Seq(Versions)]
    <3>1. R!Recorded(history[name], version) \in Seq(Versions)
      BY DEF R!Recorded
    <3> QED BY <1>2, <3>1 DEF R!SetContract
  <2> QED BY <1>2, <2>1, <2>2 DEF R!SetContract
<1>3. ASSUME NEW caller \in Wallets, NEW name \in {TreasuryName}, NEW document \in Documents,
             NEW immutable \in BOOLEAN, R!SetMetadata(caller, name, document, immutable)
      PROVE  R!TypeOK'
  <2>1. [present |-> TRUE, document |-> document, immutable |-> immutable] \in R!MetadataEntry
    BY DEF R!MetadataEntry
  <2> QED BY <1>3, <2>1 DEF R!SetMetadata
<1> QED BY <1>1, <1>2, <1>3 DEF R!Step

\* The balances and registrations of all three contracts keep their types: no
\* order of deposits, withdrawals and claims makes a category negative.
THEOREM RewardsTypeCorrect == RewardsSpec => []RewardsTypeOK
<1>1. RewardsInit => RewardsTypeOK
  <2>1. ASSUME RewardsInit PROVE T!TypeOK /\ R!TypeOK
    <3>1. T!TypeOK
      BY <2>1, RewardsAssumption DEF RewardsInit, T!Init, T!TypeOK
    <3>2. R!TypeOK
      BY <2>1 DEF RewardsInit, R!Init, R!TypeOK
    <3> QED BY <3>1, <3>2
  <2> QED BY <2>1, TypeInit DEF RewardsInit, RewardsTypeOK
<1>2. ASSUME RewardsTypeOK, [RewardsNext]_all PROVE RewardsTypeOK'
  <2>1. TypeOK'
    BY <1>2, StepOfReferral, TypeStep DEF RewardsTypeOK
  <2>2. treasury' \in {NoAddress, TreasuryAddress, Elsewhere} /\ registry' \in {NoAddress, RegistryAddress, Elsewhere}
    <3>1. CASE LinkStep
      BY <1>2, <3>1 DEF LinkStep, SetTreasury, SetRegistry, RewardsTypeOK
    <3>2. CASE UNCHANGED links
      BY <1>2, <3>2 DEF links, RewardsTypeOK
    <3> QED BY <1>2, <3>1, <3>2 DEF RewardsNext, ReferralStep, TreasuryStep, RegistryStep, ClaimStep,
                                    Claim, ClaimElsewhere, ForeignReward, all
  <2>3. T!TypeOK'
    <3>1. T!TypeOK
      BY <1>2 DEF RewardsTypeOK
    <3>2. CASE UNCHANGED books
      BY <3>1, <3>2 DEF books, T!TypeOK
    <3>3. CASE TreasuryStep
      BY <3>1, <3>3, TreasuryTypeStep DEF TreasuryStep
    <3>4. ASSUME NEW who \in Wallets, Claim(who) PROVE T!TypeOK'
      <4>1. accrued[who] \in Int
        BY <1>2 DEF RewardsTypeOK, TypeOK
      <4>2. T!DistributeReward(ReferralAddress, accrued[who])
        BY <3>4 DEF Claim, PaidByTreasury
      <4> QED BY <3>1, <4>1, <4>2, TreasuryTypeStep
    <3>5. ASSUME NEW amount \in Amounts, ForeignReward(amount) PROVE T!TypeOK'
      <4>1. amount \in Int
        BY RewardsAssumption
      <4>2. T!DistributeReward(Elsewhere, amount)
        BY <3>5 DEF ForeignReward
      <4> QED BY <3>1, <4>1, <4>2, TreasuryTypeStep
    <3> QED BY <1>2, <3>2, <3>3, <3>4, <3>5
            DEF RewardsNext, ReferralStep, LinkStep, SetTreasury, SetRegistry, RegistryStep, ClaimStep,
                ClaimElsewhere, all
  <2>4. R!TypeOK'
    <3>1. R!TypeOK
      BY <1>2 DEF RewardsTypeOK
    <3>2. CASE UNCHANGED names
      BY <3>1, <3>2 DEF names, R!TypeOK
    <3>3. CASE RegistryStep
      BY <3>1, <3>3, RegistryTypeStep DEF RegistryStep
    <3> QED BY <1>2, <3>2, <3>3
            DEF RewardsNext, ReferralStep, LinkStep, SetTreasury, SetRegistry, TreasuryStep, ClaimStep,
                Claim, ClaimElsewhere, ForeignReward, all
  <2> QED BY <2>1, <2>2, <2>3, <2>4 DEF RewardsTypeOK
<1> QED BY <1>1, <1>2, PTL DEF RewardsSpec

-----------------------------------------------------------------------------
(* What the books say.                                                     *)

LEMMA BooksStep ==
    ASSUME TypeOK, BooksBalance, [Next]_vars
    PROVE  BooksBalance'
<1> USE DEF BooksBalance
<1>1. CASE UNCHANGED <<accrued, lifetime, paid>>
  BY <1>1
<1>2. ASSUME NEW caller \in Wallets, NEW wallet \in Wallets, NEW base \in BaseAmounts,
             Accrue(caller, wallet, base)
      PROVE  BooksBalance'
  <2> DEFINE credit == [w \in Wallets |-> Credit(wallet, base, w)]
  <2>1. \A w \in Wallets : credit[w] \in Nat
    BY <1>2, CreditBounds DEF Accrue
  <2>2. \A w \in Wallets : /\ accrued'[w] = accrued[w] + credit[w]
                           /\ lifetime'[w] = lifetime[w] + credit[w]
                           /\ paid'[w] = paid[w]
    BY <1>2 DEF Accrue
  <2>3. \A w \in Wallets : accrued[w] \in Nat /\ paid[w] \in Nat
    BY DEF TypeOK
  <2> HIDE DEF credit
  <2> QED BY <2>1, <2>2, <2>3
<1>3. ASSUME NEW who \in Wallets, ClaimRewards(who) PROVE BooksBalance'
  BY <1>3 DEF ClaimRewards, TypeOK
<1> QED BY <1>1, <1>2, <1>3
        DEF Next, AdminStep, OpenStep, Initialize, SetTierConfig, SetReferrer, Register, Link, vars

\* Through refused claims, changed treasuries and changed caps, what a referrer
\* has earned is what it was paid and what it may still claim.
THEOREM BooksAlwaysBalance == RewardsSpec => []BooksBalance
<1>1. Init => BooksBalance
  BY DEF Init, BooksBalance
<1>2. TypeOK /\ BooksBalance /\ [Next]_vars => BooksBalance'
  BY BooksStep
<1> QED BY <1>1, <1>2, TypeCorrect, RewardsImplementReferral, PTL DEF Spec

\* The category of rewards of the treasury shrinks only by a withdrawal within
\* the limit or by exactly what one referrer had accrued and then was paid, as
\* long as no other contract is registered with the treasury.
THEOREM TreasuryPaysWhatWasEarned == RewardsSpec => RewardsLeaveOnlyAsEarned
<1> DEFINE A == LET taken == pool[REWARDS_CATEGORY] - pool'[REWARDS_CATEGORY]
                IN  taken > 0 =>
                        \/ taken <= limit /\ UNCHANGED vars
                        \/ \E who \in Wallets :
                            /\ taken = accrued[who]
                            /\ pool' = [pool EXCEPT ![REWARDS_CATEGORY] = @ - taken]
                            /\ accrued' = [accrued EXCEPT ![who] = 0]
                            /\ paid' = [paid EXCEPT ![who] = @ + taken]
                        \/ referral_contract = Elsewhere /\ UNCHANGED vars
<1>1. ASSUME RewardsTypeOK, [RewardsNext]_all PROVE [A]_all
  <2>1. pool \in [Categories -> Nat] /\ REWARDS_CATEGORY \in Categories
    BY <1>1, RewardsAssumption DEF RewardsTypeOK, T!TypeOK
  <2>2. CASE pool' = pool
    BY <2>1, <2>2
  <2>3. ASSUME NEW caller \in Wallets, NEW category \in Categories, NEW amount \in Amounts, UNCHANGED vars,
               T!Deposit(caller, category, amount) \/ T!Withdraw(caller, category, amount)
        PROVE  A
    <3>1. amount \in Int
      BY RewardsAssumption
    <3>2. CASE T!Deposit(caller, category, amount)
      <4>1. pool' = [pool EXCEPT ![category] = @ + amount] /\ amount > 0
        BY <3>2 DEF T!Deposit, T!Book
      <4> QED BY <2>1, <3>1, <4>1
    <3>3. CASE T!Withdraw(caller, category, amount)
      <4>1. pool' = [pool EXCEPT ![category] = @ + (-amount)] /\ amount <= limit
        BY <3>3 DEF T!Withdraw, T!Book, T!Withdrawable
      <4>2. pool[REWARDS_CATEGORY] - pool'[REWARDS_CATEGORY] > 0 => category = REWARDS_CATEGORY
        BY <2>1, <4>1
      <4>3. category = REWARDS_CATEGORY => pool[REWARDS_CATEGORY] - pool'[REWARDS_CATEGORY] = amount
        BY <2>1, <3>1, <4>1
      <4> QED BY <2>3, <4>1, <4>2, <4>3
    <3> QED BY <2>3, <3>2, <3>3
  <2>4. ASSUME NEW who \in Wallets, Claim(who) PROVE A
    <3>1. accrued[who] \in Int
      BY <1>1 DEF RewardsTypeOK, TypeOK
    <3>2. /\ pool' = [pool EXCEPT ![REWARDS_CATEGORY] = @ + (-accrued[who])]
          /\ accrued' = [accrued EXCEPT ![who] = 0]
          /\ paid' = [paid EXCEPT ![who] = @ + accrued[who]]
      BY <2>4 DEF Claim, PaidByTreasury, T!DistributeReward, T!Book, ClaimRewards
    <3>3. pool[REWARDS_CATEGORY] - pool'[REWARDS_CATEGORY] = accrued[who]
      BY <2>1, <3>1, <3>2
    <3>4. pool' = [pool EXCEPT ![REWARDS_CATEGORY] = @ - accrued[who]]
      BY <2>1, <3>1, <3>2
    <3> QED BY <3>2, <3>3, <3>4
  <2>5. ASSUME NEW amount \in Amounts, ForeignReward(amount) PROVE A
    BY <2>5 DEF ForeignReward, T!DistributeReward
  <2> QED BY <1>1, <2>2, <2>3, <2>4, <2>5
          DEF RewardsNext, ReferralStep, LinkStep, SetTreasury, SetRegistry, TreasuryStep, RegistryStep,
              ClaimStep, ClaimElsewhere, T!AdminStep, T!ManagerStep, T!Initialize, T!AddTreasuryManager,
              T!RemoveTreasuryManager, T!SetWithdrawalLimit, T!SetReferralContract, all, books
<1> QED BY <1>1, RewardsTypeCorrect, PTL DEF RewardsSpec, RewardsLeaveOnlyAsEarned
\* No claim clears what a referrer earned unpaid, unless the admin of the referral
\* contract or of the registry sent it to another contract than the treasury.
THEOREM ClaimsArePaid == RewardsSpec => NoEmptyClaim
<1> DEFINE A == \A who \in Wallets :
                    accrued'[who] < accrued[who] /\ pool' = pool => ResolvesTo(Elsewhere)
<1>1. ASSUME RewardsTypeOK, [RewardsNext]_all PROVE [A]_all
  <2>1. accrued \in [Wallets -> Nat]
    BY <1>1 DEF RewardsTypeOK, TypeOK
  <2>2. CASE accrued' = accrued
    BY <2>1, <2>2
  <2>3. ASSUME NEW caller \in Wallets, NEW wallet \in Wallets, NEW base \in BaseAmounts,
               Accrue(caller, wallet, base)
        PROVE  A
    <3>1. \A w \in Wallets : Credit(wallet, base, w) \in Nat
      BY <1>1, <2>3, CreditBounds DEF Accrue, RewardsTypeOK
    <3>2. \A w \in Wallets : accrued'[w] = accrued[w] + Credit(wallet, base, w)
      BY <2>3 DEF Accrue
    <3> QED BY <2>1, <3>1, <3>2
  <2>4. ASSUME NEW who \in Wallets, Claim(who) PROVE A
    <3>1. /\ accrued[who] \in Nat /\ accrued[who] > 0
          /\ pool' = [pool EXCEPT ![REWARDS_CATEGORY] = @ + (-accrued[who])]
      BY <2>1, <2>4 DEF Claim, PaidByTreasury, T!DistributeReward, T!Book, ClaimRewards
    <3>2. pool \in [Categories -> Nat] /\ REWARDS_CATEGORY \in Categories
      BY <1>1, RewardsAssumption DEF RewardsTypeOK, T!TypeOK
    <3>3. pool'[REWARDS_CATEGORY] # pool[REWARDS_CATEGORY]
      BY <3>1, <3>2
    <3> QED BY <3>3
  <2>5. ASSUME NEW who \in Wallets, ClaimElsewhere(who) PROVE A
    BY <2>5 DEF ClaimElsewhere
  <2> QED BY <1>1, <2>2, <2>3, <2>4, <2>5
          DEF RewardsNext, ReferralStep, LinkStep, SetTreasury, SetRegistry, TreasuryStep, RegistryStep,
              ClaimStep, ForeignReward, AdminStep, OpenStep, Initialize, SetTierConfig, SetReferrer,
              Register, Link, vars, all
<1> QED BY <1>1, RewardsTypeCorrect, PTL DEF RewardsSpec, NoEmptyClaim

\* The registry never records a version twice nor loses the one deployed.
THEOREM HistoryAlwaysComplete == RewardsSpec => []HistoryIsComplete
<1> USE DEF HistoryIsComplete, R!HistoryIsComplete
<1>1. RewardsInit => HistoryIsComplete
  BY DEF RewardsInit, R!Init, R!IsInjective
<1>2. ASSUME RewardsTypeOK, HistoryIsComplete, [RewardsNext]_all PROVE HistoryIsComplete'
  <2>1. CASE UNCHANGED <<contracts, history>>
    BY <1>2, <2>1 DEF R!IsInjective
  <2>2. ASSUME NEW caller \in Wallets, NEW name \in {TreasuryName},
               NEW address \in {TreasuryAddress, Elsewhere}, NEW version \in Versions,
               R!SetContract(caller, name, address, version)
        PROVE  HistoryIsComplete'
    <3> DEFINE old == history[name]
               new == R!Recorded(old, version)
    <3>1. old \in Seq(Versions)
      BY <1>2 DEF RewardsTypeOK, R!TypeOK
    <3>2. /\ contracts \in [{TreasuryName} -> R!Registration \cup {R!Unregistered}]
          /\ history \in [{TreasuryName} -> Seq(Versions)]
      BY <1>2 DEF RewardsTypeOK, R!TypeOK
    <3>3. /\ name = TreasuryName
          /\ contracts'[name].version = version
          /\ history'[name] = new
      BY <2>2, <3>2 DEF R!SetContract
    <3>4. R!IsInjective(new) /\ \E i \in 1 .. Len(new) : new[i] = version
      <4>1. \A i, j \in DOMAIN old : old[i] = old[j] => i = j
        BY <1>2 DEF R!IsInjective
      <4>2. CASE \E i \in 1 .. Len(old) : old[i] = version
        BY <1>2, <4>2 DEF R!Recorded, R!Contains
      <4>3. CASE ~ \E i \in 1 .. Len(old) : old[i] = version
        <5>1. new = Append(old, version)
          BY <4>3 DEF R!Recorded, R!Contains
        <5>2. /\ DOMAIN new = 1 .. Len(old) + 1 /\ Len(new) = Len(old) + 1
              /\ new[Len(old) + 1] = version
              /\ \A i \in 1 .. Len(old) : new[i] = old[i]
              /\ DOMAIN old = 1 .. Len(old) /\ Len(old) \in Nat
          BY <3>1, <5>1
        <5> HIDE DEF new, old
        <5> QED BY <4>1, <4>3, <5>2 DEF R!IsInjective
      <4> QED BY <4>2, <4>3
    <3> HIDE DEF new
    <3> QED BY <3>3, <3>4 DEF R!Contains
  <2> QED BY <1>2, <2>1, <2>2
          DEF RewardsNext, ReferralStep, LinkStep, SetTreasury, SetRegistry, TreasuryStep, RegistryStep,
              R!Step, R!Initialize, R!SetMetadata, ClaimStep, Claim, ClaimElsewhere, ForeignReward, all, names
<1> QED BY <1>1, <1>2, RewardsTypeCorrect, PTL DEF RewardsSpec

\* No call of the registry, its initialize included, replaces metadata that was
\* set as immutable, and a name with a contract and metadata keeps both.
THEOREM ImmutableMetadataStays == RewardsSpec => ImmutableIsForGood
<1> DEFINE Kept == \A n \in {TreasuryName} :
        /\ metadata[n] # R!NoMetadata /\ metadata[n].immutable => metadata'[n] = metadata[n]
        /\ R!HasRegistryEntry(n) => (contracts'[n] # R!Unregistered /\ metadata'[n] # R!NoMetadata)
<1>1. ASSUME RewardsTypeOK, [RewardsNext]_all PROVE Kept
  <2>1. /\ contracts \in [{TreasuryName} -> R!Registration \cup {R!Unregistered}]
        /\ metadata \in [{TreasuryName} -> R!MetadataEntry \cup {R!NoMetadata}]
    BY <1>1 DEF RewardsTypeOK, R!TypeOK
  <2>2. CASE UNCHANGED <<contracts, metadata>>
    BY <2>2 DEF R!HasRegistryEntry
  <2>3. ASSUME NEW caller \in Wallets, NEW name \in {TreasuryName},
               NEW address \in {TreasuryAddress, Elsewhere}, NEW version \in Versions,
               R!SetContract(caller, name, address, version)
        PROVE  Kept
    <3>1. /\ metadata' = metadata
          /\ contracts'[name].registered = TRUE
      BY <2>1, <2>3 DEF R!SetContract
    <3>2. contracts'[name] # R!Unregistered
      BY <3>1 DEF R!Unregistered
    <3> QED BY <3>1, <3>2 DEF R!HasRegistryEntry
  <2>4. ASSUME NEW caller \in Wallets, NEW name \in {TreasuryName}, NEW document \in Documents,
               NEW immutable \in BOOLEAN, R!SetMetadata(caller, name, document, immutable)
        PROVE  Kept
    <3>1. /\ contracts' = contracts
          /\ metadata'[name].present = TRUE
          /\ ~(metadata[name] # R!NoMetadata /\ metadata[name].immutable)
      BY <2>1, <2>4 DEF R!SetMetadata, R!Immutable
    <3>2. metadata'[name] # R!NoMetadata
      BY <3>1 DEF R!NoMetadata
    <3> QED BY <3>1, <3>2 DEF R!HasRegistryEntry
  <2> QED BY <1>1, <2>2, <2>3, <2>4
          DEF RewardsNext, ReferralStep, LinkStep, SetTreasury, SetRegistry, TreasuryStep, RegistryStep,
              R!Step, R!Initialize, ClaimStep, Claim, ClaimElsewhere, ForeignReward, all, names
<1>2. Kept => [\A n \in {TreasuryName} :
                  /\ metadata[n] # R!NoMetadata /\ metadata[n].immutable => metadata'[n] = metadata[n]
                  /\ R!HasRegistryEntry(n) => R!HasRegistryEntry(n)']_R!vars
  BY DEF R!HasRegistryEntry
<1> QED BY <1>1, <1>2, RewardsTypeCorrect, PTL DEF RewardsSpec, ImmutableIsForGood, R!ImmutableIsForGood
=============================================================================
