--------------------------- MODULE MarketplaceProofs ---------------------------
(***************************************************************************)
(* Theorems about modules Marketplace and MarketplaceBulk, for every set   *)
(* of users, tokens, prices, settings and batches and every bound: the     *)
(* stored records are well formed and counted, closed records stay closed, *)
(* a Dutch price falls, an outbid bidder is repaid, a bulk call takes what *)
(* it reports; and, when royalties leave room for the fee, the contract    *)
(* always holds what it owes, can pay it out, and nobody pays more than    *)
(* the price.                                                              *)
(***************************************************************************)
EXTENDS MarketplaceBulk, LedgerProofs

\* A record that is open is a record, not the empty slot.
LEMMA OpenRecords ==
    ASSUME WellFormed
    PROVE  /\ \A i \in ListingIds : listings[i].status # "None" => listings[i] \in ListingRecord
           /\ \A i \in AuctionIds : auctions[i].status # "None" => auctions[i] \in AuctionRecord
           /\ \A i \in OfferIds : offers[i].status # "None" => offers[i] \in OfferRecord
BY DEF WellFormed, NoRecord

\* Dividing by the denominator of basis points gives a natural number.
LEMMA BpsDivision ==
    ASSUME NEW n \in Nat
    PROVE  n \div BPS_DENOM \in Nat /\ BPS_DENOM * (n \div BPS_DENOM) <= n
BY DEF BPS_DENOM

\* Products of natural numbers are natural numbers.
LEMMA ProductType ==
    ASSUME NEW a \in Nat, NEW b \in Nat
    PROVE  a * b \in Nat
OBVIOUS

\* The fee on a price is at most a tenth of it.
LEMMA FeeBounds ==
    ASSUME WellFormed, NEW price \in Nat
    PROVE  PlatformFee(price) \in Nat /\ BPS_DENOM * PlatformFee(price) <= price * MAX_FEE_BPS
<1>1. config.platform_fee_bps \in 0 .. MAX_FEE_BPS
  BY DEF WellFormed, ConfigRecord
<1>2. config.platform_fee_bps \in Nat /\ config.platform_fee_bps <= MAX_FEE_BPS
  BY <1>1 DEF MAX_FEE_BPS
<1>3. price * config.platform_fee_bps \in Nat
  BY ONLY <1>2, ProductType, price \in Nat
<1>4. price * config.platform_fee_bps <= price * MAX_FEE_BPS
  BY <1>2 DEF MAX_FEE_BPS
<1>5. /\ PlatformFee(price) \in Nat
      /\ BPS_DENOM * PlatformFee(price) <= price * config.platform_fee_bps
  <2> DEFINE fee == (price * config.platform_fee_bps) \div BPS_DENOM
  <2>1. fee \in Nat /\ BPS_DENOM * fee <= price * config.platform_fee_bps
    BY ONLY <1>3, BpsDivision
  <2>2. PlatformFee(price) = IF fee > 0 THEN fee ELSE 0
    BY DEF PlatformFee
  <2> HIDE DEF fee
  <2>3. PlatformFee(price) = fee
    BY ONLY <2>1, <2>2
  <2> QED BY ONLY <2>1, <2>3
<1>6. BPS_DENOM * PlatformFee(price) \in Nat /\ price * MAX_FEE_BPS \in Nat
  BY <1>5 DEF BPS_DENOM, MAX_FEE_BPS
<1> QED BY ONLY <1>3, <1>4, <1>5, <1>6

\* One royalty is a natural number, at most its share of the price.
LEMMA RoyaltyBounds ==
    ASSUME NEW price \in Nat, NEW bps \in Nat
    PROVE  /\ RoyaltyAmount(price, bps) \in Nat
           /\ BPS_DENOM * RoyaltyAmount(price, bps) <= price * bps
<1>1. price * bps \in Nat
  BY ProductType
<1>2. /\ (price * bps) \div BPS_DENOM \in Nat
      /\ BPS_DENOM * ((price * bps) \div BPS_DENOM) <= price * bps
  BY ONLY <1>1, BpsDivision
<1>3. BPS_DENOM * 0 <= price * bps
  BY <1>1 DEF BPS_DENOM
<1> QED BY ONLY <1>2, <1>3 DEF RoyaltyAmount

\* The list of royalty recipients in force, with the shares it may have.
LEMMA RoyaltiesType ==
    ASSUME WellFormed, NEW coll
    PROVE  /\ Royalties(coll) \in Seq([address : Accounts, share_bps : Int])
           /\ SharesAllowed(Royalties(coll))
           /\ Royalties(coll) = <<>> \/ Royalties(coll) \in RoyaltyConfigs
<1>1. CASE coll \in DOMAIN collections
  <2>1. collections[coll] \in CollectionInfo
    BY <1>1 DEF WellFormed
  <2>2. collections[coll].royalties \in RoyaltyConfigs
    BY <2>1 DEF CollectionInfo
  <2> QED BY <1>1, <2>2, MarketAssumption DEF WellFormed, RoyaltiesChecked, Royalties
<1>2. CASE coll \notin DOMAIN collections
  <2>1. Royalties(coll) = <<>>
    BY <1>2 DEF Royalties
  <2> QED BY <2>1 DEF SharesAllowed
<1> QED BY <1>1, <1>2

\* Every royalty of a sale is a natural number, and so is their sum.
LEMMA RoyaltyAmountsType ==
    ASSUME WellFormed, NEW coll, NEW price \in Nat
    PROVE  LET rc == Royalties(coll) IN
           /\ DOMAIN rc = 1 .. Len(rc) /\ Len(rc) \in Nat /\ IsFiniteSet(DOMAIN rc)
           /\ \A k \in DOMAIN rc :
                /\ rc[k].share_bps \in Nat
                /\ RoyaltyAmounts(price, rc)[k] = RoyaltyAmount(price, rc[k].share_bps)
                /\ RoyaltyAmounts(price, rc)[k] \in Nat
                /\ BPS_DENOM * RoyaltyAmounts(price, rc)[k] <= price * rc[k].share_bps
           /\ RoyaltyTotal(price, coll) \in Nat
<1> DEFINE rc == Royalties(coll)
<1>1. rc \in Seq([address : Accounts, share_bps : Int]) /\ SharesAllowed(rc)
  BY RoyaltiesType
<1>2. DOMAIN rc = 1 .. Len(rc) /\ Len(rc) \in Nat
  BY <1>1
<1>3. IsFiniteSet(DOMAIN rc)
  <2>1. 1 \in Int /\ Len(rc) \in Int
    BY <1>2
  <2> QED BY ONLY <1>2, <2>1, FS_Interval
<1>4. \A k \in DOMAIN rc : rc[k].share_bps \in Nat
  <2> SUFFICES ASSUME NEW k \in DOMAIN rc PROVE rc[k].share_bps \in Nat
    OBVIOUS
  <2> HIDE DEF rc
  <2>1. rc[k].share_bps \in 0 .. MAX_ROYALTY_BPS
    BY <1>1 DEF SharesAllowed
  <2> QED BY <2>1 DEF MAX_ROYALTY_BPS
<1>5. \A k \in DOMAIN rc :
        /\ RoyaltyAmounts(price, rc)[k] = RoyaltyAmount(price, rc[k].share_bps)
        /\ RoyaltyAmounts(price, rc)[k] \in Nat
        /\ BPS_DENOM * RoyaltyAmounts(price, rc)[k] <= price * rc[k].share_bps
  BY <1>4, RoyaltyBounds DEF RoyaltyAmounts
<1>6. RoyaltyTotal(price, coll) \in Nat
  BY <1>3, <1>5, SumType DEF RoyaltyTotal
<1> QED BY <1>2, <1>3, <1>4, <1>5, <1>6

\* The payments of a sale are natural numbers at positions 0 .. Len(rc) + 1.
LEMMA SalePaymentsType ==
    ASSUME WellFormed, NEW coll, NEW price \in Nat, NEW seller
    PROVE  LET pay == SalePayments(price, coll, seller)
               hi  == Len(Royalties(coll)) + 1 IN
           /\ hi \in Int /\ 0 <= hi /\ DOMAIN pay = 0 .. hi
           /\ \A k \in 0 .. hi : pay[k].amount \in Nat
           /\ pay[0].amount = PlatformFee(price)
           /\ \A k \in 1 .. Len(Royalties(coll)) :
                pay[k].amount = RoyaltyAmounts(price, Royalties(coll))[k]
           /\ pay[hi].amount
                = IF Proceeds(price, coll) > 0 THEN Proceeds(price, coll) ELSE 0
<1> DEFINE rc == Royalties(coll)
           pay == SalePayments(price, coll, seller)
<1>1. DOMAIN rc = 1 .. Len(rc) /\ Len(rc) \in Nat
  BY RoyaltyAmountsType
<1>2. \A k \in 1 .. Len(rc) :
        /\ RoyaltyAmounts(price, rc)[k] = RoyaltyAmount(price, rc[k].share_bps)
        /\ RoyaltyAmounts(price, rc)[k] \in Nat
  BY <1>1, RoyaltyAmountsType
<1>3. PlatformFee(price) \in Nat
  BY FeeBounds
<1>4. Proceeds(price, coll) \in Int
  BY <1>3, RoyaltyAmountsType DEF Proceeds
<1>5. DOMAIN pay = 0 .. Len(rc) + 1
  BY DEF SalePayments
<1>6. pay[0].amount = PlatformFee(price)
  BY <1>1 DEF SalePayments
<1>7. \A k \in 1 .. Len(rc) : pay[k].amount = RoyaltyAmounts(price, rc)[k]
  BY <1>1, <1>2 DEF SalePayments
<1>8. pay[Len(rc) + 1].amount = IF Proceeds(price, coll) > 0 THEN Proceeds(price, coll) ELSE 0
  BY <1>1 DEF SalePayments
<1>9. \A k \in 0 .. Len(rc) + 1 : k = 0 \/ k \in 1 .. Len(rc) \/ k = Len(rc) + 1
  BY <1>1
<1> HIDE DEF pay, rc
<1>10. \A k \in 0 .. Len(rc) + 1 : pay[k].amount \in Nat
  BY <1>2, <1>3, <1>4, <1>6, <1>7, <1>8, <1>9
<1> QED BY <1>1, <1>5, <1>6, <1>7, <1>8, <1>10 DEF pay, rc

\* When royalties leave room for the fee, fee and royalties never exceed the
\* price, so a sale pays out exactly the price.
LEMMA SaleTotal ==
    ASSUME WellFormed, RoyaltiesLeaveRoom, NEW coll, NEW price \in Nat, NEW seller
    PROVE  PayTotal(SalePayments(price, coll, seller)) = price
<1> DEFINE rc == Royalties(coll)
           n == Len(rc)
           pay == SalePayments(price, coll, seller)
           fee == PlatformFee(price)
           total == RoyaltyTotal(price, coll)
           A == PayAmounts(pay)
           F == [k \in DOMAIN rc |-> rc[k].share_bps]
           G == RoyaltyAmounts(price, rc)
<1>1. /\ DOMAIN rc = 1 .. n /\ n \in Nat /\ IsFiniteSet(DOMAIN rc) /\ total \in Nat
      /\ \A k \in DOMAIN rc : /\ rc[k].share_bps \in Nat
                              /\ G[k] \in Nat
                              /\ BPS_DENOM * G[k] <= price * rc[k].share_bps
  BY RoyaltyAmountsType
<1>2. fee \in Nat /\ BPS_DENOM * fee <= price * MAX_FEE_BPS
  BY FeeBounds
<1>3. SumOver(DOMAIN rc, F) + MAX_FEE_BPS <= BPS_DENOM
  <2>1. CASE rc \in RoyaltyConfigs
    BY <2>1, RoyaltiesType DEF RoyaltiesLeaveRoom
  <2>2. CASE rc = <<>>
    <3>1. DOMAIN rc = {}
      BY <2>2
    <3>2. SumOver(DOMAIN rc, F) = 0
      BY ONLY <3>1, SumEmpty
    <3> QED BY ONLY <3>2 DEF MAX_FEE_BPS, BPS_DENOM
  <2> QED BY <2>1, <2>2, RoyaltiesType
<1>4. SumOver(DOMAIN rc, F) \in Nat
  <2>1. \A k \in DOMAIN rc : F[k] \in Nat
    BY <1>1
  <2> HIDE DEF rc, F
  <2> QED BY ONLY <1>1, <2>1, SumType
<1>5. BPS_DENOM * total <= price * SumOver(DOMAIN rc, F)
  <2>1. \A k \in DOMAIN rc : F[k] \in Nat /\ G[k] \in Nat /\ BPS_DENOM * G[k] <= price * F[k]
    BY <1>1
  <2>2. total = SumOver(DOMAIN rc, G)
    BY DEF RoyaltyTotal
  <2>3. BPS_DENOM \in Nat
    BY DEF BPS_DENOM
  <2> HIDE DEF rc, F, G, total
  <2>4. BPS_DENOM * SumOver(DOMAIN rc, G) <= price * SumOver(DOMAIN rc, F)
    BY ONLY <1>1, <2>1, <2>3, SumScaled, price \in Nat
  <2> QED BY ONLY <2>2, <2>4
<1>6. fee + total <= price
  <2>1. ASSUME NEW s \in Nat, NEW f \in Nat, NEW t \in Nat, s + 1000 <= 10000,
               10000 * f <= price * 1000, 10000 * t <= price * s
        PROVE  f + t <= price
    <3>1. price * s <= price * 9000
      BY <2>1
    <3>2. price * s \in Nat
      OBVIOUS
    <3> QED BY <2>1, <3>1, <3>2
  <2> HIDE DEF rc, F, G, total, fee
  <2> QED BY <1>1, <1>2, <1>3, <1>4, <1>5, <2>1 DEF BPS_DENOM, MAX_FEE_BPS
<1>7. Proceeds(price, coll) = price - fee - total
  BY DEF Proceeds
<1>8. /\ DOMAIN pay = 0 .. n + 1
      /\ \A k \in 0 .. n + 1 : pay[k].amount \in Nat
      /\ pay[0].amount = fee
      /\ \A k \in 1 .. n : pay[k].amount = G[k]
      /\ pay[n + 1].amount = price - fee - total
  <2>1. (IF Proceeds(price, coll) > 0 THEN Proceeds(price, coll) ELSE 0)
            = price - fee - total
    <3> HIDE DEF rc, total, fee
    <3> QED BY <1>1, <1>2, <1>6, <1>7
  <2> QED BY <2>1, SalePaymentsType
<1>9. \A k \in 0 .. n + 1 : A[k] = pay[k].amount
  BY <1>8 DEF PayAmounts
<1>10. PayTotal(pay) = SumOver(0 .. n + 1, A)
  BY <1>8 DEF PayTotal
<1>11. SumOver(1 .. n, A) = total
  <2>1. \A k \in 1 .. n : A[k] = G[k]
    BY <1>1, <1>8, <1>9
  <2>2. total = SumOver(1 .. n, G)
    BY <1>1 DEF RoyaltyTotal
  <2> HIDE DEF rc, n, A, G, total
  <2> QED BY ONLY <2>1, <2>2, SumSame
<1> HIDE DEF rc, n, pay, fee, total, A, F, G
<1>12. SumOver(1 .. n \cup {0}, A) = total + fee
  <2>1. IsFiniteSet(1 .. n) /\ 0 \notin 1 .. n
    BY <1>1
  <2>2. \A y \in 1 .. n \cup {0} : A[y] \in Nat
    BY <1>1, <1>8, <1>9
  <2>3. SumOver(1 .. n \cup {0}, A) = SumOver(1 .. n, A) + A[0]
    BY ONLY <2>1, <2>2, SumAdd
  <2>4. A[0] = fee
    BY <1>1, <1>8, <1>9
  <2> QED BY ONLY <1>11, <2>3, <2>4
<1>13. SumOver(0 .. n + 1, A) = total + fee + (price - fee - total)
  <2>1. 0 .. n + 1 = (1 .. n \cup {0}) \cup {n + 1} /\ n + 1 \notin 1 .. n \cup {0}
    BY <1>1
  <2>2. IsFiniteSet(1 .. n \cup {0})
    <3>1. IsFiniteSet(1 .. n)
      BY <1>1
    <3> QED BY ONLY <3>1, FS_AddElement
  <2>3. \A y \in (1 .. n \cup {0}) \cup {n + 1} : A[y] \in Nat
    BY <1>1, <1>8, <1>9
  <2>4. SumOver((1 .. n \cup {0}) \cup {n + 1}, A) = SumOver(1 .. n \cup {0}, A) + A[n + 1]
    BY ONLY <2>1, <2>2, <2>3, SumAdd
  <2>5. A[n + 1] = price - fee - total
    BY <1>1, <1>8, <1>9
  <2> QED BY ONLY <1>12, <2>1, <2>4, <2>5
<1> QED BY <1>1, <1>2, <1>10, <1>13 DEF pay

-----------------------------------------------------------------------------

\* Taking tokens in adds them to what the contract holds.
LEMMA PullBounds ==
    ASSUME WellFormed, NEW token \in Tokens, NEW from \in Users, NEW amount \in Int,
           Pull(token, from, amount)
    PROVE  /\ balance' \in [Tokens -> [Accounts -> Nat]]
           /\ balance'[token][Market] = balance[token][Market] + amount
           /\ \A t \in Tokens \ {token} : balance'[t] = balance[t]
           /\ amount \in Nat
<1>1. balance[token] \in [Accounts -> Nat] /\ from \in Accounts /\ Market \in Accounts
  BY DEF WellFormed, Accounts
<1>2. from # Market
  BY MarketAssumption
<1>3. CanTransfer(balance[token], from, amount)
  BY DEF Pull
<1>4. /\ Transfer(balance[token], from, Market, amount) \in [Accounts -> Nat]
      /\ Transfer(balance[token], from, Market, amount)[Market]
            = balance[token][Market] + amount
  BY ONLY <1>1, <1>2, <1>3, TransferBounds, amount \in Int
<1>5. balance' = [balance EXCEPT ![token] = Transfer(balance[token], from, Market, amount)]
  BY DEF Pull
<1>6. balance \in [Tokens -> [Accounts -> Nat]]
  BY DEF WellFormed
<1> QED BY <1>3, <1>4, <1>5, <1>6 DEF CanTransfer

\* Handing tokens out costs the contract at most their amount.
LEMMA PushBounds ==
    ASSUME WellFormed, NEW token \in Tokens, NEW to \in Accounts, NEW amount \in Int,
           Push(token, to, amount)
    PROVE  /\ balance' \in [Tokens -> [Accounts -> Nat]]
           /\ balance'[token][Market] >= balance[token][Market] - amount
           /\ \A t \in Tokens \ {token} : balance'[t] = balance[t]
<1>1. balance[token] \in [Accounts -> Nat] /\ Market \in Accounts
  BY DEF WellFormed, Accounts
<1>2. CanTransfer(balance[token], Market, amount)
  BY DEF Push
<1>3. amount >= 0
  BY <1>2 DEF CanTransfer
<1>4. /\ Transfer(balance[token], Market, to, amount) \in [Accounts -> Nat]
      /\ Transfer(balance[token], Market, to, amount)[Market]
            >= balance[token][Market] - amount
  <2>1. balance[token][Market] \in Nat
    BY <1>1
  <2>2. /\ Transfer(balance[token], Market, to, amount) \in [Accounts -> Nat]
        /\ Market # to => Transfer(balance[token], Market, to, amount)[Market]
                = balance[token][Market] - amount
        /\ Market = to => Transfer(balance[token], Market, to, amount)[Market]
                = balance[token][Market]
    BY ONLY <1>1, <1>2, TransferBounds, amount \in Int, to \in Accounts
  <2> QED BY <1>3, <2>1, <2>2
<1>5. balance' = [balance EXCEPT ![token] = Transfer(balance[token], Market, to, amount)]
  BY DEF Push
<1>6. balance \in [Tokens -> [Accounts -> Nat]]
  BY DEF WellFormed
<1> QED BY <1>4, <1>5, <1>6

\* A trade costs the contract at most what it pays and what it hands over.
LEMMA TradeBounds ==
    ASSUME WellFormed, NEW currency \in Tokens, NEW payer \in Accounts,
           NEW lo \in Int, NEW hi \in Int, lo <= hi,
           NEW pay, DOMAIN pay = lo .. hi, \A k \in lo .. hi : pay[k].amount \in Nat,
           NEW coll \in Tokens, NEW from \in Accounts, NEW to \in Accounts,
           NEW amount \in Nat,
           Trade(currency, payer, pay, coll, from, to, amount)
    PROVE  /\ balance' \in [Tokens -> [Accounts -> Nat]]
           /\ \A t \in Tokens :
                balance'[t][Market] >= balance[t][Market]
                    - (IF t = currency /\ payer = Market THEN PayTotal(pay) ELSE 0)
                    - (IF t = coll /\ from = Market THEN amount ELSE 0)
<1> DEFINE B == PayAll(balance[currency], payer, pay)
           paid == [balance EXCEPT ![currency] = B]
           C == Transfer(paid[coll], from, to, amount)
<1>1. balance \in [Tokens -> [Accounts -> Nat]] /\ Market \in Accounts
  BY DEF WellFormed, Accounts
<1>2. /\ CanPayAll(balance[currency], payer, pay)
      /\ CanTransfer(paid[coll], from, amount)
      /\ balance' = [paid EXCEPT ![coll] = C]
  BY DEF Trade
<1>3. balance[currency] \in [Accounts -> Nat] /\ balance[currency][payer] \in Nat
  BY <1>1
<1>4. /\ B \in [Accounts -> Nat]
      /\ B[payer] >= balance[currency][payer] - PayTotal(pay)
      /\ \A a \in Accounts \ {payer} : B[a] >= balance[currency][a]
  BY <1>2, <1>3, PayAllBounds
<1>5. PayTotal(pay) \in Nat
  BY <1>2, <1>3, PaymentsCovered
<1> HIDE DEF B
<1>6. paid \in [Tokens -> [Accounts -> Nat]]
  BY <1>1, <1>4
<1>7. \A t \in Tokens : paid[t][Market] >= balance[t][Market]
            - (IF t = currency /\ payer = Market THEN PayTotal(pay) ELSE 0)
  <2> SUFFICES ASSUME NEW t \in Tokens
               PROVE  paid[t][Market] >= balance[t][Market]
                        - (IF t = currency /\ payer = Market THEN PayTotal(pay) ELSE 0)
    OBVIOUS
  <2>1. balance[t][Market] \in Nat
    BY <1>1
  <2>2. CASE t = currency
    <3>1. paid[t] = B
      BY <1>1, <2>2
    <3>2. B[Market] \in Nat
      BY <1>1, <1>4
    <3> QED BY <1>1, <1>4, <1>5, <2>1, <2>2, <3>1, <3>2
  <2>3. CASE t # currency
    <3>1. paid[t] = balance[t]
      BY <1>1, <2>3
    <3> QED BY <2>1, <2>3, <3>1
  <2> QED BY <2>2, <2>3
<1> HIDE DEF paid
<1>8. paid[coll] \in [Accounts -> Nat]
  BY <1>6
<1>9. /\ C \in [Accounts -> Nat]
      /\ from # to => C[from] = paid[coll][from] - amount /\ C[to] = paid[coll][to] + amount
      /\ from = to => C[from] = paid[coll][from]
      /\ \A a \in Accounts \ {from, to} : C[a] = paid[coll][a]
  <2>1. amount \in Int
    OBVIOUS
  <2> QED BY ONLY <1>2, <1>8, <2>1, TransferBounds, from \in Accounts, to \in Accounts
<1> HIDE DEF C
<1>10. C[Market] >= paid[coll][Market] - (IF from = Market THEN amount ELSE 0)
  <2>1. paid[coll][Market] \in Nat /\ C[Market] \in Nat
    BY <1>1, <1>8, <1>9
  <2>2. CASE from = Market
    BY <1>9, <2>1, <2>2
  <2>3. CASE from # Market /\ to = Market
    BY <1>9, <2>1, <2>3
  <2>4. CASE from # Market /\ to # Market
    BY <1>1, <1>9, <2>1, <2>4
  <2> QED BY <2>2, <2>3, <2>4
<1>11. balance' \in [Tokens -> [Accounts -> Nat]]
  BY <1>2, <1>6, <1>9
<1>12. \A t \in Tokens : balance'[t][Market] >= paid[t][Market]
            - (IF t = coll /\ from = Market THEN amount ELSE 0)
  <2> SUFFICES ASSUME NEW t \in Tokens
               PROVE  balance'[t][Market] >= paid[t][Market]
                        - (IF t = coll /\ from = Market THEN amount ELSE 0)
    OBVIOUS
  <2>1. paid[t][Market] \in Nat
    BY <1>1, <1>6
  <2>2. CASE t = coll
    <3>1. balance'[t] = C
      BY <1>2, <1>6, <2>2
    <3> QED BY <1>10, <2>2, <3>1
  <2>3. CASE t # coll
    <3>1. balance'[t] = paid[t]
      BY <1>2, <1>6, <2>3
    <3> QED BY <2>1, <2>3, <3>1
  <2> QED BY <2>2, <2>3
<1>13. ASSUME NEW t \in Tokens
       PROVE  balance'[t][Market] >= balance[t][Market]
                    - (IF t = currency /\ payer = Market THEN PayTotal(pay) ELSE 0)
                    - (IF t = coll /\ from = Market THEN amount ELSE 0)
  <2>1. balance'[t][Market] \in Nat /\ paid[t][Market] \in Nat /\ balance[t][Market] \in Nat
    BY <1>1, <1>6, <1>11
  <2> QED BY <1>5, <1>7, <1>12, <2>1
<1> QED BY <1>11, <1>13

-----------------------------------------------------------------------------
(* Every stored value keeps its type.                                      *)

\* What WellFormed says of the registered collections.
CollectionsOK ==
    /\ DOMAIN collections \subseteq Collections
    /\ collections \in [DOMAIN collections -> CollectionInfo]
    /\ RoyaltiesChecked

\* Counting records up and down touches the counters only.
LEMMA UpdateStatsType ==
    ASSUME WellFormed, NEW coll, NEW dl \in {-1, 0, 1}, NEW da \in {-1, 0, 1},
           collections' = UpdateStats(coll, dl, da)
    PROVE  CollectionsOK'
<1>1. CASE coll \notin DOMAIN collections
  BY <1>1 DEF WellFormed, CollectionsOK, UpdateStats, RoyaltiesChecked
<1>2. CASE coll \in DOMAIN collections
  <2> DEFINE info == collections[coll]
             next == [info EXCEPT !.active_listings = Bump(@, dl),
                                  !.active_auctions = Bump(@, da)]
  <2>1. info \in CollectionInfo
    BY <1>2 DEF WellFormed
  <2>2. /\ Bump(info.active_listings, dl) \in Nat
        /\ Bump(info.active_auctions, da) \in Nat
    <3>1. info.active_listings \in Nat /\ info.active_auctions \in Nat
      BY <2>1 DEF CollectionInfo
    <3> QED BY <3>1 DEF Bump
  <2>3. next \in CollectionInfo /\ next.royalties = info.royalties
    BY <2>1, <2>2 DEF CollectionInfo
  <2>4. collections' = [collections EXCEPT ![coll] = next]
    BY <1>2 DEF UpdateStats
  <2>5. DOMAIN collections' = DOMAIN collections
    BY <2>4
  <2> HIDE DEF next
  <2>6. collections' \in [DOMAIN collections -> CollectionInfo]
    BY <2>3, <2>4 DEF WellFormed
  <2>7. \A c \in DOMAIN collections : collections'[c].royalties = collections[c].royalties
    BY <2>3, <2>4 DEF WellFormed
  <2>8. RoyaltiesChecked'
    BY <2>5, <2>7 DEF WellFormed, RoyaltiesChecked, SharesAllowed
  <2> QED BY <2>5, <2>6, <2>8 DEF WellFormed, CollectionsOK
<1> QED BY <1>1, <1>2

\* The part of a range that has gone by is a part of the whole.
LEMMA DecayBounds ==
    ASSUME NEW r \in Nat, NEW e \in Nat, NEW d \in Nat \ {0}, e <= d
    PROVE  (r * e) \div d \in 0 .. r
<1>1. r * e \in Nat /\ r * d \in Nat /\ r * e <= r * d
  OBVIOUS
<1>2. (r * e) \div d \in Nat /\ d * ((r * e) \div d) <= r * e
  BY <1>1
<1>3. ASSUME NEW q \in Nat, d * q <= r * d PROVE q <= r
  <2>1. SUFFICES ASSUME q > r PROVE FALSE
    OBVIOUS
  <2>2. d * q >= d * (r + 1)
    BY <2>1
  <2>3. d * (r + 1) = r * d + d
    OBVIOUS
  <2> QED BY <1>3, <2>2, <2>3
<1>4. d * ((r * e) \div d) <= r * d
  BY <1>1, <1>2
<1> QED BY <1>2, <1>3, <1>4

\* The price of an auction is an integer, whatever its floor.
LEMMA DutchPriceType ==
    ASSUME WellFormed, NEW i \in AuctionIds, auctions[i].status # "None"
    PROVE  DutchPrice(auctions[i]) \in Int
<1> DEFINE a == auctions[i]
           rest == (a.start_price - a.floor_price) * (now - a.start_time)
           d == a.end_time - a.start_time
<1>1. a \in AuctionRecord
  BY OpenRecords
<1>2. /\ a.floor_price \in Int /\ a.start_price \in Nat
      /\ a.start_time \in Nat /\ a.end_time \in Nat
  BY <1>1 DEF AuctionRecord
<1>3. a.start_time < a.end_time /\ now \in Nat
  BY DEF WellFormed, AuctionTerms
<1> HIDE DEF a
<1>4. rest \in Int /\ d \in Nat \ {0}
  BY <1>2, <1>3
<1>5. DutchDecay(a) = rest \div d
  BY DEF DutchDecay
<1> HIDE DEF rest, d
<1>6. DutchDecay(a) \in Int
  BY <1>4, <1>5
<1>7. DutchPrice(a) \in Int
  BY <1>2, <1>6 DEF DutchPrice
<1> QED BY <1>7 DEF a

\* The price of an auction never leaves the range between its two prices.
LEMMA DutchPriceBounds ==
    ASSUME TypeOK, NEW i \in AuctionIds, auctions[i].status # "None"
    PROVE  /\ DutchPrice(auctions[i]) \in Nat
           /\ auctions[i].floor_price <= DutchPrice(auctions[i])
           /\ DutchPrice(auctions[i]) <= auctions[i].start_price
<1> DEFINE a == auctions[i]
<1>1. a \in AuctionRecord
  BY OpenRecords DEF TypeOK
<1>2. /\ a.start_price \in Nat /\ a.start_time \in Nat /\ a.end_time \in Nat
  BY <1>1 DEF AuctionRecord
<1>3. a.start_time < a.end_time /\ now \in Nat /\ a.floor_price \in 0 .. (a.start_price - 1)
  BY DEF TypeOK, WellFormed, AuctionTerms, FloorsChecked
<1> HIDE DEF a
<1>0. a.floor_price \in Nat /\ a.floor_price < a.start_price
  BY <1>2, <1>3
<1>4. CASE a.start_time < now /\ now < a.end_time
  <2>1. /\ a.start_price - a.floor_price \in Nat /\ now - a.start_time \in Nat
        /\ a.end_time - a.start_time \in Nat \ {0}
        /\ now - a.start_time <= a.end_time - a.start_time
    BY <1>0, <1>2, <1>3, <1>4
  <2>2. DutchDecay(a) \in 0 .. (a.start_price - a.floor_price)
    BY ONLY <2>1, DecayBounds DEF DutchDecay
  <2>3. a.start_price - DutchDecay(a) >= 0
    BY <1>0, <1>2, <1>3, <2>2
  <2>4. DutchPrice(a) = a.start_price - DutchDecay(a)
    BY <1>0, <1>2, <1>3, <1>4, <2>2, <2>3 DEF DutchPrice
  <2> QED BY <1>0, <1>2, <2>2, <2>4 DEF a
<1>5. CASE ~(a.start_time < now /\ now < a.end_time)
  <2>1. DutchPrice(a) = a.floor_price \/ DutchPrice(a) = a.start_price
    BY <1>0, <1>2, <1>3, <1>5 DEF DutchPrice
  <2> QED BY <1>0, <1>2, <1>3, <2>1 DEF a
<1> QED BY <1>4, <1>5

\* The bounds of the identifiers are natural numbers, and so is every window.
LEMMA BoundsType ==
    /\ MaxListings \in Nat /\ MaxAuctions \in Nat /\ MaxOffers \in Nat
    /\ IsFiniteSet(ListingIds) /\ IsFiniteSet(AuctionIds) /\ IsFiniteSet(OfferIds)
<1>1. MaxListings \in Nat /\ MaxAuctions \in Nat /\ MaxOffers \in Nat
  BY MarketAssumption
<1>2. 1 \in Int /\ MaxListings \in Int /\ MaxAuctions \in Int /\ MaxOffers \in Int
  BY <1>1
<1>3. IsFiniteSet(ListingIds) /\ IsFiniteSet(AuctionIds) /\ IsFiniteSet(OfferIds)
  BY ONLY <1>2, FS_Interval DEF ListingIds, AuctionIds, OfferIds
<1> QED BY <1>1, <1>3

\* The parts of WellFormed, grouped by what a handler writes.
SettingsOK == inits \in Nat /\ config \in ConfigRecord /\ currencies \subseteq Currencies
ListingsOK == /\ listing_seq \in 0 .. MaxListings
              /\ listings \in [ListingIds -> ListingRecord \cup {NoRecord}]
AuctionsOK == /\ auction_seq \in 0 .. MaxAuctions
              /\ auctions \in [AuctionIds -> AuctionRecord \cup {NoRecord}]
              /\ AuctionTerms
OffersOK   == /\ offer_seq \in 0 .. MaxOffers
              /\ offers \in [OfferIds -> OfferRecord \cup {NoRecord}]
BalanceOK  == balance \in [Tokens -> [Accounts -> Nat]]

\* WellFormed is the conjunction of its parts.
LEMMA TypeParts ==
    WellFormed <=> /\ now \in Nat /\ SettingsOK /\ CollectionsOK
               /\ ListingsOK /\ AuctionsOK /\ OffersOK /\ BalanceOK
BY DEF WellFormed, SettingsOK, CollectionsOK, ListingsOK, AuctionsOK, OffersOK, BalanceOK

\* The same of the next state.
LEMMA TypePartsNext ==
    WellFormed' <=> /\ now' \in Nat /\ SettingsOK' /\ CollectionsOK'
                /\ ListingsOK' /\ AuctionsOK' /\ OffersOK' /\ BalanceOK'
BY DEF WellFormed, SettingsOK, CollectionsOK, ListingsOK, AuctionsOK, OffersOK, BalanceOK

\* Parts that a handler leaves alone stay as they are.
LEMMA PartsUnchanged ==
    ASSUME WellFormed
    PROVE  /\ UNCHANGED settings => SettingsOK'
           /\ UNCHANGED collections => CollectionsOK'
           /\ UNCHANGED <<listing_seq, listings>> => ListingsOK'
           /\ UNCHANGED <<auction_seq, auctions>> => AuctionsOK'
           /\ UNCHANGED <<offer_seq, offers>> => OffersOK'
           /\ UNCHANGED balance => BalanceOK'
<1> USE TypeParts
<1>1. UNCHANGED settings => SettingsOK'
  BY DEF settings, SettingsOK
<1>2. UNCHANGED collections => CollectionsOK'
  BY DEF CollectionsOK, RoyaltiesChecked
<1>3. UNCHANGED <<listing_seq, listings>> => ListingsOK'
  BY DEF ListingsOK
<1>4. UNCHANGED <<auction_seq, auctions>> => AuctionsOK'
  BY DEF AuctionsOK, AuctionTerms
<1>5. UNCHANGED <<offer_seq, offers>> => OffersOK'
  BY DEF OffersOK
<1>6. UNCHANGED balance => BalanceOK'
  BY DEF BalanceOK
<1> QED BY <1>1, <1>2, <1>3, <1>4, <1>5, <1>6

\* Nothing is stored at first, and the balances are given.
LEMMA InitType == Init => WellFormed
<1> SUFFICES ASSUME Init PROVE WellFormed
  OBVIOUS
<1> USE DEF Init
<1>1. config \in ConfigRecord
  BY DEF ConfigRecord, MAX_FEE_BPS, MAX_BID_INCREMENT_BPS, Accounts
<1>2. SettingsOK
  BY <1>1 DEF SettingsOK
<1>3. CollectionsOK
  <2>1. DOMAIN collections = {}
    OBVIOUS
  <2>2. collections \in [DOMAIN collections -> CollectionInfo]
    BY <2>1
  <2> QED BY <2>1, <2>2 DEF CollectionsOK, RoyaltiesChecked
<1>4. ListingsOK
  BY BoundsType DEF ListingsOK
<1>5. AuctionsOK
  <2>1. AuctionTerms
    BY DEF AuctionTerms, NoRecord
  <2> QED BY <2>1, BoundsType DEF AuctionsOK
<1>6. OffersOK
  BY BoundsType DEF OffersOK
<1>7. BalanceOK
  BY MarketAssumption DEF BalanceOK
<1> QED BY <1>2, <1>3, <1>4, <1>5, <1>6, <1>7, TypeParts

\* The steps of the admins.
LEMMA AdminType == WellFormed /\ AdminStep => WellFormed'
<1> SUFFICES ASSUME WellFormed, AdminStep PROVE WellFormed'
  OBVIOUS
<1> USE DEF records, settings
<1>1. ASSUME NEW admin \in Admins, NEW fee \in FeeRates, NEW recipient \in FeeRecipients,
             NEW increment \in BidIncrements, NEW window \in Windows,
             Initialize(admin, fee, recipient, increment, window)
      PROVE  WellFormed'
  <2> USE <1>1 DEF Initialize
  <2>1. config' \in ConfigRecord
    BY MarketAssumption DEF ConfigRecord
  <2>2. SettingsOK'
    BY <2>1, TypeParts DEF SettingsOK
  <2>3. CollectionsOK'
    <3>1. DOMAIN collections' = {}
      OBVIOUS
    <3>2. collections' \in [DOMAIN collections' -> CollectionInfo]
      BY <3>1
    <3> QED BY <3>1, <3>2 DEF CollectionsOK, RoyaltiesChecked
  <2>4. ListingsOK' /\ OffersOK'
    BY TypeParts, BoundsType DEF ListingsOK, OffersOK
  <2>5. AuctionsOK'
    BY TypeParts, BoundsType DEF AuctionsOK, AuctionTerms
  <2> QED BY <2>2, <2>3, <2>4, <2>5, PartsUnchanged, TypeParts, TypePartsNext
<1>2. ASSUME config' \in ConfigRecord, UNCHANGED <<now, inits, currencies, collections, records, balance>>
      PROVE  WellFormed'
  <2>1. SettingsOK'
    BY <1>2, TypeParts DEF SettingsOK
  <2> QED BY <1>2, <2>1, PartsUnchanged, TypeParts, TypePartsNext
<1>3. ASSUME CollectionsOK', UNCHANGED <<now, settings, records, balance>>
      PROVE  WellFormed'
  BY <1>3, PartsUnchanged, TypeParts, TypePartsNext DEF records
<1>4. ASSUME NEW caller \in Users, NEW fee \in FeeRates, SetPlatformFee(caller, fee)
      PROVE  WellFormed'
  <2>1. config' \in ConfigRecord
    BY <1>4 DEF SetPlatformFee, WellFormed, ConfigRecord
  <2> QED BY <1>2, <1>4, <2>1 DEF SetPlatformFee
<1>5. ASSUME NEW caller \in Users, NEW recipient \in FeeRecipients,
             SetFeeRecipient(caller, recipient)
      PROVE  WellFormed'
  <2>1. config' \in ConfigRecord
    BY <1>5, MarketAssumption DEF SetFeeRecipient, WellFormed, ConfigRecord
  <2> QED BY <1>2, <1>5, <2>1 DEF SetFeeRecipient
<1>6. ASSUME NEW caller \in Users, NEW increment \in BidIncrements,
             SetBidIncrement(caller, increment)
      PROVE  WellFormed'
  <2>1. config' \in ConfigRecord
    BY <1>6 DEF SetBidIncrement, WellFormed, ConfigRecord
  <2> QED BY <1>2, <1>6, <2>1 DEF SetBidIncrement
<1>7. ASSUME NEW caller \in Users, NEW window \in Windows, SetAutoExtension(caller, window)
      PROVE  WellFormed'
  <2>1. config' \in ConfigRecord
    BY <1>7, MarketAssumption DEF SetAutoExtension, WellFormed, ConfigRecord
  <2> QED BY <1>2, <1>7, <2>1 DEF SetAutoExtension
<1>8. ASSUME NEW caller \in Users, NEW currency \in Currencies, NEW whitelisted \in BOOLEAN,
             SetCurrency(caller, currency, whitelisted)
      PROVE  WellFormed'
  <2>1. SettingsOK'
    BY <1>8, TypeParts DEF SetCurrency, SettingsOK
  <2> QED BY <1>8, <2>1, PartsUnchanged, TypeParts, TypePartsNext DEF SetCurrency
<1>9. ASSUME NEW caller \in Users, NEW coll \in Collections, NEW rc \in RoyaltyConfigs,
             RegisterCollection(caller, coll, rc)
      PROVE  WellFormed'
  <2> DEFINE info == [admin |-> caller, royalties |-> rc,
                      active_listings |-> 0, active_auctions |-> 0]
  <2>1. info \in CollectionInfo
    BY DEF CollectionInfo
  <2>2. collections' = [c \in DOMAIN collections \cup {coll} |->
                            IF c = coll THEN info ELSE collections[c]]
    BY <1>9 DEF RegisterCollection
  <2>3. info.royalties = rc /\ SharesAllowed(rc)
    BY <1>9 DEF RegisterCollection
  <2> HIDE DEF info
  <2>4. CollectionsOK'
    <3>1. DOMAIN collections' \subseteq Collections
      BY <2>2, TypeParts DEF CollectionsOK
    <3>2. \A c \in DOMAIN collections' : collections'[c] \in CollectionInfo
      BY <2>1, <2>2, TypeParts DEF CollectionsOK
    <3>3. collections' \in [DOMAIN collections' -> CollectionInfo]
      BY <2>2, <3>2
    <3>4. \A c \in DOMAIN collections' : SharesAllowed(collections'[c].royalties)
      BY <2>2, <2>3, TypeParts DEF CollectionsOK, RoyaltiesChecked
    <3> QED BY <3>1, <3>3, <3>4 DEF CollectionsOK, RoyaltiesChecked, SharesAllowed
  <2> QED BY <1>3, <1>9, <2>4 DEF RegisterCollection
<1>10. ASSUME NEW caller \in Users, NEW coll \in Collections, NEW rc \in RoyaltyConfigs,
              SetCollectionRoyalties(caller, coll, rc)
       PROVE  WellFormed'
  <2> DEFINE info == [collections[coll] EXCEPT !.royalties = rc]
  <2>1. coll \in DOMAIN collections /\ SharesAllowed(rc)
        /\ collections' = [collections EXCEPT ![coll] = info]
    BY <1>10 DEF SetCollectionRoyalties
  <2>2. info \in CollectionInfo /\ info.royalties = rc
    BY <2>1, TypeParts DEF CollectionsOK, CollectionInfo
  <2> HIDE DEF info
  <2>3. collections' \in [DOMAIN collections -> CollectionInfo]
    BY <2>1, <2>2, TypeParts DEF CollectionsOK
  <2>4. \A c \in DOMAIN collections : SharesAllowed(collections'[c].royalties)
    BY <2>1, <2>2, TypeParts DEF CollectionsOK, RoyaltiesChecked
  <2>5. CollectionsOK'
    BY <2>3, <2>4, TypeParts DEF CollectionsOK, RoyaltiesChecked, SharesAllowed
  <2> QED BY <1>3, <1>10, <2>5 DEF SetCollectionRoyalties
<1> QED BY <1>1, <1>4, <1>5, <1>6, <1>7, <1>8, <1>9, <1>10 DEF AdminStep

\* A trade for the price of a sale keeps the balances natural numbers.
LEMMA SaleType ==
    ASSUME WellFormed, NEW price \in Nat, NEW currency \in Tokens, NEW coll \in Collections,
           NEW seller \in Users, NEW payer \in Accounts, NEW to \in Accounts, NEW amount \in Nat,
           Trade(currency, payer, SalePayments(price, coll, seller), coll, Market, to, amount)
    PROVE  /\ BalanceOK'
           /\ \A t \in Tokens :
                balance'[t][Market] >= balance[t][Market]
                    - (IF t = currency /\ payer = Market
                       THEN PayTotal(SalePayments(price, coll, seller)) ELSE 0)
                    - (IF t = coll THEN amount ELSE 0)
<1> DEFINE pay == SalePayments(price, coll, seller)
           hi == Len(Royalties(coll)) + 1
<1>1. Trade(currency, payer, pay, coll, Market, to, amount)
  OBVIOUS
<1>2. /\ 0 \in Int /\ hi \in Int /\ 0 <= hi /\ DOMAIN pay = 0 .. hi
      /\ \A k \in 0 .. hi : pay[k].amount \in Nat
  BY SalePaymentsType
<1>3. Market \in Accounts /\ coll \in Tokens
  BY DEF Accounts, Tokens
<1> HIDE DEF pay, hi
<1>4. /\ balance' \in [Tokens -> [Accounts -> Nat]]
      /\ \A t \in Tokens :
            balance'[t][Market] >= balance[t][Market]
                - (IF t = currency /\ payer = Market THEN PayTotal(pay) ELSE 0)
                - (IF t = coll /\ Market = Market THEN amount ELSE 0)
  BY ONLY WellFormed, <1>1, <1>2, <1>3, TradeBounds, currency \in Tokens,
          payer \in Accounts, to \in Accounts, amount \in Nat
<1> QED BY <1>4 DEF BalanceOK, pay

\* For a price that is not positive nothing is paid.
LEMMA NothingPaid ==
    ASSUME WellFormed, NEW price \in Int, price <= 0, NEW coll, NEW seller,
           NEW bals \in [Accounts -> Nat], NEW payer
    PROVE  PayAll(bals, payer, SalePayments(price, coll, seller)) = bals
<1> DEFINE rc == Royalties(coll)
           pay == SalePayments(price, coll, seller)
           A == PayAmounts(pay)
<1>1. rc \in Seq([address : Accounts, share_bps : Int]) /\ SharesAllowed(rc)
  BY RoyaltiesType
<1>2. \A bps \in 0 .. MAX_ROYALTY_BPS : (price * bps) \div BPS_DENOM \in Int
                                       /\ (price * bps) \div BPS_DENOM <= 0
                                       /\ (price * bps) \div BPS_DENOM >= price
  <2> SUFFICES ASSUME NEW bps \in 0 .. 1000
               PROVE  /\ (price * bps) \div 10000 \in Int
                      /\ (price * bps) \div 10000 <= 0
                      /\ (price * bps) \div 10000 >= price
    BY DEF MAX_ROYALTY_BPS, BPS_DENOM
  <2>1. price * bps \in Int /\ price * bps <= 0 /\ price * bps >= price * 1000
    OBVIOUS
  <2> QED BY <2>1
<1>3. PlatformFee(price) \in Int /\ PlatformFee(price) <= 0 /\ PlatformFee(price) >= price
  <2>1. config.platform_fee_bps \in 0 .. MAX_ROYALTY_BPS
    BY DEF WellFormed, ConfigRecord, MAX_FEE_BPS, MAX_ROYALTY_BPS
  <2> QED BY <1>2, <2>1 DEF PlatformFee
<1>4. \A k \in DOMAIN rc : RoyaltyAmount(price, rc[k].share_bps) \in Int
                          /\ RoyaltyAmount(price, rc[k].share_bps) <= 0
  <2> SUFFICES ASSUME NEW k \in DOMAIN rc
               PROVE  /\ RoyaltyAmount(price, rc[k].share_bps) \in Int
                      /\ RoyaltyAmount(price, rc[k].share_bps) <= 0
    OBVIOUS
  <2>1. rc[k].share_bps \in 0 .. MAX_ROYALTY_BPS
    BY <1>1 DEF SharesAllowed
  <2> HIDE DEF rc
  <2> QED BY <1>2, <2>1 DEF RoyaltyAmount
<1>5. RoyaltyTotal(price, coll) = 0
  <2> DEFINE R == RoyaltyAmounts(price, rc)
  <2>1. \A k \in DOMAIN rc : R[k] \in Int /\ R[k] <= 0
    BY <1>4 DEF RoyaltyAmounts
  <2>2. RoyaltyTotal(price, coll) = SumOver(DOMAIN rc, R)
    BY DEF RoyaltyTotal
  <2> HIDE DEF R, rc
  <2> QED BY ONLY <2>1, <2>2, SumOfNothing
<1>6. Proceeds(price, coll) \in Int /\ Proceeds(price, coll) <= 0
  BY <1>3, <1>5 DEF Proceeds
<1>7. \A k \in DOMAIN pay : A[k] \in Int /\ A[k] <= 0
  <2> SUFFICES ASSUME NEW k \in DOMAIN pay PROVE pay[k].amount \in Int /\ pay[k].amount <= 0
    BY DEF PayAmounts
  <2>1. k \in 0 .. Len(rc) + 1
    BY DEF SalePayments
  <2>2. pay[k] = IF k = 0 THEN [to |-> config.fee_recipient, amount |-> PlatformFee(price)]
                 ELSE IF k \in DOMAIN rc
                 THEN [to |-> rc[k].address, amount |-> RoyaltyAmount(price, rc[k].share_bps)]
                 ELSE [to |-> seller, amount |-> IF Proceeds(price, coll) > 0
                                                THEN Proceeds(price, coll) ELSE 0]
    BY <2>1 DEF SalePayments
  <2> HIDE DEF pay, rc
  <2> QED BY <1>3, <1>4, <1>6, <2>2
<1> HIDE DEF A, pay
<1>8. PayTotal(pay) = 0 /\ \A x : PaidTo(pay, x) = 0
  <2>1. \A x : SumOver({k \in DOMAIN pay : pay[k].to = x}, A) = 0
    <3> TAKE x
    <3>1. \A k \in {j \in DOMAIN pay : pay[j].to = x} : A[k] \in Int /\ A[k] <= 0
      BY <1>7
    <3> QED BY ONLY <3>1, SumOfNothing
  <2>2. SumOver(DOMAIN pay, A) = 0
    BY ONLY <1>7, SumOfNothing
  <2> QED BY <2>1, <2>2 DEF PayTotal, PaidTo, A
<1>9. \A x \in Accounts : bals[x] + 0 - 0 = bals[x]
  OBVIOUS
<1>10. PayAll(bals, payer, pay) = [x \in Accounts |-> bals[x]]
  BY <1>8, <1>9 DEF PayAll
<1> QED BY <1>10 DEF pay

\* A user who buys for any price leaves natural balances and takes no more than
\* the NFTs out of the contract.
LEMMA PricedSale ==
    ASSUME WellFormed, NEW price \in Int, NEW currency \in Tokens, NEW coll \in Collections,
           NEW seller \in Users, NEW payer \in Users, NEW amount \in Nat,
           Trade(currency, payer, SalePayments(price, coll, seller), coll, Market, payer, amount)
    PROVE  /\ BalanceOK'
           /\ \A t \in Tokens : balance'[t][Market] >= balance[t][Market]
                                    - (IF t = coll THEN amount ELSE 0)
<1>1. payer \in Accounts /\ payer # Market /\ Market \in Accounts /\ coll \in Tokens
  BY MarketAssumption DEF Accounts, Tokens
<1>2. balance \in [Tokens -> [Accounts -> Nat]]
  BY DEF WellFormed
<1>3. CASE price \in Nat
  <2>1. /\ BalanceOK'
        /\ \A t \in Tokens : balance'[t][Market] >= balance[t][Market] - 0
                                    - (IF t = coll THEN amount ELSE 0)
    BY <1>1, <1>3, SaleType
  <2>2. \A t \in Tokens : balance[t][Market] \in Nat
    BY <1>1, <1>2
  <2> QED BY <2>1, <2>2
<1>4. CASE price \notin Nat
  <2>1. price <= 0
    BY <1>4
  <2> DEFINE pay == SalePayments(price, coll, seller)
  <2>2. PayAll(balance[currency], payer, pay) = balance[currency]
    BY <1>2, <2>1, NothingPaid
  <2>3. [balance EXCEPT ![currency] = PayAll(balance[currency], payer, pay)] = balance
    <3> HIDE DEF pay
    <3> QED BY <1>2, <2>2
  <2>4. Push(coll, payer, amount)
    <3>1. Trade(currency, payer, pay, coll, Market, payer, amount)
      OBVIOUS
    <3> HIDE DEF pay
    <3> QED BY <2>3, <3>1 DEF Trade, Push
  <2>5. /\ balance' \in [Tokens -> [Accounts -> Nat]]
        /\ balance'[coll][Market] >= balance[coll][Market] - amount
        /\ \A t \in Tokens \ {coll} : balance'[t] = balance[t]
    BY <1>1, <2>4, PushBounds
  <2>6. \A t \in Tokens : balance[t][Market] \in Nat /\ balance'[t][Market] \in Nat
    BY <1>1, <1>2, <2>5
  <2> QED BY <2>5, <2>6 DEF BalanceOK
<1> QED BY <1>3, <1>4

\* Listing, buying and cancelling keep every type.
LEMMA ListingType == WellFormed /\ ListingStep => WellFormed'
<1> SUFFICES ASSUME WellFormed, ListingStep PROVE WellFormed'
  OBVIOUS
<1>1. ASSUME NEW id \in ListingIds, NEW l \in ListingRecord,
             listings' = [listings EXCEPT ![id] = l],
             listing_seq' \in 0 .. MaxListings, BalanceOK', CollectionsOK',
             UNCHANGED <<now, settings, auction_seq, auctions, offer_seq, offers>>
      PROVE  WellFormed'
  <2>1. ListingsOK'
    BY <1>1, TypeParts DEF ListingsOK
  <2> QED BY <1>1, <2>1, PartsUnchanged, TypeParts, TypePartsNext
<1>2. ASSUME NEW u \in Users, NEW coll \in Collections, NEW amount \in NftAmounts,
             NEW price \in Prices, NEW currency \in Currencies,
             ListNft(u, coll, amount, price, currency)
      PROVE  WellFormed'
  <2> DEFINE id == listing_seq + 1
             l == [seller |-> u, collection |-> coll, amount |-> amount,
                   price |-> price, currency |-> currency, status |-> "Active"]
  <2> USE <1>2 DEF ListNft
  <2>1. id \in ListingIds /\ listing_seq' \in 0 .. MaxListings
    BY BoundsType DEF ListingIds
  <2>2. l \in ListingRecord
    BY MarketAssumption DEF ListingRecord
  <2>3. BalanceOK'
    <3>1. coll \in Tokens /\ amount \in Int
      BY MarketAssumption DEF Tokens
    <3> QED BY <3>1, PullBounds DEF BalanceOK
  <2>4. CollectionsOK'
    BY UpdateStatsType
  <2> QED BY <1>1, <2>1, <2>2, <2>3, <2>4
<1>3. ASSUME NEW u \in Users, NEW id \in ListingIds, BuyNft(u, id)
      PROVE  WellFormed'
  <2> DEFINE l == listings[id]
  <2>1. l \in ListingRecord /\ l.price \in Nat /\ l.amount \in Nat /\ l.seller \in Users
        /\ l.collection \in Collections /\ l.currency \in Tokens
    BY <1>3, OpenRecords DEF BuyNft, ListingRecord, Tokens
  <2>2. [l EXCEPT !.status = "Sold"] \in ListingRecord
    BY <2>1 DEF ListingRecord
  <2>3. BalanceOK'
    <3>1. u \in Accounts
      BY DEF Accounts
    <3>2. Trade(l.currency, u, SalePayments(l.price, l.collection, l.seller),
                l.collection, Market, u, l.amount)
      BY <1>3 DEF BuyNft
    <3> HIDE DEF l
    <3> QED BY <2>1, <3>1, <3>2, SaleType
  <2>4. CollectionsOK'
    BY <1>3, UpdateStatsType DEF BuyNft
  <2>5. listings' = [listings EXCEPT ![id] = [l EXCEPT !.status = "Sold"]]
    BY <1>3 DEF BuyNft
  <2> QED BY <1>1, <1>3, <2>2, <2>3, <2>4, <2>5, TypeParts DEF BuyNft, ListingsOK
<1>4. ASSUME NEW u \in Users, NEW id \in ListingIds, CancelListing(u, id)
      PROVE  WellFormed'
  <2> DEFINE l == listings[id]
  <2>1. l \in ListingRecord /\ l.amount \in Int /\ l.seller \in Accounts
        /\ l.collection \in Tokens
    BY <1>4, OpenRecords DEF CancelListing, ListingRecord, Tokens, Accounts
  <2>2. [l EXCEPT !.status = "Cancelled"] \in ListingRecord
    BY <2>1 DEF ListingRecord
  <2>3. BalanceOK'
    BY <1>4, <2>1, PushBounds DEF CancelListing, BalanceOK
  <2>4. CollectionsOK'
    BY <1>4, UpdateStatsType DEF CancelListing
  <2>5. listings' = [listings EXCEPT ![id] = [l EXCEPT !.status = "Cancelled"]]
    BY <1>4 DEF CancelListing
  <2> QED BY <1>1, <1>4, <2>2, <2>3, <2>4, <2>5, TypeParts DEF CancelListing, ListingsOK
<1> QED BY <1>2, <1>3, <1>4 DEF ListingStep

\* The balances after a refund: the contract is down by the standing bid at
\* most, and the accounts stay natural numbers.
LEMMA RefundBounds ==
    ASSUME WellFormed, NEW a \in AuctionRecord,
           CanTransfer(balance[a.currency], Market, a.current_bid)
    PROVE  /\ Refunded(a) \in [Tokens -> [Accounts -> Nat]]
           /\ Refunded(a)[a.currency][Market] >= balance[a.currency][Market] - a.current_bid
           /\ \A t \in Tokens \ {a.currency} : Refunded(a)[t] = balance[t]
<1>1. /\ a.currency \in Tokens /\ a.current_bid \in Nat /\ a.current_bid \in Int
      /\ a.current_bidder \in Accounts /\ Market \in Accounts
  BY DEF AuctionRecord, Tokens, Accounts
<1>2. balance \in [Tokens -> [Accounts -> Nat]]
  BY DEF WellFormed
<1>3. balance[a.currency] \in [Accounts -> Nat] /\ balance[a.currency][Market] \in Nat
  BY <1>1, <1>2
<1> DEFINE T == Transfer(balance[a.currency], Market, a.current_bidder, a.current_bid)
<1>4. T \in [Accounts -> Nat] /\ T[Market] >= balance[a.currency][Market] - a.current_bid
  <2>1. /\ T \in [Accounts -> Nat]
        /\ Market # a.current_bidder => T[Market] = balance[a.currency][Market] - a.current_bid
        /\ Market = a.current_bidder => T[Market] = balance[a.currency][Market]
    BY ONLY <1>1, <1>3, TransferBounds, CanTransfer(balance[a.currency], Market, a.current_bid)
  <2> HIDE DEF T
  <2> QED BY <1>1, <1>3, <2>1
<1>5. CASE a.current_bid > 0
  <2>1. Refunded(a) = [balance EXCEPT ![a.currency] = T]
    BY <1>5 DEF Refunded
  <2> HIDE DEF T
  <2> QED BY <1>1, <1>2, <1>4, <2>1
<1>6. CASE ~(a.current_bid > 0)
  <2>1. Refunded(a) = balance
    BY <1>6 DEF Refunded
  <2> QED BY <1>1, <1>2, <1>3, <2>1
<1> QED BY <1>5, <1>6

\* Outbidding changes what the contract holds by the difference of the bids.
LEMMA PlaceBidBounds ==
    ASSUME WellFormed, NEW bidder \in Users, NEW id \in AuctionIds, NEW bid \in Prices,
           PlaceBid(bidder, id, bid)
    PROVE  LET a == auctions[id] IN
           /\ a \in AuctionRecord /\ bid \in Nat \ {0}
           /\ balance' \in [Tokens -> [Accounts -> Nat]]
           /\ balance'[a.currency][Market]
                >= balance[a.currency][Market] - a.current_bid + bid
           /\ \A t \in Tokens \ {a.currency} : balance'[t] = balance[t]
<1> DEFINE a == auctions[id]
           R == Refunded(a)
           T == Transfer(R[a.currency], bidder, Market, bid)
<1>1. a \in AuctionRecord
  BY OpenRecords DEF PlaceBid
<1>2. bid \in Nat \ {0} /\ bid \in Int
  BY MarketAssumption DEF PlaceBid
<1>3. /\ a.currency \in Tokens /\ a.current_bid \in Nat
      /\ bidder \in Accounts /\ Market \in Accounts
  BY <1>1 DEF AuctionRecord, Tokens, Accounts
<1>4. /\ R \in [Tokens -> [Accounts -> Nat]]
      /\ R[a.currency][Market] >= balance[a.currency][Market] - a.current_bid
      /\ \A t \in Tokens \ {a.currency} : R[t] = balance[t]
  <2>1. CanTransfer(balance[a.currency], Market, a.current_bid)
    BY DEF PlaceBid
  <2> QED BY <1>1, <2>1, RefundBounds
<1>5. CanTransfer(R[a.currency], bidder, bid) /\ balance' = [R EXCEPT ![a.currency] = T]
  BY DEF PlaceBid
<1> HIDE DEF R, a
<1>6. R[a.currency] \in [Accounts -> Nat] /\ R[a.currency][Market] \in Nat
      /\ balance[a.currency][Market] \in Nat
  BY <1>3, <1>4 DEF WellFormed
<1>7. T \in [Accounts -> Nat] /\ T[Market] = R[a.currency][Market] + bid
  <2>1. bidder # Market
    BY MarketAssumption
  <2> QED BY ONLY <1>2, <1>3, <1>5, <1>6, <2>1, TransferBounds
<1> HIDE DEF T
<1>8. balance' \in [Tokens -> [Accounts -> Nat]] /\ balance'[a.currency] = T
      /\ \A t \in Tokens \ {a.currency} : balance'[t] = R[t]
  BY <1>3, <1>4, <1>5, <1>7
<1>9. balance'[a.currency][Market] >= balance[a.currency][Market] - a.current_bid + bid
  BY <1>2, <1>3, <1>4, <1>6, <1>7, <1>8
<1> QED BY <1>1, <1>2, <1>4, <1>8, <1>9 DEF a

\* A record of an auction that replaces another keeps the table well formed.
LEMMA AuctionTableType ==
    ASSUME WellFormed, NEW id \in AuctionIds, NEW a \in AuctionRecord,
           a.start_time < a.end_time,
           auctions' = [auctions EXCEPT ![id] = a], auction_seq' \in 0 .. MaxAuctions
    PROVE  AuctionsOK'
<1>1. auctions' \in [AuctionIds -> AuctionRecord \cup {NoRecord}]
  BY TypeParts DEF AuctionsOK
<1>2. AuctionTerms'
  <2>1. \A i \in AuctionIds : auctions'[i] = IF i = id THEN a ELSE auctions[i]
    BY TypeParts DEF AuctionsOK
  <2> QED BY <2>1, TypeParts DEF AuctionsOK, AuctionTerms
<1> QED BY <1>1, <1>2 DEF AuctionsOK

\* Closing an open auction keeps every type.
LEMMA AuctionClosedType ==
    ASSUME WellFormed, NEW id \in AuctionIds, NEW s \in {"Settled", "Cancelled"},
           auctions[id].status = "Active",
           auctions' = [auctions EXCEPT ![id].status = s],
           collections' = UpdateStats(auctions[id].collection, 0, -1), BalanceOK',
           UNCHANGED <<now, settings, listing_seq, listings, auction_seq, offer_seq, offers>>
    PROVE  WellFormed'
<1> DEFINE a == [auctions[id] EXCEPT !.status = s]
<1>1. auctions[id] \in AuctionRecord
  BY OpenRecords
<1>2. auctions[id].start_time < auctions[id].end_time
  BY DEF WellFormed, AuctionTerms
<1>3. a \in AuctionRecord /\ a.start_time < a.end_time
  BY <1>1, <1>2 DEF AuctionRecord
<1>4. auctions' = [auctions EXCEPT ![id] = a]
  OBVIOUS
<1>5. auction_seq' \in 0 .. MaxAuctions
  BY TypeParts DEF AuctionsOK
<1> HIDE DEF a
<1>6. AuctionsOK'
  BY <1>3, <1>4, <1>5, AuctionTableType
<1>7. CollectionsOK'
  BY UpdateStatsType
<1> QED BY <1>6, <1>7, PartsUnchanged, TypeParts, TypePartsNext

\* Every step of an auction keeps every type.
LEMMA AuctionType == WellFormed /\ AuctionStep => WellFormed'
<1> SUFFICES ASSUME WellFormed, AuctionStep PROVE WellFormed'
  OBVIOUS
<1>1. ASSUME NEW type \in {"English", "Dutch"}, NEW u \in Users, NEW coll \in Collections,
             NEW amount \in NftAmounts, NEW start \in Prices, NEW floor \in Int,
             NEW currency \in Currencies, NEW duration \in Durations, NEW window \in Nat,
             CreateAuction(type, u, coll, amount, start, floor, currency, duration, window)
      PROVE  WellFormed'
  <2> DEFINE id == auction_seq + 1
             a == [auction_type |-> type, seller |-> u, collection |-> coll,
                   amount |-> amount, currency |-> currency,
                   start_price |-> start, floor_price |-> floor,
                   current_bid |-> 0, current_bidder |-> Market, status |-> "Active",
                   start_time |-> now, end_time |-> now + duration,
                   auto_extension_window |-> window]
  <2> USE <1>1 DEF CreateAuction
  <2>1. id \in AuctionIds /\ auction_seq' \in 0 .. MaxAuctions
    BY BoundsType DEF AuctionIds
  <2>2. now \in Nat /\ duration \in Nat \ {0} /\ amount \in Nat /\ start \in Nat \ {0}
    BY MarketAssumption, TypeParts
  <2>3. a \in AuctionRecord /\ a.start_time < a.end_time
    BY <2>2 DEF AuctionRecord, Accounts
  <2>4. auctions' = [auctions EXCEPT ![id] = a]
    OBVIOUS
  <2> HIDE DEF a
  <2>5. AuctionsOK'
    BY <2>1, <2>3, <2>4, AuctionTableType
  <2>6. BalanceOK'
    <3>1. coll \in Tokens /\ amount \in Int
      BY <2>2 DEF Tokens
    <3> QED BY <3>1, PullBounds DEF BalanceOK
  <2>7. CollectionsOK'
    BY UpdateStatsType
  <2> QED BY <2>5, <2>6, <2>7, PartsUnchanged, TypeParts, TypePartsNext
<1>2. ASSUME NEW u \in Users, NEW coll \in Collections, NEW amount \in NftAmounts,
             NEW start \in Prices, NEW currency \in Currencies, NEW duration \in Durations,
             CreateEnglishAuction(u, coll, amount, start, currency, duration)
      PROVE  WellFormed'
  <2>1. config.auto_ext \in Nat /\ 0 \in Int
    BY TypeParts DEF SettingsOK, ConfigRecord
  <2>2. CreateAuction("English", u, coll, amount, start, 0, currency, duration, config.auto_ext)
    BY <1>2 DEF CreateEnglishAuction
  <2> QED BY <1>1, <2>1, <2>2
<1>3. ASSUME NEW u \in Users, NEW coll \in Collections, NEW amount \in NftAmounts,
             NEW start \in Prices, NEW floor \in Prices, NEW currency \in Currencies,
             NEW duration \in Durations,
             CreateDutchAuction(u, coll, amount, start, floor, currency, duration)
      PROVE  WellFormed'
  <2>1. floor \in Int /\ 0 \in Nat
    BY MarketAssumption
  <2>2. CreateAuction("Dutch", u, coll, amount, start, floor, currency, duration, 0)
    BY <1>3 DEF CreateDutchAuction
  <2> QED BY <1>1, <2>1, <2>2
<1>4. ASSUME NEW u \in Users, NEW id \in AuctionIds, NEW bid \in Prices, PlaceBid(u, id, bid)
      PROVE  WellFormed'
  <2> DEFINE a == auctions[id]
             extended == IF a.end_time - now <= a.auto_extension_window
                         THEN now + a.auto_extension_window ELSE a.end_time
             b == [a EXCEPT !.current_bid = bid, !.current_bidder = u, !.end_time = extended]
  <2>1. a \in AuctionRecord /\ bid \in Nat /\ BalanceOK'
    BY <1>4, PlaceBidBounds DEF BalanceOK
  <2>2. a.start_time < a.end_time
    BY <1>4 DEF PlaceBid, WellFormed, AuctionTerms
  <2>3. /\ a.end_time \in Nat /\ a.start_time \in Nat /\ a.auto_extension_window \in Nat
        /\ now \in Nat /\ now < a.end_time
    BY <1>4, <2>1, TypeParts DEF AuctionRecord, PlaceBid
  <2>4. extended \in Nat /\ a.end_time <= extended
    BY <2>3
  <2>5. b \in AuctionRecord /\ b.start_time < b.end_time
    <3> HIDE DEF extended
    <3>1. u \in Accounts
      BY DEF Accounts
    <3>2. b \in AuctionRecord
      BY <2>1, <2>4, <3>1 DEF AuctionRecord
    <3>3. b.start_time = a.start_time /\ b.end_time = extended
      BY <2>1 DEF AuctionRecord
    <3>4. a.start_time < extended
      BY <2>2, <2>3, <2>4
    <3> QED BY <2>2, <3>2, <3>3, <3>4
  <2>6. auctions' = [auctions EXCEPT ![id] = b]
    BY <1>4 DEF PlaceBid
  <2>7. auction_seq' \in 0 .. MaxAuctions
    BY <1>4, TypeParts DEF PlaceBid, AuctionsOK
  <2> HIDE DEF b
  <2>8. AuctionsOK'
    BY <2>5, <2>6, <2>7, AuctionTableType
  <2> QED BY <1>4, <2>1, <2>8, PartsUnchanged, TypeParts, TypePartsNext DEF PlaceBid
<1>5. ASSUME NEW u \in Users, NEW id \in AuctionIds, BuyDutchAuction(u, id)
      PROVE  WellFormed'
  <2> DEFINE a == auctions[id]
             price == DutchPrice(a)
  <2>1. a \in AuctionRecord /\ price \in Int
    BY <1>5, OpenRecords, DutchPriceType DEF BuyDutchAuction
  <2>2. /\ a.currency \in Tokens /\ a.collection \in Collections /\ a.seller \in Users
        /\ a.amount \in Nat /\ u \in Accounts
    BY <2>1 DEF AuctionRecord, Tokens, Accounts
  <2>3. Trade(a.currency, u, SalePayments(price, a.collection, a.seller),
              a.collection, Market, u, a.amount)
    BY <1>5 DEF BuyDutchAuction
  <2> HIDE DEF price, a
  <2>4. BalanceOK'
    BY <2>1, <2>2, <2>3, PricedSale
  <2> QED BY <1>5, <2>4, AuctionClosedType DEF BuyDutchAuction
<1>6. ASSUME NEW u \in Users, NEW id \in AuctionIds, CancelDutchAuction(u, id)
      PROVE  WellFormed'
  <2>1. auctions[id] \in AuctionRecord
    BY <1>6, OpenRecords DEF CancelDutchAuction
  <2>2. /\ auctions[id].collection \in Tokens /\ auctions[id].seller \in Accounts
        /\ auctions[id].amount \in Int
    BY <2>1 DEF AuctionRecord, Tokens, Accounts
  <2>3. BalanceOK'
    BY <1>6, <2>2, PushBounds DEF CancelDutchAuction, BalanceOK
  <2> QED BY <1>6, <2>3, AuctionClosedType DEF CancelDutchAuction
<1>7. ASSUME NEW id \in AuctionIds, SettleWithoutBid(id) \/ SettleWithWinner(id)
      PROVE  WellFormed'
  <2> DEFINE a == auctions[id]
  <2>1. a \in AuctionRecord
    BY <1>7, OpenRecords DEF SettleWithoutBid, SettleWithWinner, Settle, Settleable
  <2>2. /\ a.currency \in Tokens /\ a.collection \in Tokens /\ a.collection \in Collections
        /\ a.seller \in Accounts /\ a.seller \in Users /\ a.amount \in Int /\ a.amount \in Nat
        /\ a.current_bid \in Nat /\ a.current_bidder \in Accounts /\ Market \in Accounts
    BY <2>1 DEF AuctionRecord, Tokens, Accounts
  <2>3. CASE SettleWithoutBid(id)
    <3>1. BalanceOK'
      BY <2>2, <2>3, PushBounds DEF SettleWithoutBid, BalanceOK
    <3> QED BY <2>3, <3>1, AuctionClosedType DEF SettleWithoutBid, Settle, Settleable
  <2>4. CASE SettleWithWinner(id)
    <3>1. Trade(a.currency, Market, SalePayments(a.current_bid, a.collection, a.seller),
                a.collection, Market, a.current_bidder, a.amount)
      BY <2>4 DEF SettleWithWinner
    <3> HIDE DEF a
    <3>2. BalanceOK'
      BY <2>2, <3>1, SaleType
    <3> QED BY <2>4, <3>2, AuctionClosedType DEF SettleWithWinner, Settle, Settleable
  <2> QED BY <1>7, <2>3, <2>4
<1> QED BY <1>2, <1>3, <1>4, <1>5, <1>6, <1>7 DEF AuctionStep

\* The payments of an offer are natural numbers that come to the offer.
LEMMA OfferTotal ==
    ASSUME WellFormed, NEW o \in OfferRecord
    PROVE  /\ DOMAIN OfferPayments(o) = 1 .. 2
           /\ \A k \in 1 .. 2 : OfferPayments(o)[k].amount \in Nat
           /\ PayTotal(OfferPayments(o)) = o.offer_amount
<1> DEFINE pay == OfferPayments(o)
           fee == PlatformFee(o.offer_amount)
           A == PayAmounts(pay)
<1>1. o.offer_amount \in Nat
  BY DEF OfferRecord
<1>2. fee \in Nat /\ fee <= o.offer_amount
  <2>1. fee \in Nat /\ BPS_DENOM * fee <= o.offer_amount * MAX_FEE_BPS
    BY <1>1, FeeBounds
  <2> HIDE DEF fee
  <2> QED BY <1>1, <2>1 DEF BPS_DENOM, MAX_FEE_BPS
<1>3. /\ DOMAIN pay = 1 .. 2
      /\ pay[1].amount = fee
      /\ pay[2].amount = o.offer_amount - fee
  BY DEF OfferPayments
<1> HIDE DEF pay, fee
<1>4. \A k \in 1 .. 2 : k = 1 \/ k = 2
  OBVIOUS
<1>5. \A k \in 1 .. 2 : pay[k].amount \in Nat
  BY <1>1, <1>2, <1>3, <1>4
<1>6. A[1] = fee /\ A[2] = o.offer_amount - fee
  BY <1>3 DEF PayAmounts
<1>7. SumOver({1} \cup {2}, A) = SumOver({1}, A) + A[2]
  <2>1. IsFiniteSet({1}) /\ 2 \notin {1}
    <3>1. IsFiniteSet({1})
      BY ONLY FS_Singleton
    <3>2. 2 \notin {1}
      OBVIOUS
    <3> QED BY ONLY <3>1, <3>2
  <2>2. \A y \in {1} \cup {2} : A[y] \in Nat
    BY <1>1, <1>2, <1>6
  <2> HIDE DEF A
  <2> QED BY ONLY <2>1, <2>2, SumAdd
<1>8. SumOver({1}, A) = A[1]
  BY <1>2, <1>6, SumSingleton
<1>9. DOMAIN pay = {1} \cup {2}
  BY <1>3, <1>4
<1>10. PayTotal(pay) = o.offer_amount
  <2>1. PayTotal(pay) = SumOver(DOMAIN pay, A)
    BY DEF PayTotal
  <2> HIDE DEF A
  <2>2. PayTotal(pay) = SumOver({1} \cup {2}, A)
    BY ONLY <1>9, <2>1
  <2>3. PayTotal(pay) = A[1] + A[2]
    BY ONLY <1>7, <1>8, <2>2
  <2> DEFINE price == o.offer_amount
  <2> HIDE DEF price
  <2>4. price \in Nat /\ fee \in Nat /\ A[1] = fee /\ A[2] = price - fee
    BY <1>1, <1>2, <1>6 DEF price
  <2>5. A[1] + A[2] = price
    BY ONLY <2>4
  <2> QED BY <2>3, <2>5 DEF price
<1> QED BY <1>3, <1>5, <1>10 DEF pay

\* What accepting an offer costs the contract.
LEMMA AcceptBounds ==
    ASSUME WellFormed, NEW caller \in Users, NEW id \in OfferIds, AcceptOffer(caller, id)
    PROVE  LET o == offers[id] IN
           /\ o \in OfferRecord
           /\ balance' \in [Tokens -> [Accounts -> Nat]]
           /\ \A t \in Tokens :
                balance'[t][Market] >= balance[t][Market]
                    - (IF t = o.currency THEN o.offer_amount ELSE 0)
<1> DEFINE o == offers[id]
           pay == OfferPayments(o)
<1>1. o \in OfferRecord
  BY OpenRecords DEF AcceptOffer
<1>2. /\ o.currency \in Tokens /\ o.collection \in Tokens /\ o.amount \in Nat
      /\ o.offerer \in Accounts /\ caller \in Accounts /\ Market \in Accounts
  BY <1>1 DEF OfferRecord, Tokens, Accounts
<1>3. Trade(o.currency, Market, pay, o.collection, caller, o.offerer, o.amount)
  BY DEF AcceptOffer
<1>4. /\ 1 \in Int /\ 2 \in Int /\ 1 <= 2
      /\ DOMAIN pay = 1 .. 2
      /\ \A k \in 1 .. 2 : pay[k].amount \in Nat
      /\ PayTotal(pay) = o.offer_amount
  BY <1>1, OfferTotal
<1>5. caller # Market
  BY MarketAssumption
<1> HIDE DEF pay, o
<1>6. /\ balance' \in [Tokens -> [Accounts -> Nat]]
      /\ \A t \in Tokens :
            balance'[t][Market] >= balance[t][Market]
                - (IF t = o.currency /\ Market = Market THEN PayTotal(pay) ELSE 0)
                - (IF t = o.collection /\ caller = Market THEN o.amount ELSE 0)
  BY ONLY WellFormed, <1>2, <1>3, <1>4, TradeBounds
<1>7. ASSUME NEW t \in Tokens
      PROVE  balance'[t][Market] >= balance[t][Market]
                - (IF t = o.currency THEN o.offer_amount ELSE 0)
  <2>1. balance[t][Market] \in Nat /\ o.offer_amount \in Nat
    BY <1>1, <1>2 DEF WellFormed, OfferRecord
  <2> QED BY <1>4, <1>5, <1>6, <2>1
<1> QED BY <1>1, <1>6, <1>7 DEF o

\* Making, accepting and cancelling offers keep every type.
LEMMA OfferType == WellFormed /\ OfferStep => WellFormed'
<1> SUFFICES ASSUME WellFormed, OfferStep PROVE WellFormed'
  OBVIOUS
<1>1. ASSUME NEW id \in OfferIds, NEW o \in OfferRecord,
             offers' = [offers EXCEPT ![id] = o],
             offer_seq' \in 0 .. MaxOffers, BalanceOK',
             UNCHANGED <<now, settings, collections, listing_seq, listings,
                         auction_seq, auctions>>
      PROVE  WellFormed'
  <2>1. OffersOK'
    BY <1>1, TypeParts DEF OffersOK
  <2> QED BY <1>1, <2>1, PartsUnchanged, TypeParts, TypePartsNext
<1>2. ASSUME NEW u \in Users, NEW recipient \in Users, NEW coll \in Collections,
             NEW amount \in NftAmounts, NEW payment \in Prices, NEW currency \in Currencies,
             NEW duration \in Durations,
             MakeOffer(u, recipient, coll, amount, payment, currency, duration)
      PROVE  WellFormed'
  <2> DEFINE id == offer_seq + 1
             o == [offerer |-> u, recipient |-> recipient, collection |-> coll,
                   amount |-> amount, offer_amount |-> payment, currency |-> currency,
                   status |-> "Pending", expires_at |-> now + duration]
  <2> USE <1>2 DEF MakeOffer
  <2>1. id \in OfferIds /\ offer_seq' \in 0 .. MaxOffers
    BY BoundsType DEF OfferIds
  <2>2. now + duration \in Nat /\ amount \in Nat /\ payment \in Nat \ {0}
    BY MarketAssumption, TypeParts
  <2>3. o \in OfferRecord
    BY <2>2 DEF OfferRecord
  <2>4. BalanceOK'
    <3>1. currency \in Tokens /\ payment \in Int
      BY <2>2 DEF Tokens
    <3> QED BY <3>1, PullBounds DEF BalanceOK
  <2> QED BY <1>1, <2>1, <2>3, <2>4
<1>3. ASSUME NEW u \in Users, NEW id \in OfferIds, AcceptOffer(u, id)
      PROVE  WellFormed'
  <2> DEFINE o == [offers[id] EXCEPT !.status = "Accepted"]
  <2>1. offers[id] \in OfferRecord /\ BalanceOK'
    BY <1>3, AcceptBounds DEF BalanceOK
  <2>2. o \in OfferRecord
    BY <2>1 DEF OfferRecord
  <2>3. offers' = [offers EXCEPT ![id] = o]
    BY <1>3 DEF AcceptOffer
  <2> HIDE DEF o
  <2> QED BY <1>1, <1>3, <2>1, <2>2, <2>3, TypeParts DEF AcceptOffer, OffersOK
<1>4. ASSUME NEW u \in Users, NEW id \in OfferIds, CancelOffer(u, id)
      PROVE  WellFormed'
  <2> DEFINE o == [offers[id] EXCEPT !.status = "Cancelled"]
  <2>1. offers[id] \in OfferRecord
    BY <1>4, OpenRecords DEF CancelOffer, Cancellable
  <2>2. /\ offers[id].currency \in Tokens /\ offers[id].offerer \in Accounts
        /\ offers[id].offer_amount \in Int
    BY <2>1 DEF OfferRecord, Tokens, Accounts
  <2>3. o \in OfferRecord
    BY <2>1 DEF OfferRecord
  <2>4. BalanceOK'
    BY <1>4, <2>2, PushBounds DEF CancelOffer, BalanceOK
  <2>5. offers' = [offers EXCEPT ![id] = o]
    BY <1>4 DEF CancelOffer
  <2> HIDE DEF o
  <2> QED BY <1>1, <1>4, <2>3, <2>4, <2>5, TypeParts DEF CancelOffer, OffersOK
<1> QED BY <1>2, <1>3, <1>4 DEF OfferStep

\* Every step keeps every type.
LEMMA TypeStep == WellFormed /\ [Next]_vars => WellFormed'
<1> SUFFICES ASSUME WellFormed, [Next]_vars PROVE WellFormed'
  OBVIOUS
<1>1. CASE Tick
  <2>1. now' \in Nat
    BY <1>1, TypeParts DEF Tick
  <2> QED BY <1>1, <2>1, PartsUnchanged, TypeParts, TypePartsNext DEF Tick, records
<1>2. CASE UNCHANGED vars
  BY <1>2, PartsUnchanged, TypeParts, TypePartsNext DEF vars
<1> QED BY <1>1, <1>2, AdminType, ListingType, AuctionType, OfferType DEF Next

\* The records are well formed, whatever the floors.
LEMMA AlwaysWellFormed == Spec => []WellFormed
BY InitType, TypeStep, PTL DEF Spec

-----------------------------------------------------------------------------
(* The contract holds what it owes.  Each table's share of the debt is a   *)
(* sum over its identifiers, and a handler replaces one record.            *)

\* The debt of a table of listings, before and after record id becomes l.
LEMMA ListingSums ==
    ASSUME NEW tab \in [ListingIds -> ListingRecord \cup {NoRecord}],
           NEW id \in ListingIds, NEW l \in ListingRecord, NEW t
    PROVE  LET F == [i \in ListingIds |-> ListingDebt(tab[i], t)]
               new == [tab EXCEPT ![id] = l]
               G == [i \in ListingIds |-> ListingDebt(new[i], t)] IN
           /\ SumOver(ListingIds, F) \in Nat
           /\ ListingDebt(l, t) \in Nat /\ ListingDebt(tab[id], t) \in Nat
           /\ SumOver(ListingIds, G)
                = SumOver(ListingIds, F) + ListingDebt(l, t) - ListingDebt(tab[id], t)
<1> DEFINE F == [i \in ListingIds |-> ListingDebt(tab[i], t)]
           new == [tab EXCEPT ![id] = l]
           G == [i \in ListingIds |-> ListingDebt(new[i], t)]
<1>1. ASSUME NEW r \in ListingRecord \cup {NoRecord} PROVE ListingDebt(r, t) \in Nat
  BY DEF ListingDebt, ListingRecord, NoRecord
<1>2. \A i \in ListingIds : F[i] \in Nat
  BY <1>1
<1>3. \A i \in ListingIds : G[i] = IF i = id THEN ListingDebt(l, t) ELSE F[i]
  OBVIOUS
<1>4. ListingDebt(l, t) \in Nat /\ F[id] = ListingDebt(tab[id], t)
  BY <1>1
<1>5. IsFiniteSet(ListingIds)
  BY BoundsType
<1> HIDE DEF F, G
<1>6. \A i \in ListingIds : F[i] \in Nat /\ G[i] \in Nat
  BY <1>2, <1>3, <1>4
<1>7. \A i \in ListingIds \ {id} : F[i] = G[i]
  BY <1>3
<1>8. SumOver(ListingIds, G) = SumOver(ListingIds, F) + G[id] - F[id]
  BY ONLY <1>5, <1>6, <1>7, SumUpdate, id \in ListingIds
<1>9. SumOver(ListingIds, F) \in Nat
  BY <1>2, <1>5, SumType
<1> QED BY <1>2, <1>3, <1>4, <1>8, <1>9 DEF F, G

\* The same of a table of auctions.
LEMMA AuctionSums ==
    ASSUME NEW tab \in [AuctionIds -> AuctionRecord \cup {NoRecord}],
           NEW id \in AuctionIds, NEW a \in AuctionRecord, NEW t
    PROVE  LET F == [i \in AuctionIds |-> AuctionDebt(tab[i], t)]
               new == [tab EXCEPT ![id] = a]
               G == [i \in AuctionIds |-> AuctionDebt(new[i], t)] IN
           /\ SumOver(AuctionIds, F) \in Nat
           /\ AuctionDebt(a, t) \in Nat /\ AuctionDebt(tab[id], t) \in Nat
           /\ SumOver(AuctionIds, G)
                = SumOver(AuctionIds, F) + AuctionDebt(a, t) - AuctionDebt(tab[id], t)
<1> DEFINE F == [i \in AuctionIds |-> AuctionDebt(tab[i], t)]
           new == [tab EXCEPT ![id] = a]
           G == [i \in AuctionIds |-> AuctionDebt(new[i], t)]
<1>1. ASSUME NEW r \in AuctionRecord \cup {NoRecord} PROVE AuctionDebt(r, t) \in Nat
  BY DEF AuctionDebt, AuctionRecord, NoRecord
<1>2. \A i \in AuctionIds : F[i] \in Nat
  BY <1>1
<1>3. \A i \in AuctionIds : G[i] = IF i = id THEN AuctionDebt(a, t) ELSE F[i]
  OBVIOUS
<1>4. AuctionDebt(a, t) \in Nat /\ F[id] = AuctionDebt(tab[id], t)
  BY <1>1
<1>5. IsFiniteSet(AuctionIds)
  BY BoundsType
<1> HIDE DEF F, G
<1>6. \A i \in AuctionIds : F[i] \in Nat /\ G[i] \in Nat
  BY <1>2, <1>3, <1>4
<1>7. \A i \in AuctionIds \ {id} : F[i] = G[i]
  BY <1>3
<1>8. SumOver(AuctionIds, G) = SumOver(AuctionIds, F) + G[id] - F[id]
  BY ONLY <1>5, <1>6, <1>7, SumUpdate, id \in AuctionIds
<1>9. SumOver(AuctionIds, F) \in Nat
  BY <1>2, <1>5, SumType
<1> QED BY <1>2, <1>3, <1>4, <1>8, <1>9 DEF F, G

\* The same of a table of offers.
LEMMA OfferSums ==
    ASSUME NEW tab \in [OfferIds -> OfferRecord \cup {NoRecord}],
           NEW id \in OfferIds, NEW o \in OfferRecord, NEW t
    PROVE  LET F == [i \in OfferIds |-> OfferDebt(tab[i], t)]
               new == [tab EXCEPT ![id] = o]
               G == [i \in OfferIds |-> OfferDebt(new[i], t)] IN
           /\ SumOver(OfferIds, F) \in Nat
           /\ OfferDebt(o, t) \in Nat /\ OfferDebt(tab[id], t) \in Nat
           /\ SumOver(OfferIds, G)
                = SumOver(OfferIds, F) + OfferDebt(o, t) - OfferDebt(tab[id], t)
<1> DEFINE F == [i \in OfferIds |-> OfferDebt(tab[i], t)]
           new == [tab EXCEPT ![id] = o]
           G == [i \in OfferIds |-> OfferDebt(new[i], t)]
<1>1. ASSUME NEW r \in OfferRecord \cup {NoRecord} PROVE OfferDebt(r, t) \in Nat
  BY DEF OfferDebt, OfferRecord, NoRecord
<1>2. \A i \in OfferIds : F[i] \in Nat
  BY <1>1
<1>3. \A i \in OfferIds : G[i] = IF i = id THEN OfferDebt(o, t) ELSE F[i]
  OBVIOUS
<1>4. OfferDebt(o, t) \in Nat /\ F[id] = OfferDebt(tab[id], t)
  BY <1>1
<1>5. IsFiniteSet(OfferIds)
  BY BoundsType
<1> HIDE DEF F, G
<1>6. \A i \in OfferIds : F[i] \in Nat /\ G[i] \in Nat
  BY <1>2, <1>3, <1>4
<1>7. \A i \in OfferIds \ {id} : F[i] = G[i]
  BY <1>3
<1>8. SumOver(OfferIds, G) = SumOver(OfferIds, F) + G[id] - F[id]
  BY ONLY <1>5, <1>6, <1>7, SumUpdate, id \in OfferIds
<1>9. SumOver(OfferIds, F) \in Nat
  BY <1>2, <1>5, SumType
<1> QED BY <1>2, <1>3, <1>4, <1>8, <1>9 DEF F, G

\* What is owed is a natural number, table by table.
LEMMA OwedType ==
    ASSUME WellFormed, NEW t
    PROVE  OwedToSellers(t) \in Nat /\ OwedToAuctions(t) \in Nat /\ OwedToOfferers(t) \in Nat
<1>1. \A r \in ListingRecord \cup {NoRecord} : ListingDebt(r, t) \in Nat
  BY DEF ListingDebt, ListingRecord, NoRecord
<1>2. \A r \in AuctionRecord \cup {NoRecord} : AuctionDebt(r, t) \in Nat
  BY DEF AuctionDebt, AuctionRecord, NoRecord
<1>3. \A r \in OfferRecord \cup {NoRecord} : OfferDebt(r, t) \in Nat
  BY DEF OfferDebt, OfferRecord, NoRecord
<1>4. OwedToSellers(t) \in Nat
  <2> DEFINE F == [i \in ListingIds |-> ListingDebt(listings[i], t)]
  <2>1. \A i \in ListingIds : F[i] \in Nat
    BY <1>1, TypeParts DEF ListingsOK
  <2>2. OwedToSellers(t) = SumOver(ListingIds, F)
    BY DEF OwedToSellers
  <2> HIDE DEF F
  <2> QED BY ONLY <2>1, <2>2, BoundsType, SumType
<1>5. OwedToAuctions(t) \in Nat
  <2> DEFINE F == [i \in AuctionIds |-> AuctionDebt(auctions[i], t)]
  <2>1. \A i \in AuctionIds : F[i] \in Nat
    BY <1>2, TypeParts DEF AuctionsOK
  <2>2. OwedToAuctions(t) = SumOver(AuctionIds, F)
    BY DEF OwedToAuctions
  <2> HIDE DEF F
  <2> QED BY ONLY <2>1, <2>2, BoundsType, SumType
<1>6. OwedToOfferers(t) \in Nat
  <2> DEFINE F == [i \in OfferIds |-> OfferDebt(offers[i], t)]
  <2>1. \A i \in OfferIds : F[i] \in Nat
    BY <1>3, TypeParts DEF OffersOK
  <2>2. OwedToOfferers(t) = SumOver(OfferIds, F)
    BY DEF OwedToOfferers
  <2> HIDE DEF F
  <2> QED BY ONLY <2>1, <2>2, BoundsType, SumType
<1> QED BY <1>4, <1>5, <1>6

\* A table that does not change owes what it owed.
LEMMA OwedUnchanged ==
    ASSUME NEW t
    PROVE  /\ UNCHANGED listings => OwedToSellers(t)' = OwedToSellers(t)
           /\ UNCHANGED auctions => OwedToAuctions(t)' = OwedToAuctions(t)
           /\ UNCHANGED offers => OwedToOfferers(t)' = OwedToOfferers(t)
BY DEF OwedToSellers, OwedToAuctions, OwedToOfferers

\* A handler that replaces one listing keeps custody if the contract's
\* balances follow the debt of that listing.
LEMMA ListingCustody ==
    ASSUME WellFormed, WellFormed', Custody, NEW id \in ListingIds, NEW l \in ListingRecord,
           listings' = [listings EXCEPT ![id] = l], UNCHANGED <<auctions, offers>>,
           \A t \in Tokens : balance'[t][Market]
                >= balance[t][Market] + ListingDebt(l, t) - ListingDebt(listings[id], t)
    PROVE  Custody'
<1> SUFFICES ASSUME NEW t \in Tokens PROVE balance'[t][Market] >= Owed(t)'
  BY DEF Custody
<1>1. listings \in [ListingIds -> ListingRecord \cup {NoRecord}]
  BY TypeParts DEF ListingsOK
<1>2. /\ ListingDebt(l, t) \in Nat /\ ListingDebt(listings[id], t) \in Nat
      /\ OwedToSellers(t)'
            = OwedToSellers(t) + ListingDebt(l, t) - ListingDebt(listings[id], t)
  BY <1>1, ListingSums DEF OwedToSellers
<1>3. OwedToAuctions(t)' = OwedToAuctions(t) /\ OwedToOfferers(t)' = OwedToOfferers(t)
  BY OwedUnchanged
<1>4. balance[t][Market] \in Nat /\ balance'[t][Market] \in Nat
  BY DEF WellFormed, Accounts
<1>5. balance[t][Market] >= OwedToSellers(t) + OwedToAuctions(t) + OwedToOfferers(t)
  BY DEF Custody, Owed
<1>6. Owed(t)' = OwedToSellers(t)' + OwedToAuctions(t)' + OwedToOfferers(t)'
  BY DEF Owed
<1> QED BY <1>2, <1>3, <1>4, <1>5, <1>6, OwedType

\* The same of a handler that replaces one auction.
LEMMA AuctionCustody ==
    ASSUME WellFormed, WellFormed', Custody, NEW id \in AuctionIds, NEW a \in AuctionRecord,
           auctions' = [auctions EXCEPT ![id] = a], UNCHANGED <<listings, offers>>,
           \A t \in Tokens : balance'[t][Market]
                >= balance[t][Market] + AuctionDebt(a, t) - AuctionDebt(auctions[id], t)
    PROVE  Custody'
<1> SUFFICES ASSUME NEW t \in Tokens PROVE balance'[t][Market] >= Owed(t)'
  BY DEF Custody
<1>1. auctions \in [AuctionIds -> AuctionRecord \cup {NoRecord}]
  BY TypeParts DEF AuctionsOK
<1>2. /\ AuctionDebt(a, t) \in Nat /\ AuctionDebt(auctions[id], t) \in Nat
      /\ OwedToAuctions(t)'
            = OwedToAuctions(t) + AuctionDebt(a, t) - AuctionDebt(auctions[id], t)
  BY <1>1, AuctionSums DEF OwedToAuctions
<1>3. OwedToSellers(t)' = OwedToSellers(t) /\ OwedToOfferers(t)' = OwedToOfferers(t)
  BY OwedUnchanged
<1>4. balance[t][Market] \in Nat /\ balance'[t][Market] \in Nat
  BY DEF WellFormed, Accounts
<1>5. balance[t][Market] >= OwedToSellers(t) + OwedToAuctions(t) + OwedToOfferers(t)
  BY DEF Custody, Owed
<1>6. Owed(t)' = OwedToSellers(t)' + OwedToAuctions(t)' + OwedToOfferers(t)'
  BY DEF Owed
<1> QED BY <1>2, <1>3, <1>4, <1>5, <1>6, OwedType

\* The same of a handler that replaces one offer.
LEMMA OfferCustody ==
    ASSUME WellFormed, WellFormed', Custody, NEW id \in OfferIds, NEW o \in OfferRecord,
           offers' = [offers EXCEPT ![id] = o], UNCHANGED <<listings, auctions>>,
           \A t \in Tokens : balance'[t][Market]
                >= balance[t][Market] + OfferDebt(o, t) - OfferDebt(offers[id], t)
    PROVE  Custody'
<1> SUFFICES ASSUME NEW t \in Tokens PROVE balance'[t][Market] >= Owed(t)'
  BY DEF Custody
<1>1. offers \in [OfferIds -> OfferRecord \cup {NoRecord}]
  BY TypeParts DEF OffersOK
<1>2. /\ OfferDebt(o, t) \in Nat /\ OfferDebt(offers[id], t) \in Nat
      /\ OwedToOfferers(t)'
            = OwedToOfferers(t) + OfferDebt(o, t) - OfferDebt(offers[id], t)
  BY <1>1, OfferSums DEF OwedToOfferers
<1>3. OwedToSellers(t)' = OwedToSellers(t) /\ OwedToAuctions(t)' = OwedToAuctions(t)
  BY OwedUnchanged
<1>4. balance[t][Market] \in Nat /\ balance'[t][Market] \in Nat
  BY DEF WellFormed, Accounts
<1>5. balance[t][Market] >= OwedToSellers(t) + OwedToAuctions(t) + OwedToOfferers(t)
  BY DEF Custody, Owed
<1>6. Owed(t)' = OwedToSellers(t)' + OwedToAuctions(t)' + OwedToOfferers(t)'
  BY DEF Owed
<1> QED BY <1>2, <1>3, <1>4, <1>5, <1>6, OwedType

\* Listings: what comes in is owed, and what goes out was owed.
LEMMA ListingStepCustody ==
    ASSUME WellFormed, WellFormed', Custody, ListingStep
    PROVE  Custody'
<1>1. balance \in [Tokens -> [Accounts -> Nat]] /\ balance' \in [Tokens -> [Accounts -> Nat]]
      /\ Market \in Accounts
  BY DEF WellFormed, Accounts
<1>2. ASSUME NEW u \in Users, NEW coll \in Collections, NEW amount \in NftAmounts,
             NEW price \in Prices, NEW currency \in Currencies,
             ListNft(u, coll, amount, price, currency)
      PROVE  Custody'
  <2> DEFINE id == listing_seq + 1
             l == [seller |-> u, collection |-> coll, amount |-> amount,
                   price |-> price, currency |-> currency, status |-> "Active"]
  <2>1. /\ id \in ListingIds /\ listings' = [listings EXCEPT ![id] = l]
        /\ UNCHANGED <<auctions, offers>>
    BY <1>2 DEF ListNft
  <2>2. l \in ListingRecord /\ amount \in Nat
    BY <1>2, MarketAssumption DEF ListNft, ListingRecord
  <2>3. \A t \in Tokens : ListingDebt(l, t) = IF t = coll THEN amount ELSE 0
    BY DEF ListingDebt
  <2>4. \A t \in Tokens : ListingDebt(listings[id], t) \in Nat
    BY <2>1, <2>2, ListingSums, TypeParts DEF ListingsOK
  <2>5. /\ balance'[coll][Market] = balance[coll][Market] + amount
        /\ \A t \in Tokens \ {coll} : balance'[t] = balance[t]
    <3>1. coll \in Tokens /\ amount \in Int
      BY <2>2 DEF Tokens
    <3> QED BY <1>2, <3>1, PullBounds DEF ListNft
  <2> HIDE DEF l, id
  <2>6. ASSUME NEW t \in Tokens
        PROVE  balance'[t][Market]
                >= balance[t][Market] + ListingDebt(l, t) - ListingDebt(listings[id], t)
    <3>1. balance[t][Market] \in Nat
      BY <1>1
    <3> QED BY <2>2, <2>3, <2>4, <2>5, <3>1
  <2> QED BY <2>1, <2>2, <2>6, ListingCustody
<1>3. ASSUME NEW id \in ListingIds, NEW s \in {"Sold", "Cancelled"},
             listings[id].status = "Active",
             listings' = [listings EXCEPT ![id].status = s],
             UNCHANGED <<auctions, offers>>,
             \A t \in Tokens : balance'[t][Market] >= balance[t][Market]
                - (IF t = listings[id].collection THEN listings[id].amount ELSE 0)
      PROVE  Custody'
  <2> DEFINE l == [listings[id] EXCEPT !.status = s]
  <2>1. listings[id] \in ListingRecord /\ listings[id].amount \in Nat
    BY <1>3, OpenRecords DEF ListingRecord
  <2>2. l \in ListingRecord /\ l.status = s /\ listings' = [listings EXCEPT ![id] = l]
    BY <1>3, <2>1 DEF ListingRecord
  <2> HIDE DEF l
  <2>3. ASSUME NEW t \in Tokens
        PROVE  balance'[t][Market]
                >= balance[t][Market] + ListingDebt(l, t) - ListingDebt(listings[id], t)
    <3>1. balance[t][Market] \in Nat
      BY <1>1
    <3>2. ListingDebt(l, t) = 0
      BY <2>2 DEF ListingDebt
    <3>3. ListingDebt(listings[id], t)
            = IF t = listings[id].collection THEN listings[id].amount ELSE 0
      BY <1>3 DEF ListingDebt
    <3> QED BY <1>3, <2>1, <3>1, <3>2, <3>3
  <2> QED BY <1>3, <2>2, <2>3, ListingCustody
<1>4. ASSUME NEW u \in Users, NEW id \in ListingIds, BuyNft(u, id)
      PROVE  Custody'
  <2> DEFINE l == listings[id]
  <2>1. l \in ListingRecord
    BY <1>4, OpenRecords DEF BuyNft
  <2>2. /\ l.price \in Nat /\ l.amount \in Nat /\ l.seller \in Users
        /\ l.collection \in Collections /\ l.currency \in Tokens
        /\ u \in Accounts /\ u # Market
    BY <2>1, MarketAssumption DEF ListingRecord, Tokens, Accounts
  <2>3. Trade(l.currency, u, SalePayments(l.price, l.collection, l.seller),
              l.collection, Market, u, l.amount)
    BY <1>4 DEF BuyNft
  <2>4. \A t \in Tokens : balance'[t][Market] >= balance[t][Market]
                - (IF t = l.collection THEN l.amount ELSE 0)
    <3> HIDE DEF l
    <3> SUFFICES ASSUME NEW t \in Tokens
                 PROVE  balance'[t][Market] >= balance[t][Market]
                            - (IF t = l.collection THEN l.amount ELSE 0)
      OBVIOUS
    <3>1. balance'[t][Market] >= balance[t][Market] - 0
                - (IF t = l.collection THEN l.amount ELSE 0)
      BY <1>1, <2>2, <2>3, SaleType
    <3>2. balance[t][Market] \in Nat
      BY <1>1
    <3> QED BY <2>2, <3>1, <3>2
  <2> QED BY <1>3, <1>4, <2>4 DEF BuyNft
<1>5. ASSUME NEW u \in Users, NEW id \in ListingIds, CancelListing(u, id)
      PROVE  Custody'
  <2> DEFINE l == listings[id]
  <2>1. l \in ListingRecord
    BY <1>5, OpenRecords DEF CancelListing
  <2>2. l.amount \in Nat /\ l.amount \in Int /\ l.seller \in Accounts /\ l.collection \in Tokens
    BY <2>1 DEF ListingRecord, Tokens, Accounts
  <2>3. /\ balance'[l.collection][Market] >= balance[l.collection][Market] - l.amount
        /\ \A t \in Tokens \ {l.collection} : balance'[t] = balance[t]
    BY <1>5, <2>2, PushBounds DEF CancelListing
  <2>4. \A t \in Tokens : balance'[t][Market] >= balance[t][Market]
                - (IF t = l.collection THEN l.amount ELSE 0)
    <3> HIDE DEF l
    <3> QED BY <1>1, <2>2, <2>3
  <2> QED BY <1>3, <1>5, <2>4 DEF CancelListing
<1> QED BY <1>2, <1>4, <1>5 DEF ListingStep

\* Offers: the escrow comes in and goes out whole.
LEMMA OfferStepCustody ==
    ASSUME WellFormed, WellFormed', Custody, OfferStep
    PROVE  Custody'
<1>1. balance \in [Tokens -> [Accounts -> Nat]] /\ balance' \in [Tokens -> [Accounts -> Nat]]
      /\ Market \in Accounts
  BY DEF WellFormed, Accounts
<1>2. ASSUME NEW u \in Users, NEW recipient \in Users, NEW coll \in Collections,
             NEW amount \in NftAmounts, NEW payment \in Prices, NEW currency \in Currencies,
             NEW duration \in Durations,
             MakeOffer(u, recipient, coll, amount, payment, currency, duration)
      PROVE  Custody'
  <2> DEFINE id == offer_seq + 1
             o == [offerer |-> u, recipient |-> recipient, collection |-> coll,
                   amount |-> amount, offer_amount |-> payment, currency |-> currency,
                   status |-> "Pending", expires_at |-> now + duration]
  <2>1. /\ id \in OfferIds /\ offers' = [offers EXCEPT ![id] = o]
        /\ UNCHANGED <<listings, auctions>>
    BY <1>2 DEF MakeOffer
  <2>2. o \in OfferRecord /\ payment \in Nat
    BY <1>2, MarketAssumption, TypeParts DEF MakeOffer, OfferRecord
  <2>3. \A t \in Tokens : OfferDebt(o, t) = IF t = currency THEN payment ELSE 0
    BY DEF OfferDebt
  <2>4. \A t \in Tokens : OfferDebt(offers[id], t) \in Nat
    BY <2>1, <2>2, OfferSums, TypeParts DEF OffersOK
  <2>5. /\ balance'[currency][Market] = balance[currency][Market] + payment
        /\ \A t \in Tokens \ {currency} : balance'[t] = balance[t]
    <3>1. currency \in Tokens /\ payment \in Int
      BY <2>2 DEF Tokens
    <3> QED BY <1>2, <3>1, PullBounds DEF MakeOffer
  <2> HIDE DEF o, id
  <2>6. ASSUME NEW t \in Tokens
        PROVE  balance'[t][Market]
                >= balance[t][Market] + OfferDebt(o, t) - OfferDebt(offers[id], t)
    <3>1. balance[t][Market] \in Nat
      BY <1>1
    <3> QED BY <2>2, <2>3, <2>4, <2>5, <3>1
  <2> QED BY <2>1, <2>2, <2>6, OfferCustody
<1>3. ASSUME NEW id \in OfferIds, NEW s \in {"Accepted", "Cancelled"},
             offers[id].status = "Pending",
             offers' = [offers EXCEPT ![id].status = s],
             UNCHANGED <<listings, auctions>>,
             \A t \in Tokens : balance'[t][Market] >= balance[t][Market]
                - (IF t = offers[id].currency THEN offers[id].offer_amount ELSE 0)
      PROVE  Custody'
  <2> DEFINE o == [offers[id] EXCEPT !.status = s]
  <2>1. offers[id] \in OfferRecord /\ offers[id].offer_amount \in Nat
    BY <1>3, OpenRecords DEF OfferRecord
  <2>2. o \in OfferRecord /\ o.status = s /\ offers' = [offers EXCEPT ![id] = o]
    BY <1>3, <2>1 DEF OfferRecord
  <2> HIDE DEF o
  <2>3. ASSUME NEW t \in Tokens
        PROVE  balance'[t][Market]
                >= balance[t][Market] + OfferDebt(o, t) - OfferDebt(offers[id], t)
    <3>1. balance[t][Market] \in Nat
      BY <1>1
    <3>2. OfferDebt(o, t) = 0
      BY <2>2 DEF OfferDebt
    <3>3. OfferDebt(offers[id], t)
            = IF t = offers[id].currency THEN offers[id].offer_amount ELSE 0
      BY <1>3 DEF OfferDebt
    <3> QED BY <1>3, <2>1, <3>1, <3>2, <3>3
  <2> QED BY <1>3, <2>2, <2>3, OfferCustody
<1>4. ASSUME NEW u \in Users, NEW id \in OfferIds, AcceptOffer(u, id)
      PROVE  Custody'
  BY <1>3, <1>4, AcceptBounds DEF AcceptOffer
<1>5. ASSUME NEW u \in Users, NEW id \in OfferIds, CancelOffer(u, id)
      PROVE  Custody'
  <2> DEFINE o == offers[id]
  <2>1. o \in OfferRecord
    BY <1>5, OpenRecords DEF CancelOffer, Cancellable
  <2>2. /\ o.offer_amount \in Nat /\ o.offer_amount \in Int
        /\ o.offerer \in Accounts /\ o.currency \in Tokens
    BY <2>1 DEF OfferRecord, Tokens, Accounts
  <2>3. /\ balance'[o.currency][Market] >= balance[o.currency][Market] - o.offer_amount
        /\ \A t \in Tokens \ {o.currency} : balance'[t] = balance[t]
    BY <1>5, <2>2, PushBounds DEF CancelOffer
  <2>4. \A t \in Tokens : balance'[t][Market] >= balance[t][Market]
                - (IF t = o.currency THEN o.offer_amount ELSE 0)
    <3> HIDE DEF o
    <3> QED BY <1>1, <2>2, <2>3
  <2> QED BY <1>3, <1>5, <2>4 DEF CancelOffer, Cancellable
<1> QED BY <1>2, <1>4, <1>5 DEF OfferStep

\* Closing an auction that gives out its NFTs and its standing bid at most.
LEMMA AuctionClosedCustody ==
    ASSUME WellFormed, WellFormed', Custody, NEW id \in AuctionIds, NEW s \in {"Settled", "Cancelled"},
           auctions[id].status = "Active",
           auctions' = [auctions EXCEPT ![id].status = s], UNCHANGED <<listings, offers>>,
           \A t \in Tokens : balance'[t][Market] >= balance[t][Market]
              - (IF t = auctions[id].collection THEN auctions[id].amount ELSE 0)
              - (IF t = auctions[id].currency THEN auctions[id].current_bid ELSE 0)
    PROVE  Custody'
<1> DEFINE a == [auctions[id] EXCEPT !.status = s]
           nfts(t) == IF t = auctions[id].collection THEN auctions[id].amount ELSE 0
           bid(t) == IF t = auctions[id].currency THEN auctions[id].current_bid ELSE 0
<1>1. auctions[id] \in AuctionRecord
  BY OpenRecords
<1>2. a \in AuctionRecord /\ a.status = s /\ auctions' = [auctions EXCEPT ![id] = a]
  BY <1>1 DEF AuctionRecord
<1>3. auctions[id].amount \in Nat /\ auctions[id].current_bid \in Nat
  BY <1>1 DEF AuctionRecord
<1> HIDE DEF a
<1>4. ASSUME NEW t \in Tokens
      PROVE  balance'[t][Market]
                >= balance[t][Market] + AuctionDebt(a, t) - AuctionDebt(auctions[id], t)
  <2>1. balance[t][Market] \in Nat /\ balance'[t][Market] \in Nat
    BY DEF WellFormed, Accounts
  <2>2. AuctionDebt(a, t) = 0
    BY <1>2 DEF AuctionDebt
  <2>3. AuctionDebt(auctions[id], t) = nfts(t) + bid(t)
    BY DEF AuctionDebt
  <2>4. nfts(t) \in Nat /\ bid(t) \in Nat
    BY <1>3
  <2>5. balance'[t][Market] >= balance[t][Market] - nfts(t) - bid(t)
    OBVIOUS
  <2> HIDE DEF nfts, bid
  <2> QED BY <2>1, <2>2, <2>3, <2>4, <2>5
<1> QED BY <1>2, <1>4, AuctionCustody

\* Auctions: a bid replaces the one it refunds, and a settlement pays out the
\* standing bid, which is where the royalties must leave room for the fee.
LEMMA AuctionStepCustody ==
    ASSUME WellFormed, WellFormed', Custody, RoyaltiesLeaveRoom, AuctionStep
    PROVE  Custody'
<1>1. balance \in [Tokens -> [Accounts -> Nat]] /\ balance' \in [Tokens -> [Accounts -> Nat]]
      /\ Market \in Accounts
  BY DEF WellFormed, Accounts
<1>2. ASSUME NEW type \in {"English", "Dutch"}, NEW u \in Users, NEW coll \in Collections,
             NEW amount \in NftAmounts, NEW start, NEW floor,
             NEW currency, NEW duration, NEW window,
             CreateAuction(type, u, coll, amount, start, floor, currency, duration, window)
      PROVE  Custody'
  <2> DEFINE id == auction_seq + 1
             a == [auction_type |-> type, seller |-> u, collection |-> coll,
                   amount |-> amount, currency |-> currency,
                   start_price |-> start, floor_price |-> floor,
                   current_bid |-> 0, current_bidder |-> Market, status |-> "Active",
                   start_time |-> now, end_time |-> now + duration,
                   auto_extension_window |-> window]
  <2>1. /\ id \in AuctionIds /\ auctions' = [auctions EXCEPT ![id] = a]
        /\ UNCHANGED <<listings, offers>>
    BY <1>2 DEF CreateAuction
  <2>2. amount \in Nat /\ coll \in Tokens /\ amount \in Int
    BY MarketAssumption DEF Tokens
  <2>3. a \in AuctionRecord
    <3>1. auctions \in [AuctionIds -> AuctionRecord \cup {NoRecord}]
          /\ auctions' \in [AuctionIds -> AuctionRecord \cup {NoRecord}]
      BY TypeParts, TypePartsNext DEF AuctionsOK
    <3>2. auctions'[id] = a
      BY <2>1, <3>1
    <3>3. a # NoRecord
      BY DEF NoRecord
    <3> HIDE DEF a
    <3> QED BY <2>1, <3>1, <3>2, <3>3
  <2>4. \A t \in Tokens : AuctionDebt(a, t) = IF t = coll THEN amount ELSE 0
    BY <2>2 DEF AuctionDebt
  <2>5. \A t \in Tokens : AuctionDebt(auctions[id], t) \in Nat
    BY <2>1, <2>3, AuctionSums, TypeParts DEF AuctionsOK
  <2>6. /\ balance'[coll][Market] = balance[coll][Market] + amount
        /\ \A t \in Tokens \ {coll} : balance'[t] = balance[t]
    BY <1>2, <2>2, PullBounds DEF CreateAuction
  <2> HIDE DEF a, id
  <2>7. ASSUME NEW t \in Tokens
        PROVE  balance'[t][Market]
                >= balance[t][Market] + AuctionDebt(a, t) - AuctionDebt(auctions[id], t)
    <3>1. balance[t][Market] \in Nat
      BY <1>1
    <3> QED BY <2>2, <2>4, <2>5, <2>6, <3>1
  <2> QED BY <2>1, <2>3, <2>7, AuctionCustody
<1>3. ASSUME NEW u \in Users, NEW id \in AuctionIds, NEW bid \in Prices, PlaceBid(u, id, bid)
      PROVE  Custody'
  <2> DEFINE a == auctions[id]
             b == auctions'[id]
             end == IF a.end_time - now <= a.auto_extension_window
                    THEN now + a.auto_extension_window ELSE a.end_time
  <2>1. /\ a \in AuctionRecord /\ bid \in Nat
        /\ balance'[a.currency][Market] >= balance[a.currency][Market] - a.current_bid + bid
        /\ \A t \in Tokens \ {a.currency} : balance'[t] = balance[t]
    BY <1>3, PlaceBidBounds
  <2>2. auctions \in [AuctionIds -> AuctionRecord \cup {NoRecord}]
    BY TypeParts DEF AuctionsOK
  <2>3. b = [a EXCEPT !.current_bid = bid, !.current_bidder = u, !.end_time = end]
        /\ auctions' = [auctions EXCEPT ![id] = b] /\ a.status = "Active"
    BY <1>3, <2>2 DEF PlaceBid
  <2>4. /\ b.status = "Active" /\ b.collection = a.collection /\ b.amount = a.amount
        /\ b.currency = a.currency /\ b.current_bid = bid
    BY <2>1, <2>3 DEF AuctionRecord
  <2>5. b \in AuctionRecord
    <3>1. auctions'[id] \in AuctionRecord \cup {NoRecord}
      BY TypePartsNext DEF AuctionsOK
    <3> QED BY <2>4, <3>1 DEF NoRecord
  <2>6. UNCHANGED <<listings, offers>>
    BY <1>3 DEF PlaceBid
  <2>7. a.amount \in Nat /\ a.current_bid \in Nat
    BY <2>1 DEF AuctionRecord
  <2>8. ASSUME NEW t \in Tokens
        PROVE  balance'[t][Market]
                >= balance[t][Market] + AuctionDebt(b, t) - AuctionDebt(a, t)
    <3> DEFINE nfts == IF a.collection = t THEN a.amount ELSE 0
    <3>1. balance[t][Market] \in Nat /\ balance'[t][Market] \in Nat /\ nfts \in Nat
      BY <1>1, <2>7
    <3>2. AuctionDebt(a, t) = nfts + (IF a.currency = t THEN a.current_bid ELSE 0)
      BY <2>3 DEF AuctionDebt
    <3>3. AuctionDebt(b, t) = nfts + (IF a.currency = t THEN bid ELSE 0)
      <4> HIDE DEF b, a
      <4> QED BY <2>4 DEF AuctionDebt
    <3> HIDE DEF nfts, b, a
    <3> QED BY <2>1, <2>7, <3>1, <3>2, <3>3
  <2> HIDE DEF b
  <2> QED BY <2>3, <2>5, <2>6, <2>8, AuctionCustody
<1>4. ASSUME NEW u \in Users, NEW id \in AuctionIds, BuyDutchAuction(u, id)
      PROVE  Custody'
  <2> DEFINE a == auctions[id]
             price == DutchPrice(a)
  <2>1. a \in AuctionRecord /\ price \in Int
    BY <1>4, OpenRecords, DutchPriceType DEF BuyDutchAuction
  <2>2. /\ a.currency \in Tokens /\ a.collection \in Collections /\ a.seller \in Users
        /\ a.amount \in Nat /\ a.current_bid \in Nat /\ u \in Accounts /\ u # Market
    BY <2>1, MarketAssumption DEF AuctionRecord, Tokens, Accounts
  <2>3. Trade(a.currency, u, SalePayments(price, a.collection, a.seller),
              a.collection, Market, u, a.amount)
    BY <1>4 DEF BuyDutchAuction
  <2>4. ASSUME NEW t \in Tokens
        PROVE  balance'[t][Market] >= balance[t][Market]
                    - (IF t = a.collection THEN a.amount ELSE 0)
                    - (IF t = a.currency THEN a.current_bid ELSE 0)
    <3> HIDE DEF a, price
    <3>1. balance'[t][Market] >= balance[t][Market]
                - (IF t = a.collection THEN a.amount ELSE 0)
      BY <2>1, <2>2, <2>3, PricedSale
    <3>2. balance[t][Market] \in Nat /\ balance'[t][Market] \in Nat
      BY <1>1
    <3> QED BY <2>2, <3>1, <3>2
  <2> QED BY <1>4, <2>4, AuctionClosedCustody DEF BuyDutchAuction
<1>5. ASSUME NEW id \in AuctionIds, NEW s \in {"Settled", "Cancelled"},
             auctions[id].status = "Active",
             auctions' = [auctions EXCEPT ![id].status = s], UNCHANGED <<listings, offers>>,
             Push(auctions[id].collection, auctions[id].seller, auctions[id].amount)
      PROVE  Custody'
  <2> DEFINE a == auctions[id]
  <2>1. a \in AuctionRecord
    BY <1>5, OpenRecords
  <2>2. /\ a.amount \in Nat /\ a.amount \in Int /\ a.current_bid \in Nat
        /\ a.seller \in Accounts /\ a.collection \in Tokens
    BY <2>1 DEF AuctionRecord, Tokens, Accounts
  <2>3. /\ balance'[a.collection][Market] >= balance[a.collection][Market] - a.amount
        /\ \A t \in Tokens \ {a.collection} : balance'[t] = balance[t]
    BY <1>5, <2>2, PushBounds
  <2>4. ASSUME NEW t \in Tokens
        PROVE  balance'[t][Market] >= balance[t][Market]
                    - (IF t = a.collection THEN a.amount ELSE 0)
                    - (IF t = a.currency THEN a.current_bid ELSE 0)
    <3> HIDE DEF a
    <3>1. balance[t][Market] \in Nat /\ balance'[t][Market] \in Nat
      BY <1>1
    <3> QED BY <2>2, <2>3, <3>1
  <2> QED BY <1>5, <2>4, AuctionClosedCustody
<1>6. ASSUME NEW id \in AuctionIds, SettleWithWinner(id)
      PROVE  Custody'
  <2> DEFINE a == auctions[id]
  <2>1. a \in AuctionRecord
    BY <1>6, OpenRecords DEF SettleWithWinner, Settle, Settleable
  <2>2. /\ a.currency \in Tokens /\ a.collection \in Collections /\ a.seller \in Users
        /\ a.amount \in Nat /\ a.current_bid \in Nat /\ a.current_bidder \in Accounts
        /\ Market \in Accounts
    BY <2>1 DEF AuctionRecord, Tokens, Accounts
  <2>3. Trade(a.currency, Market, SalePayments(a.current_bid, a.collection, a.seller),
              a.collection, Market, a.current_bidder, a.amount)
    BY <1>6 DEF SettleWithWinner
  <2>4. PayTotal(SalePayments(a.current_bid, a.collection, a.seller)) = a.current_bid
    BY <2>2, SaleTotal
  <2>5. ASSUME NEW t \in Tokens
        PROVE  balance'[t][Market] >= balance[t][Market]
                    - (IF t = a.collection THEN a.amount ELSE 0)
                    - (IF t = a.currency THEN a.current_bid ELSE 0)
    <3> HIDE DEF a
    <3>1. balance'[t][Market] >= balance[t][Market]
                - (IF t = a.currency THEN a.current_bid ELSE 0)
                - (IF t = a.collection THEN a.amount ELSE 0)
      BY <2>2, <2>3, <2>4, SaleType
    <3>2. balance[t][Market] \in Nat /\ balance'[t][Market] \in Nat
      BY <1>1
    <3> QED BY <2>2, <3>1, <3>2
  <2> QED BY <1>6, <2>5, AuctionClosedCustody DEF SettleWithWinner, Settle, Settleable
<1>7. ASSUME NEW id \in AuctionIds, SettleWithoutBid(id) PROVE Custody'
  BY <1>5, <1>7 DEF SettleWithoutBid, Settle, Settleable
<1>8. ASSUME NEW u \in Users, NEW id \in AuctionIds, CancelDutchAuction(u, id) PROVE Custody'
  BY <1>5, <1>8 DEF CancelDutchAuction
<1> QED BY <1>2, <1>3, <1>4, <1>6, <1>7, <1>8
        DEF AuctionStep, CreateEnglishAuction, CreateDutchAuction

\* Nothing is owed at first.
LEMMA InitCustody == Init => Custody
<1> SUFFICES ASSUME Init, NEW t \in Tokens PROVE balance[t][Market] >= Owed(t)
  BY DEF Custody
<1>1. balance[t][Market] \in Nat
  BY MarketAssumption DEF Init, Accounts
<1>2. ASSUME NEW S, NEW F, \A i \in S : F[i] = 0
      PROVE  SumOver(S, F) = 0
  <2>1. Units(S, F) = {}
    BY <1>2 DEF Units
  <2> QED BY <2>1, FS_EmptySet DEF SumOver
<1>3. OwedToSellers(t) = 0
  <2>1. \A i \in ListingIds : [j \in ListingIds |-> ListingDebt(listings[j], t)][i] = 0
    BY DEF Init, ListingDebt, NoRecord
  <2> QED BY <1>2, <2>1 DEF OwedToSellers
<1>4. OwedToAuctions(t) = 0
  <2>1. \A i \in AuctionIds : [j \in AuctionIds |-> AuctionDebt(auctions[j], t)][i] = 0
    BY DEF Init, AuctionDebt, NoRecord
  <2> QED BY <1>2, <2>1 DEF OwedToAuctions
<1>5. OwedToOfferers(t) = 0
  <2>1. \A i \in OfferIds : [j \in OfferIds |-> OfferDebt(offers[j], t)][i] = 0
    BY DEF Init, OfferDebt, NoRecord
  <2> QED BY <1>2, <2>1 DEF OwedToOfferers
<1> QED BY <1>1, <1>3, <1>4, <1>5 DEF Owed

\* Steps that touch no record and no balance change nothing about custody.
LEMMA IdleCustody ==
    ASSUME Custody, UNCHANGED <<listings, auctions, offers, balance>>
    PROVE  Custody'
<1>1. \A t \in Tokens : Owed(t)' = Owed(t)
  BY OwedUnchanged DEF Owed
<1> QED BY <1>1 DEF Custody

\* Every step keeps custody.
LEMMA CustodyStep ==
    ASSUME RoyaltiesLeaveRoom, WellFormed, WellFormed', Custody, [Next]_vars
    PROVE  Custody'
<1>1. CASE Tick
  BY <1>1, IdleCustody DEF Tick, records
<1>2. CASE AdminStep
  BY <1>2, IdleCustody DEF AdminStep, Initialize, SetPlatformFee, SetFeeRecipient,
      SetBidIncrement, SetAutoExtension, SetCurrency, RegisterCollection,
      SetCollectionRoyalties, records
<1>3. CASE UNCHANGED vars
  BY <1>3, IdleCustody DEF vars
<1> QED BY <1>1, <1>2, <1>3, ListingStepCustody, AuctionStepCustody, OfferStepCustody DEF Next

\* Whatever users, bids, offers, prices and settings there are: if no royalty
\* list can crowd out the fee, the contract holds every listed NFT, standing
\* bid and pending offer in full.  (place_bid, settle_english_auction,
\* accept_offer and cancel_offer all pay out of one pot.)
THEOREM CustodyHolds == ASSUME RoyaltiesLeaveRoom PROVE Spec => []Custody
<1>1. WellFormed /\ WellFormed' /\ Custody /\ [Next]_vars => Custody'
  BY CustodyStep
<1> QED BY <1>1, InitCustody, AlwaysWellFormed, PTL DEF Spec

-----------------------------------------------------------------------------
(* The counters of a collection.                                           *)

ActiveListings(c) ==
    {i \in ListingIds : listings[i].status = "Active" /\ listings[i].collection = c}
ActiveAuctions(c) ==
    {i \in AuctionIds : auctions[i].status = "Active" /\ auctions[i].collection = c}

\* The next identifier is one no record has: nothing is counted twice.
NextIdsAreNew ==
    /\ \A i \in ListingIds : i > listing_seq => listings[i].status = "None"
    /\ \A i \in AuctionIds : i > auction_seq => auctions[i].status = "None"

\* A collection that is about to be registered has no open record yet.
OpenAreRegistered ==
    /\ \A i \in ListingIds : listings[i].status = "Active"
            => listings[i].collection \in DOMAIN collections
    /\ \A i \in AuctionIds : auctions[i].status = "Active"
            => auctions[i].collection \in DOMAIN collections

\* Before initialize there is nothing that it could forget.
NothingBefore ==
    inits = 0 => /\ config.admin = NoAddress /\ DOMAIN collections = {}
                 /\ listing_seq = 0 /\ auction_seq = 0

\* The inductive invariant behind CountersMatch.
CountersInv ==
    /\ CountersMatch
    /\ inits <= 1 => NextIdsAreNew /\ OpenAreRegistered /\ NothingBefore

\* The open records of a collection are finitely many.
LEMMA OpenCounts ==
    ASSUME NEW c
    PROVE  /\ IsFiniteSet(ActiveListings(c)) /\ Cardinality(ActiveListings(c)) \in Nat
           /\ IsFiniteSet(ActiveAuctions(c)) /\ Cardinality(ActiveAuctions(c)) \in Nat
<1>1. ActiveListings(c) \subseteq ListingIds /\ ActiveAuctions(c) \subseteq AuctionIds
  BY DEF ActiveListings, ActiveAuctions
<1> QED BY <1>1, BoundsType, FS_Subset, FS_CardinalityType

\* Two finite sets that differ in one element at most differ by one at most.
LEMMA CountChanged ==
    ASSUME NEW A, NEW B, NEW x, IsFiniteSet(A), IsFiniteSet(B), A \ {x} = B \ {x}
    PROVE  /\ x \in A /\ x \notin B => /\ Cardinality(A) > 0
                                       /\ Cardinality(B) = Cardinality(A) - 1
           /\ x \notin A /\ x \in B => Cardinality(B) = Cardinality(A) + 1
           /\ (x \in A <=> x \in B) => Cardinality(B) = Cardinality(A)
<1>0. Cardinality(A) \in Nat /\ Cardinality(B) \in Nat
  BY FS_CardinalityType
<1>1. ASSUME x \in A, x \notin B
      PROVE  Cardinality(A) > 0 /\ Cardinality(B) = Cardinality(A) - 1
  <2>1. B = A \ {x}
    BY <1>1
  <2>2. Cardinality(B) = Cardinality(A) - 1
    BY <1>1, <2>1, FS_RemoveElement
  <2> QED BY <1>0, <2>2
<1>2. ASSUME x \notin A, x \in B
      PROVE  Cardinality(B) = Cardinality(A) + 1
  <2>1. B = A \cup {x}
    BY <1>2
  <2> QED BY <1>2, <2>1, FS_AddElement
<1>3. ASSUME x \in A <=> x \in B
      PROVE  Cardinality(B) = Cardinality(A)
  <2>1. A = B
    BY <1>3
  <2> QED BY <2>1
<1> QED BY <1>1, <1>2, <1>3

\* The counters after update_collection_stats.
LEMMA StatsUpdated ==
    ASSUME WellFormed, NEW coll, NEW dl \in {-1, 0, 1}, NEW da \in {-1, 0, 1},
           collections' = UpdateStats(coll, dl, da)
    PROVE  /\ DOMAIN collections' = DOMAIN collections
           /\ \A c \in DOMAIN collections :
                /\ collections[c].active_listings \in Nat
                /\ collections[c].active_auctions \in Nat
                /\ collections'[c].active_listings
                     = IF c = coll THEN Bump(collections[c].active_listings, dl)
                                   ELSE collections[c].active_listings
                /\ collections'[c].active_auctions
                     = IF c = coll THEN Bump(collections[c].active_auctions, da)
                                   ELSE collections[c].active_auctions
<1>1. collections \in [DOMAIN collections -> CollectionInfo]
  BY DEF WellFormed
<1> QED BY <1>1 DEF UpdateStats, CollectionInfo

\* A listing is opened, or an open one is closed, and counted.
LEMMA ListingCounted ==
    ASSUME WellFormed, CountersInv, UNCHANGED <<settings, auction_seq, auctions>>,
           NEW id \in ListingIds, NEW l, listings' = [listings EXCEPT ![id] = l],
           NEW coll, NEW d \in {-1, 1}, collections' = UpdateStats(coll, d, 0),
           d = 1 => /\ l.status = "Active" /\ l.collection = coll
                    /\ coll \in DOMAIN collections
                    /\ id = listing_seq + 1 /\ listing_seq' = id,
           d = -1 => /\ listings[id].status = "Active" /\ listings[id].collection = coll
                     /\ l.status \notin {"Active", "None"}
                     /\ listing_seq' = listing_seq
    PROVE  CountersInv'
<1>0. CASE inits > 1
  BY <1>0 DEF CountersInv, CountersMatch, settings, WellFormed
<1>1. CASE inits <= 1
  <2>0. inits' <= 1 /\ UNCHANGED <<inits, config>>
    BY <1>1 DEF settings
  <2>1. /\ listings \in [ListingIds -> ListingRecord \cup {NoRecord}]
        /\ listing_seq \in Nat /\ ListingIds \subseteq Nat
    BY BoundsType DEF WellFormed, ListingIds
  <2>2. /\ listings' \in [ListingIds -> ListingRecord \cup {NoRecord, l}]
        /\ listings'[id] = l /\ \A i \in ListingIds \ {id} : listings'[i] = listings[i]
    BY <2>1
  <2>3. d = 1 => listings[id].status # "Active"
    <3>1. d = 1 => id > listing_seq
      BY <2>1
    <3> QED BY <1>1, <3>1 DEF CountersInv, NextIdsAreNew
  <2>4. /\ DOMAIN collections' = DOMAIN collections
        /\ \A c \in DOMAIN collections :
                /\ collections[c].active_listings \in Nat
                /\ collections[c].active_auctions \in Nat
                /\ collections'[c].active_listings
                     = IF c = coll THEN Bump(collections[c].active_listings, d)
                                   ELSE collections[c].active_listings
                /\ collections'[c].active_auctions
                     = IF c = coll THEN Bump(collections[c].active_auctions, 0)
                                   ELSE collections[c].active_auctions
    BY StatsUpdated
  <2>5. ASSUME NEW c \in DOMAIN collections
        PROVE  /\ collections'[c].active_listings = Cardinality(ActiveListings(c)')
               /\ collections'[c].active_auctions = Cardinality(ActiveAuctions(c)')
    <3> DEFINE A == ActiveListings(c)
               B == ActiveListings(c)'
    <3>1. /\ collections[c].active_listings = Cardinality(A)
          /\ collections[c].active_auctions = Cardinality(ActiveAuctions(c))
      BY <1>1 DEF CountersInv, CountersMatch, ActiveListings, ActiveAuctions
    <3>2. ActiveAuctions(c)' = ActiveAuctions(c)
      BY DEF ActiveAuctions
    <3>3. A \ {id} = B \ {id}
      BY <2>2 DEF ActiveListings
    <3>4. B \subseteq ListingIds
      BY DEF ActiveListings
    <3>5. IsFiniteSet(A) /\ Cardinality(A) \in Nat /\ IsFiniteSet(B)
      BY <3>4, OpenCounts, BoundsType, FS_Subset
    <3>6. /\ d = 1 /\ c = coll => id \notin A /\ id \in B
          /\ d = -1 /\ c = coll => id \in A /\ id \notin B
          /\ c # coll /\ d = 1 => id \notin A /\ id \notin B
          /\ c # coll /\ d = -1 => id \notin A /\ id \notin B
      BY <2>2, <2>3 DEF ActiveListings
    <3> HIDE DEF A, B
    <3>7. /\ d = 1 /\ c = coll => Cardinality(B) = Cardinality(A) + 1
          /\ d = -1 /\ c = coll => Cardinality(A) > 0 /\ Cardinality(B) = Cardinality(A) - 1
          /\ c # coll => Cardinality(B) = Cardinality(A)
      BY <3>3, <3>5, <3>6, CountChanged
    <3>8. collections'[c].active_auctions = Cardinality(ActiveAuctions(c)')
      BY <2>4, <3>1, <3>2 DEF Bump
    <3>9. collections'[c].active_listings = Cardinality(B)
      <4>1. CASE c = coll /\ d = 1
        BY <2>4, <3>1, <3>5, <3>7, <4>1 DEF Bump
      <4>2. CASE c = coll /\ d = -1
        BY <2>4, <3>1, <3>5, <3>7, <4>2 DEF Bump
      <4>3. CASE c # coll
        BY <2>4, <3>1, <3>7, <4>3
      <4> QED BY <4>1, <4>2, <4>3
    <3> QED BY <3>8, <3>9 DEF B
  <2>6. CountersMatch'
    BY <2>4, <2>5 DEF CountersMatch, ActiveListings, ActiveAuctions
  <2>7. NextIdsAreNew'
    <3>1. ASSUME NEW i \in ListingIds, i > listing_seq'
          PROVE  listings'[i].status = "None"
      <4>1. CASE d = 1
        <5>1. i # id /\ i > listing_seq
          BY <2>1, <3>1, <4>1
        <5> QED BY <1>1, <2>2, <5>1 DEF CountersInv, NextIdsAreNew
      <4>2. CASE d = -1
        <5>1. i > listing_seq /\ listings[i].status = "None"
          BY <1>1, <3>1, <4>2 DEF CountersInv, NextIdsAreNew
        <5>2. i # id
          BY <4>2, <5>1
        <5> QED BY <2>2, <5>1, <5>2
      <4> QED BY <4>1, <4>2
    <3> QED BY <1>1, <3>1 DEF CountersInv, NextIdsAreNew
  <2>8. OpenAreRegistered'
    BY <1>1, <2>2, <2>4 DEF CountersInv, OpenAreRegistered
  <2>9. NothingBefore'
    <3>1. inits # 0
      <4>1. coll \in DOMAIN collections
        BY <1>1 DEF CountersInv, OpenAreRegistered
      <4> QED BY <1>1, <4>1 DEF CountersInv, NothingBefore
    <3> QED BY <2>0, <3>1 DEF NothingBefore
  <2> QED BY <2>6, <2>7, <2>8, <2>9 DEF CountersInv
<1> QED BY <1>0, <1>1 DEF WellFormed

\* A listing is opened and counted.
LEMMA ListingOpened ==
    ASSUME WellFormed, CountersInv, UNCHANGED <<settings, auction_seq, auctions>>,
           NEW l, NEW coll, l.status = "Active", l.collection = coll,
           coll \in DOMAIN collections, listing_seq + 1 \in ListingIds, listing_seq' = listing_seq + 1,
           listings' = [listings EXCEPT ![listing_seq + 1] = l],
           collections' = UpdateStats(coll, 1, 0)
    PROVE  CountersInv'
<1>1. 1 \in {-1, 1} /\ 1 # -1
  OBVIOUS
<1> QED BY <1>1, ListingCounted

\* An open listing is closed and counted.
LEMMA ListingClosed ==
    ASSUME WellFormed, CountersInv, UNCHANGED <<settings, auction_seq, auctions, listing_seq>>,
           NEW id \in ListingIds, listings[id].status = "Active",
           NEW s, s \notin {"Active", "None"}, listings' = [listings EXCEPT ![id].status = s],
           collections' = UpdateStats(listings[id].collection, -1, 0)
    PROVE  CountersInv'
<1> DEFINE l == [listings[id] EXCEPT !.status = s]
           coll == listings[id].collection
           d == -1
<1>1. d \in {-1, 1} /\ d # 1
  OBVIOUS
<1>2. l.status \notin {"Active", "None"}
  BY OpenRecords DEF ListingRecord
<1>3. /\ listings' = [listings EXCEPT ![id] = l] /\ listings[id].collection = coll
      /\ collections' = UpdateStats(coll, d, 0)
  OBVIOUS
<1> HIDE DEF l, coll, d
<1> QED BY <1>1, <1>2, <1>3, ListingCounted

\* An auction is opened, or an open one is closed, and counted.
LEMMA AuctionCounted ==
    ASSUME WellFormed, CountersInv, UNCHANGED <<settings, listing_seq, listings>>,
           NEW id \in AuctionIds, NEW l, auctions' = [auctions EXCEPT ![id] = l],
           NEW coll, NEW d \in {-1, 1}, collections' = UpdateStats(coll, 0, d),
           d = 1 => /\ l.status = "Active" /\ l.collection = coll
                    /\ coll \in DOMAIN collections
                    /\ id = auction_seq + 1 /\ auction_seq' = id,
           d = -1 => /\ auctions[id].status = "Active" /\ auctions[id].collection = coll
                     /\ l.status \notin {"Active", "None"}
                     /\ auction_seq' = auction_seq
    PROVE  CountersInv'
<1>0. CASE inits > 1
  BY <1>0 DEF CountersInv, CountersMatch, settings, WellFormed
<1>1. CASE inits <= 1
  <2>0. inits' <= 1 /\ UNCHANGED <<inits, config>>
    BY <1>1 DEF settings
  <2>1. /\ auctions \in [AuctionIds -> AuctionRecord \cup {NoRecord}]
        /\ auction_seq \in Nat /\ AuctionIds \subseteq Nat
    BY BoundsType DEF WellFormed, AuctionIds
  <2>2. /\ auctions' \in [AuctionIds -> AuctionRecord \cup {NoRecord, l}]
        /\ auctions'[id] = l /\ \A i \in AuctionIds \ {id} : auctions'[i] = auctions[i]
    BY <2>1
  <2>3. d = 1 => auctions[id].status # "Active"
    <3>1. d = 1 => id > auction_seq
      BY <2>1
    <3> QED BY <1>1, <3>1 DEF CountersInv, NextIdsAreNew
  <2>4. /\ DOMAIN collections' = DOMAIN collections
        /\ \A c \in DOMAIN collections :
                /\ collections[c].active_auctions \in Nat
                /\ collections[c].active_listings \in Nat
                /\ collections'[c].active_auctions
                     = IF c = coll THEN Bump(collections[c].active_auctions, d)
                                   ELSE collections[c].active_auctions
                /\ collections'[c].active_listings
                     = IF c = coll THEN Bump(collections[c].active_listings, 0)
                                   ELSE collections[c].active_listings
    BY StatsUpdated
  <2>5. ASSUME NEW c \in DOMAIN collections
        PROVE  /\ collections'[c].active_auctions = Cardinality(ActiveAuctions(c)')
               /\ collections'[c].active_listings = Cardinality(ActiveListings(c)')
    <3> DEFINE A == ActiveAuctions(c)
               B == ActiveAuctions(c)'
    <3>1. /\ collections[c].active_auctions = Cardinality(A)
          /\ collections[c].active_listings = Cardinality(ActiveListings(c))
      BY <1>1 DEF CountersInv, CountersMatch, ActiveAuctions, ActiveListings
    <3>2. ActiveListings(c)' = ActiveListings(c)
      BY DEF ActiveListings
    <3>3. A \ {id} = B \ {id}
      BY <2>2 DEF ActiveAuctions
    <3>4. B \subseteq AuctionIds
      BY DEF ActiveAuctions
    <3>5. IsFiniteSet(A) /\ Cardinality(A) \in Nat /\ IsFiniteSet(B)
      BY <3>4, OpenCounts, BoundsType, FS_Subset
    <3>6. /\ d = 1 /\ c = coll => id \notin A /\ id \in B
          /\ d = -1 /\ c = coll => id \in A /\ id \notin B
          /\ c # coll /\ d = 1 => id \notin A /\ id \notin B
          /\ c # coll /\ d = -1 => id \notin A /\ id \notin B
      BY <2>2, <2>3 DEF ActiveAuctions
    <3> HIDE DEF A, B
    <3>7. /\ d = 1 /\ c = coll => Cardinality(B) = Cardinality(A) + 1
          /\ d = -1 /\ c = coll => Cardinality(A) > 0 /\ Cardinality(B) = Cardinality(A) - 1
          /\ c # coll => Cardinality(B) = Cardinality(A)
      BY <3>3, <3>5, <3>6, CountChanged
    <3>8. collections'[c].active_listings = Cardinality(ActiveListings(c)')
      BY <2>4, <3>1, <3>2 DEF Bump
    <3>9. collections'[c].active_auctions = Cardinality(B)
      <4>1. CASE c = coll /\ d = 1
        BY <2>4, <3>1, <3>5, <3>7, <4>1 DEF Bump
      <4>2. CASE c = coll /\ d = -1
        BY <2>4, <3>1, <3>5, <3>7, <4>2 DEF Bump
      <4>3. CASE c # coll
        BY <2>4, <3>1, <3>7, <4>3
      <4> QED BY <4>1, <4>2, <4>3
    <3> QED BY <3>8, <3>9 DEF B
  <2>6. CountersMatch'
    BY <2>4, <2>5 DEF CountersMatch, ActiveAuctions, ActiveListings
  <2>7. NextIdsAreNew'
    <3>1. ASSUME NEW i \in AuctionIds, i > auction_seq'
          PROVE  auctions'[i].status = "None"
      <4>1. CASE d = 1
        <5>1. i # id /\ i > auction_seq
          BY <2>1, <3>1, <4>1
        <5> QED BY <1>1, <2>2, <5>1 DEF CountersInv, NextIdsAreNew
      <4>2. CASE d = -1
        <5>1. i > auction_seq /\ auctions[i].status = "None"
          BY <1>1, <3>1, <4>2 DEF CountersInv, NextIdsAreNew
        <5>2. i # id
          BY <4>2, <5>1
        <5> QED BY <2>2, <5>1, <5>2
      <4> QED BY <4>1, <4>2
    <3> QED BY <1>1, <3>1 DEF CountersInv, NextIdsAreNew
  <2>8. OpenAreRegistered'
    BY <1>1, <2>2, <2>4 DEF CountersInv, OpenAreRegistered
  <2>9. NothingBefore'
    <3>1. inits # 0
      <4>1. coll \in DOMAIN collections
        BY <1>1 DEF CountersInv, OpenAreRegistered
      <4> QED BY <1>1, <4>1 DEF CountersInv, NothingBefore
    <3> QED BY <2>0, <3>1 DEF NothingBefore
  <2> QED BY <2>6, <2>7, <2>8, <2>9 DEF CountersInv
<1> QED BY <1>0, <1>1 DEF WellFormed

\* An auction is opened and counted.
LEMMA AuctionOpened ==
    ASSUME WellFormed, CountersInv, UNCHANGED <<settings, listing_seq, listings>>,
           NEW l, NEW coll, l.status = "Active", l.collection = coll,
           coll \in DOMAIN collections, auction_seq + 1 \in AuctionIds, auction_seq' = auction_seq + 1,
           auctions' = [auctions EXCEPT ![auction_seq + 1] = l],
           collections' = UpdateStats(coll, 0, 1)
    PROVE  CountersInv'
<1>1. 1 \in {-1, 1} /\ 1 # -1
  OBVIOUS
<1> QED BY <1>1, AuctionCounted

\* An open auction is closed and counted.
LEMMA AuctionClosed ==
    ASSUME WellFormed, CountersInv, UNCHANGED <<settings, listing_seq, listings, auction_seq>>,
           NEW id \in AuctionIds, auctions[id].status = "Active",
           NEW s, s \notin {"Active", "None"}, auctions' = [auctions EXCEPT ![id].status = s],
           collections' = UpdateStats(auctions[id].collection, 0, -1)
    PROVE  CountersInv'
<1> DEFINE l == [auctions[id] EXCEPT !.status = s]
           coll == auctions[id].collection
           d == -1
<1>1. d \in {-1, 1} /\ d # 1
  OBVIOUS
<1>2. l.status \notin {"Active", "None"}
  BY OpenRecords DEF AuctionRecord
<1>3. /\ auctions' = [auctions EXCEPT ![id] = l] /\ auctions[id].collection = coll
      /\ collections' = UpdateStats(coll, 0, d)
  OBVIOUS
<1> HIDE DEF l, coll, d
<1> QED BY <1>1, <1>2, <1>3, AuctionCounted

\* Steps that leave records and counters alone, or change nothing that is counted.
LEMMA UncountedStep ==
    ASSUME WellFormed, CountersInv, inits' = inits, config'.admin = config.admin,
           UNCHANGED <<listing_seq, listings, auction_seq, collections>>,
           \A i \in AuctionIds : /\ auctions'[i].status = auctions[i].status
                                 /\ auctions'[i].collection = auctions[i].collection
    PROVE  CountersInv'
<1>1. \A c : /\ ActiveListings(c)' = ActiveListings(c)
             /\ ActiveAuctions(c)' = ActiveAuctions(c)
  BY DEF ActiveListings, ActiveAuctions
<1>2. CountersMatch'
  BY <1>1 DEF CountersInv, CountersMatch, ActiveListings, ActiveAuctions
<1>3. inits <= 1 => NextIdsAreNew' /\ OpenAreRegistered' /\ NothingBefore'
  BY DEF CountersInv, NextIdsAreNew, OpenAreRegistered, NothingBefore
<1> QED BY <1>2, <1>3 DEF CountersInv

\* The steps of the admins.
LEMMA AdminCounted == ASSUME WellFormed, CountersInv, AdminStep PROVE CountersInv'
<1>1. ASSUME NEW admin \in Admins, NEW fee \in FeeRates, NEW recipient \in FeeRecipients,
             NEW increment \in BidIncrements, NEW window \in Windows,
             Initialize(admin, fee, recipient, increment, window)
      PROVE  CountersInv'
  <2>1. inits \in Nat /\ inits' = inits + 1
    BY <1>1 DEF Initialize, WellFormed
  <2>2. DOMAIN collections' = {} /\ UNCHANGED <<listings, auctions>>
        /\ listing_seq' = 0 /\ auction_seq' = 0
    BY <1>1 DEF Initialize
  <2>3. CountersMatch'
    BY <2>2 DEF CountersMatch
  <2>4. ASSUME inits' <= 1
        PROVE  NextIdsAreNew' /\ OpenAreRegistered' /\ NothingBefore'
    <3>1. inits = 0 /\ inits' # 0
      BY <2>1, <2>4
    <3>2. NextIdsAreNew /\ OpenAreRegistered /\ NothingBefore
      BY <3>1 DEF CountersInv
    <3>3. /\ \A i \in ListingIds : listings[i].status = "None"
          /\ \A i \in AuctionIds : auctions[i].status = "None"
      <4>1. \A i \in ListingIds \cup AuctionIds : i > 0
        BY BoundsType DEF ListingIds, AuctionIds
      <4> QED BY <3>1, <3>2, <4>1 DEF NextIdsAreNew, NothingBefore
    <3> QED BY <2>2, <3>1, <3>3 DEF NextIdsAreNew, OpenAreRegistered, NothingBefore
  <2> QED BY <2>3, <2>4 DEF CountersInv
<1>2. ASSUME NEW caller \in Users, NEW coll \in Collections, NEW rc \in RoyaltyConfigs,
             RegisterCollection(caller, coll, rc)
      PROVE  CountersInv'
  <2>1. /\ caller = config.admin /\ coll \notin DOMAIN collections
        /\ UNCHANGED <<inits, config, listing_seq, listings, auction_seq, auctions>>
        /\ collections' = [c \in DOMAIN collections \cup {coll} |->
                IF c = coll THEN [admin |-> caller, royalties |-> rc,
                                  active_listings |-> 0, active_auctions |-> 0]
                ELSE collections[c]]
    BY <1>2 DEF RegisterCollection, settings, records
  <2>2. CASE inits > 1
    BY <2>1, <2>2 DEF CountersInv, CountersMatch, WellFormed
  <2>3. CASE inits <= 1
    <3>0. CountersMatch /\ NextIdsAreNew /\ OpenAreRegistered /\ NothingBefore
      BY <2>3 DEF CountersInv
    <3>1. ASSUME NEW c \in DOMAIN collections'
          PROVE  /\ collections'[c].active_listings = Cardinality(ActiveListings(c)')
                 /\ collections'[c].active_auctions = Cardinality(ActiveAuctions(c)')
      <4>1. ActiveListings(c)' = ActiveListings(c) /\ ActiveAuctions(c)' = ActiveAuctions(c)
        BY <2>1 DEF ActiveListings, ActiveAuctions
      <4>2. CASE c = coll
        <5>1. ActiveListings(c) = {} /\ ActiveAuctions(c) = {}
          BY <2>1, <3>0, <4>2 DEF OpenAreRegistered, ActiveListings, ActiveAuctions
        <5> QED BY <2>1, <4>1, <4>2, <5>1, FS_EmptySet
      <4>3. CASE c # coll
        <5>1. c \in DOMAIN collections /\ collections'[c] = collections[c]
          BY <2>1, <3>1, <4>3
        <5> QED BY <2>3, <3>0, <4>1, <5>1 DEF CountersMatch, ActiveListings, ActiveAuctions
      <4> QED BY <4>2, <4>3
    <3>2. CountersMatch'
      BY <3>1 DEF CountersMatch, ActiveListings, ActiveAuctions
    <3>3. NextIdsAreNew' /\ OpenAreRegistered'
      BY <2>1, <3>0 DEF NextIdsAreNew, OpenAreRegistered
    <3>4. NothingBefore'
      BY <2>1, <3>0, MarketAssumption DEF NothingBefore
    <3> QED BY <3>2, <3>3, <3>4 DEF CountersInv
  <2> QED BY <2>2, <2>3 DEF WellFormed
<1>3. ASSUME NEW caller \in Users, NEW coll \in Collections, NEW rc \in RoyaltyConfigs,
             SetCollectionRoyalties(caller, coll, rc)
      PROVE  CountersInv'
  <2>1. /\ UNCHANGED <<inits, config, listing_seq, listings, auction_seq, auctions>>
        /\ collections' = [collections EXCEPT ![coll].royalties = rc]
    BY <1>3 DEF SetCollectionRoyalties, settings, records
  <2>2. /\ DOMAIN collections' = DOMAIN collections
        /\ \A c \in DOMAIN collections :
                /\ collections'[c].active_listings = collections[c].active_listings
                /\ collections'[c].active_auctions = collections[c].active_auctions
    BY <2>1 DEF WellFormed, CollectionInfo
  <2>3. \A c : /\ ActiveListings(c)' = ActiveListings(c)
               /\ ActiveAuctions(c)' = ActiveAuctions(c)
    BY <2>1 DEF ActiveListings, ActiveAuctions
  <2>4. CountersMatch'
    BY <2>1, <2>2, <2>3 DEF CountersInv, CountersMatch, ActiveListings, ActiveAuctions
  <2>5. inits <= 1 => NextIdsAreNew' /\ OpenAreRegistered' /\ NothingBefore'
    BY <2>1, <2>2 DEF CountersInv, NextIdsAreNew, OpenAreRegistered, NothingBefore
  <2> QED BY <2>1, <2>4, <2>5 DEF CountersInv
<1>4. ASSUME UNCHANGED <<inits, collections, listing_seq, listings, auction_seq, auctions>>,
             config'.admin = config.admin
      PROVE  CountersInv'
  BY <1>4, UncountedStep
<1>5. config \in ConfigRecord
  BY DEF WellFormed
<1> USE <1>5 DEF ConfigRecord, records
<1>6. ASSUME NEW caller \in Users, NEW fee \in FeeRates, SetPlatformFee(caller, fee)
      PROVE  CountersInv'
  BY <1>4, <1>6 DEF SetPlatformFee
<1>7. ASSUME NEW caller \in Users, NEW recipient \in FeeRecipients,
             SetFeeRecipient(caller, recipient)
      PROVE  CountersInv'
  BY <1>4, <1>7 DEF SetFeeRecipient
<1>8. ASSUME NEW caller \in Users, NEW increment \in BidIncrements,
             SetBidIncrement(caller, increment)
      PROVE  CountersInv'
  BY <1>4, <1>8 DEF SetBidIncrement
<1>9. ASSUME NEW caller \in Users, NEW window \in Windows, SetAutoExtension(caller, window)
      PROVE  CountersInv'
  BY <1>4, <1>9 DEF SetAutoExtension
<1>10. ASSUME NEW caller \in Users, NEW currency \in Currencies, NEW whitelisted \in BOOLEAN,
              SetCurrency(caller, currency, whitelisted)
       PROVE  CountersInv'
  BY <1>4, <1>10 DEF SetCurrency
<1> QED BY <1>1, <1>2, <1>3, <1>6, <1>7, <1>8, <1>9, <1>10 DEF AdminStep

\* Listing, buying and cancelling count.
LEMMA ListingStepCounted == ASSUME WellFormed, CountersInv, ListingStep PROVE CountersInv'
<1>0. listings \in [ListingIds -> ListingRecord \cup {NoRecord}]
  BY DEF WellFormed
<1>1. ASSUME NEW u \in Users, NEW coll \in Collections, NEW amount \in NftAmounts,
             NEW price \in Prices, NEW currency \in Currencies,
             ListNft(u, coll, amount, price, currency)
      PROVE  CountersInv'
  <2> DEFINE id == listing_seq + 1
             l == [seller |-> u, collection |-> coll, amount |-> amount,
                   price |-> price, currency |-> currency, status |-> "Active"]
  <2>1. l.status = "Active" /\ l.collection = coll
    OBVIOUS
  <2> HIDE DEF l
  <2>2. /\ id \in ListingIds /\ listing_seq' = id /\ coll \in DOMAIN collections
        /\ listings' = [listings EXCEPT ![id] = l]
        /\ collections' = UpdateStats(coll, 1, 0)
        /\ UNCHANGED <<settings, auction_seq, auctions>>
    BY <1>1 DEF ListNft, l
  <2> QED BY <2>1, <2>2, ListingOpened
<1>2. ASSUME NEW id \in ListingIds, listings[id].status = "Active",
             NEW s \in {"Sold", "Cancelled"}, listings' = [listings EXCEPT ![id].status = s],
             collections' = UpdateStats(listings[id].collection, -1, 0),
             UNCHANGED <<settings, listing_seq, auction_seq, auctions>>
      PROVE  CountersInv'
  BY <1>2, ListingClosed
<1>3. ASSUME NEW u \in Users, NEW id \in ListingIds, BuyNft(u, id) \/ CancelListing(u, id)
      PROVE  CountersInv'
  BY <1>2, <1>3 DEF BuyNft, CancelListing
<1> QED BY <1>1, <1>3 DEF ListingStep

\* Creating, settling, buying and cancelling auctions count; bids do not.
LEMMA AuctionStepCounted == ASSUME WellFormed, CountersInv, AuctionStep PROVE CountersInv'
<1>0. auctions \in [AuctionIds -> AuctionRecord \cup {NoRecord}]
  BY DEF WellFormed
<1>1. ASSUME NEW type, NEW u \in Users, NEW coll \in Collections, NEW amount \in NftAmounts,
             NEW start \in Prices, NEW floor, NEW currency \in Currencies,
             NEW duration \in Durations, NEW window,
             CreateAuction(type, u, coll, amount, start, floor, currency, duration, window)
      PROVE  CountersInv'
  <2> DEFINE id == auction_seq + 1
             a == [auction_type |-> type, seller |-> u, collection |-> coll,
                   amount |-> amount, currency |-> currency,
                   start_price |-> start, floor_price |-> floor,
                   current_bid |-> 0, current_bidder |-> Market, status |-> "Active",
                   start_time |-> now, end_time |-> now + duration,
                   auto_extension_window |-> window]
  <2>1. a.status = "Active" /\ a.collection = coll
    OBVIOUS
  <2> HIDE DEF a
  <2>2. /\ id \in AuctionIds /\ auction_seq' = id /\ coll \in DOMAIN collections
        /\ auctions' = [auctions EXCEPT ![id] = a]
        /\ collections' = UpdateStats(coll, 0, 1)
        /\ UNCHANGED <<settings, listing_seq, listings>>
    BY <1>1 DEF CreateAuction, a
  <2> QED BY <2>1, <2>2, AuctionOpened
<1>2. ASSUME NEW id \in AuctionIds, auctions[id].status = "Active",
             NEW s \in {"Settled", "Cancelled"}, auctions' = [auctions EXCEPT ![id].status = s],
             collections' = UpdateStats(auctions[id].collection, 0, -1),
             UNCHANGED <<settings, auction_seq, listing_seq, listings>>
      PROVE  CountersInv'
  BY <1>2, AuctionClosed
<1>3. ASSUME NEW u \in Users, NEW id \in AuctionIds,
             BuyDutchAuction(u, id) \/ CancelDutchAuction(u, id)
      PROVE  CountersInv'
  BY <1>2, <1>3 DEF BuyDutchAuction, CancelDutchAuction
<1>4. ASSUME NEW id \in AuctionIds, SettleWithoutBid(id) \/ SettleWithWinner(id)
      PROVE  CountersInv'
  BY <1>2, <1>4 DEF SettleWithoutBid, SettleWithWinner, Settle, Settleable
<1>5. ASSUME NEW u \in Users, NEW id \in AuctionIds, NEW bid \in Prices, PlaceBid(u, id, bid)
      PROVE  CountersInv'
  <2>1. auctions[id] \in AuctionRecord
    BY <1>5, OpenRecords DEF PlaceBid
  <2>2. PICK e : auctions' = [auctions EXCEPT ![id].current_bid = bid,
                                              ![id].current_bidder = u, ![id].end_time = e]
    BY <1>5 DEF PlaceBid
  <2>3. \A i \in AuctionIds : /\ auctions'[i].status = auctions[i].status
                              /\ auctions'[i].collection = auctions[i].collection
    BY <1>0, <2>1, <2>2 DEF AuctionRecord
  <2> QED BY <1>5, <2>3, UncountedStep DEF PlaceBid, settings
<1> QED BY <1>1, <1>3, <1>4, <1>5 DEF AuctionStep, CreateEnglishAuction, CreateDutchAuction

\* There is nothing to count at first.
LEMMA InitCounted == Init => CountersInv
<1> SUFFICES ASSUME Init PROVE CountersInv
  OBVIOUS
<1>1. DOMAIN collections = {}
  BY DEF Init
<1> QED BY <1>1 DEF Init, CountersInv, CountersMatch, NextIdsAreNew, OpenAreRegistered,
                    NothingBefore, NoRecord

\* Every call keeps the counters right.
LEMMA CountedStep == WellFormed /\ CountersInv /\ [Next]_vars => CountersInv'
<1> SUFFICES ASSUME WellFormed, CountersInv, [Next]_vars PROVE CountersInv'
  OBVIOUS
<1>1. CASE Tick
  BY <1>1, UncountedStep DEF Tick, settings, records
<1>2. CASE OfferStep
  BY <1>2, UncountedStep DEF OfferStep, MakeOffer, AcceptOffer, CancelOffer, settings
<1>3. CASE UNCHANGED vars
  BY <1>3, UncountedStep DEF vars, settings
<1> QED BY <1>1, <1>2, <1>3, AdminCounted, ListingStepCounted, AuctionStepCounted DEF Next

\* The counters of active listings and auctions are right in every order of
\* opening and closing records, until a second initialize.
\* (update_collection_stats.)
THEOREM CountersAlwaysMatch == Spec => []CountersMatch
<1>1. CountersInv => CountersMatch
  BY DEF CountersInv
<1> QED BY <1>1, InitCounted, CountedStep, AlwaysWellFormed, PTL DEF Spec

-----------------------------------------------------------------------------
(* What a step may do to a record, and what it may not.                    *)

\* The calls about auctions leave the clock, listings and offers alone.
LEMMA AuctionStepFrame == AuctionStep => UNCHANGED <<now, listings, offers>>
<1> DEFINE Frame == UNCHANGED <<now, listings, offers>>
<1>1. ASSUME NEW type, NEW u, NEW coll, NEW amount, NEW start, NEW floor, NEW currency,
             NEW duration, NEW window,
             CreateAuction(type, u, coll, amount, start, floor, currency, duration, window)
      PROVE  Frame
  BY <1>1 DEF CreateAuction
<1>2. ASSUME NEW u, NEW coll, NEW amount, NEW start, NEW floor, NEW currency, NEW duration,
             \/ CreateEnglishAuction(u, coll, amount, start, currency, duration)
             \/ CreateDutchAuction(u, coll, amount, start, floor, currency, duration)
      PROVE  Frame
  BY <1>1, <1>2 DEF CreateEnglishAuction, CreateDutchAuction
<1>3. ASSUME NEW u, NEW id, NEW bid, PlaceBid(u, id, bid) PROVE Frame
  BY <1>3 DEF PlaceBid
<1>4. ASSUME NEW u, NEW id, BuyDutchAuction(u, id) \/ CancelDutchAuction(u, id) PROVE Frame
  BY <1>4 DEF BuyDutchAuction, CancelDutchAuction
<1>5. ASSUME NEW id, SettleWithoutBid(id) \/ SettleWithWinner(id) PROVE Frame
  BY <1>5 DEF SettleWithoutBid, SettleWithWinner, Settle
<1> HIDE DEF Frame
<1>6. AuctionStep => Frame
  BY <1>2, <1>3, <1>4, <1>5 DEF AuctionStep
<1> QED BY <1>6 DEF Frame

\* A listing changes only when it is made, bought or cancelled.
LEMMA WhoChangesAListing ==
    ASSUME WellFormed, [Next]_vars, NEW i \in ListingIds, listings'[i] # listings[i]
    PROVE  \/ ListingReissued(i) /\ listings'[i].status = "Active"
           \/ \E u \in Users : BuyNft(u, i)
           \/ \E u \in Users : CancelListing(u, i)
<1>0. listings \in [ListingIds -> ListingRecord \cup {NoRecord}]
  BY DEF WellFormed
<1>1. ListingStep
  <2>1. listings' # listings
    OBVIOUS
  <2>2. ~ UNCHANGED vars /\ ~Tick
    BY <2>1 DEF vars, Tick, records
  <2>3. ~AdminStep
    BY <2>1 DEF AdminStep, Initialize, SetPlatformFee, SetFeeRecipient, SetBidIncrement,
        SetAutoExtension, SetCurrency, RegisterCollection, SetCollectionRoyalties, records
  <2>4. ~AuctionStep
    BY <2>1, AuctionStepFrame
  <2>5. ~OfferStep
    BY <2>1 DEF OfferStep, MakeOffer, AcceptOffer, CancelOffer
  <2> QED BY <2>2, <2>3, <2>4, <2>5 DEF Next
<1>2. ASSUME NEW u \in Users, NEW coll \in Collections, NEW amount \in NftAmounts,
             NEW price \in Prices, NEW currency \in Currencies,
             ListNft(u, coll, amount, price, currency)
      PROVE  ListingReissued(i) /\ listings'[i].status = "Active"
  <2> DEFINE id == listing_seq + 1
             l == [seller |-> u, collection |-> coll, amount |-> amount,
                   price |-> price, currency |-> currency, status |-> "Active"]
  <2>1. /\ id \in ListingIds /\ listing_seq' = id
        /\ listings' = [listings EXCEPT ![id] = l]
    BY <1>2 DEF ListNft
  <2>2. l.status = "Active"
    OBVIOUS
  <2> HIDE DEF l
  <2>3. i = id
    BY <1>0, <2>1
  <2>4. listing_seq = i - 1
    BY <2>3, BoundsType DEF WellFormed
  <2> QED BY <1>0, <2>1, <2>2, <2>3, <2>4 DEF ListingReissued
<1>3. ASSUME NEW u \in Users, NEW id \in ListingIds, BuyNft(u, id)
      PROVE  i = id
  BY <1>0, <1>3 DEF BuyNft
<1>4. ASSUME NEW u \in Users, NEW id \in ListingIds, CancelListing(u, id)
      PROVE  i = id
  BY <1>0, <1>4 DEF CancelListing
<1> QED BY <1>1, <1>2, <1>3, <1>4 DEF ListingStep

\* An auction changes only when it is made, bid on, settled, bought or cancelled.
LEMMA WhoChangesAnAuction ==
    ASSUME WellFormed, [Next]_vars, NEW i \in AuctionIds, auctions'[i] # auctions[i]
    PROVE  \/ /\ AuctionReissued(i)
              /\ auctions'[i].status = "Active" /\ auctions'[i].current_bid = 0
              /\ auctions'[i].floor_price \in 0 .. (auctions'[i].start_price - 1)
           \/ \E u \in Users, bid \in Prices : PlaceBid(u, i, bid)
           \/ \E u \in Users : BuyDutchAuction(u, i)
           \/ \E u \in Users : CancelDutchAuction(u, i)
           \/ SettleWithoutBid(i)
           \/ SettleWithWinner(i)
<1>0. auctions \in [AuctionIds -> AuctionRecord \cup {NoRecord}]
  BY DEF WellFormed
<1>1. AuctionStep
  <2>1. auctions' # auctions
    OBVIOUS
  <2>2. ~ UNCHANGED vars /\ ~Tick
    BY <2>1 DEF vars, Tick, records
  <2>3. ~AdminStep
    BY <2>1 DEF AdminStep, Initialize, SetPlatformFee, SetFeeRecipient, SetBidIncrement,
        SetAutoExtension, SetCurrency, RegisterCollection, SetCollectionRoyalties, records
  <2>4. ~ListingStep
    BY <2>1 DEF ListingStep, ListNft, BuyNft, CancelListing
  <2>5. ~OfferStep
    BY <2>1 DEF OfferStep, MakeOffer, AcceptOffer, CancelOffer
  <2> QED BY <2>2, <2>3, <2>4, <2>5 DEF Next
<1>2. ASSUME NEW type, NEW u \in Users, NEW coll \in Collections, NEW amount \in NftAmounts,
             NEW start \in Prices, NEW floor \in Nat, floor < start, NEW currency \in Currencies,
             NEW duration \in Durations, NEW window,
             CreateAuction(type, u, coll, amount, start, floor, currency, duration, window)
      PROVE  /\ AuctionReissued(i)
             /\ auctions'[i].status = "Active" /\ auctions'[i].current_bid = 0
             /\ auctions'[i].floor_price \in 0 .. (auctions'[i].start_price - 1)
  <2> DEFINE id == auction_seq + 1
             a == [auction_type |-> type, seller |-> u, collection |-> coll,
                   amount |-> amount, currency |-> currency,
                   start_price |-> start, floor_price |-> floor,
                   current_bid |-> 0, current_bidder |-> Market, status |-> "Active",
                   start_time |-> now, end_time |-> now + duration,
                   auto_extension_window |-> window]
  <2>1. /\ id \in AuctionIds /\ auction_seq' = id
        /\ auctions' = [auctions EXCEPT ![id] = a]
    BY <1>2 DEF CreateAuction
  <2>2. /\ a.status = "Active" /\ a.current_bid = 0
        /\ a.floor_price \in 0 .. (a.start_price - 1)
    <3>1. floor \in 0 .. (start - 1)
      BY <1>2, MarketAssumption
    <3> QED BY <3>1
  <2> HIDE DEF a
  <2>3. i = id
    BY <1>0, <2>1
  <2>4. auction_seq = i - 1
    BY <2>3, BoundsType DEF WellFormed
  <2> QED BY <1>0, <2>1, <2>2, <2>3, <2>4 DEF AuctionReissued
<1>3. ASSUME NEW u \in Users, NEW id \in AuctionIds,
             BuyDutchAuction(u, id) \/ CancelDutchAuction(u, id)
      PROVE  i = id
  BY <1>0, <1>3 DEF BuyDutchAuction, CancelDutchAuction
<1>4. ASSUME NEW id \in AuctionIds, SettleWithoutBid(id) \/ SettleWithWinner(id)
      PROVE  i = id
  BY <1>0, <1>4 DEF SettleWithoutBid, SettleWithWinner, Settle
<1>5. ASSUME NEW u \in Users, NEW id \in AuctionIds, NEW bid \in Prices, PlaceBid(u, id, bid)
      PROVE  i = id
  BY <1>0, <1>5 DEF PlaceBid
<1>6. ASSUME NEW u \in Users, NEW coll \in Collections, NEW amount \in NftAmounts,
             NEW start \in Prices, NEW currency \in Currencies, NEW duration \in Durations,
             \/ CreateEnglishAuction(u, coll, amount, start, currency, duration)
             \/ \E floor \in Prices :
                    CreateDutchAuction(u, coll, amount, start, floor, currency, duration)
      PROVE  /\ AuctionReissued(i)
             /\ auctions'[i].status = "Active" /\ auctions'[i].current_bid = 0
             /\ auctions'[i].floor_price \in 0 .. (auctions'[i].start_price - 1)
  <2>1. CASE CreateEnglishAuction(u, coll, amount, start, currency, duration)
    <3>1. CreateAuction("English", u, coll, amount, start, 0, currency, duration, config.auto_ext)
      BY <2>1 DEF CreateEnglishAuction
    <3>2. 0 \in Nat /\ 0 < start
      BY <3>1, MarketAssumption DEF CreateAuction
    <3> QED BY <1>2, <3>1, <3>2
  <2>2. CASE \E floor \in Prices :
                CreateDutchAuction(u, coll, amount, start, floor, currency, duration)
    <3>1. PICK floor \in Prices :
                CreateDutchAuction(u, coll, amount, start, floor, currency, duration)
      BY <2>2
    <3>2. floor \in Nat /\ floor < start
      BY <3>1, MarketAssumption DEF CreateDutchAuction
    <3>3. CreateAuction("Dutch", u, coll, amount, start, floor, currency, duration, 0)
      BY <3>1 DEF CreateDutchAuction
    <3> QED BY <1>2, <3>2, <3>3
  <2> QED BY <1>6, <2>1, <2>2
<1> QED BY <1>1, <1>3, <1>4, <1>5, <1>6 DEF AuctionStep

\* Floors stay between nothing and the start.
LEMMA FloorsStay ==
    ASSUME WellFormed, FloorsChecked, [Next]_vars
    PROVE  FloorsChecked'
<1> SUFFICES ASSUME NEW i \in AuctionIds, auctions'[i].status # "None"
             PROVE  auctions'[i].floor_price \in 0 .. (auctions'[i].start_price - 1)
  BY DEF FloorsChecked
<1>1. CASE auctions'[i] = auctions[i]
  BY <1>1 DEF FloorsChecked
<1>2. CASE auctions'[i] # auctions[i]
  <2>1. ASSUME auctions[i].status = "Active",
               /\ auctions'[i].floor_price = auctions[i].floor_price
               /\ auctions'[i].start_price = auctions[i].start_price
        PROVE  auctions'[i].floor_price \in 0 .. (auctions'[i].start_price - 1)
    BY <2>1 DEF FloorsChecked
  <2>2. ASSUME NEW s, auctions[i].status = "Active",
               auctions' = [auctions EXCEPT ![i].status = s]
        PROVE  auctions'[i].floor_price \in 0 .. (auctions'[i].start_price - 1)
    <3>1. auctions[i] \in AuctionRecord /\ auctions'[i] = [auctions[i] EXCEPT !.status = s]
      BY <2>2, OpenRecords DEF WellFormed
    <3>2. /\ auctions'[i].floor_price = auctions[i].floor_price
          /\ auctions'[i].start_price = auctions[i].start_price
      BY <3>1 DEF AuctionRecord
    <3> QED BY <2>1, <2>2, <3>2
  <2>3. ASSUME NEW u \in Users, NEW bid \in Prices, PlaceBid(u, i, bid)
        PROVE  auctions'[i].floor_price \in 0 .. (auctions'[i].start_price - 1)
    <3>1. /\ auctions[i].status = "Active"
          /\ \E e : auctions' = [auctions EXCEPT ![i].current_bid = bid,
                                 ![i].current_bidder = u, ![i].end_time = e]
      BY <2>3 DEF PlaceBid
    <3>2. PICK e : auctions'[i] = [auctions[i] EXCEPT !.current_bid = bid,
                                    !.current_bidder = u, !.end_time = e]
      BY <3>1 DEF WellFormed
    <3>3. auctions[i] \in AuctionRecord
      BY <3>1, OpenRecords
    <3>4. /\ auctions'[i].floor_price = auctions[i].floor_price
          /\ auctions'[i].start_price = auctions[i].start_price
      BY <3>2, <3>3 DEF AuctionRecord
    <3> QED BY <2>1, <3>1, <3>4
  <2> QED BY <1>2, <2>2, <2>3, WhoChangesAnAuction
        DEF BuyDutchAuction, CancelDutchAuction, SettleWithoutBid, SettleWithWinner, Settle, Settleable
<1> QED BY <1>1, <1>2

\* In every reachable state the stored records are well formed: prices and
\* bids are never negative, a Dutch auction has room to fall, an auction ends
\* after it starts, the fee and every royalty share stay within their limits.
\* (The validations of every handler, taken together.)
THEOREM TypeCorrect == Spec => []TypeOK
<1>1. Init => FloorsChecked
  BY DEF Init, FloorsChecked, NoRecord
<1>2. WellFormed /\ FloorsChecked /\ [Next]_vars => FloorsChecked'
  BY FloorsStay
<1>3. WellFormed /\ FloorsChecked => TypeOK
  BY DEF TypeOK
<1> QED BY <1>1, <1>2, <1>3, AlwaysWellFormed, PTL DEF Spec

\* An offer changes only when it is made, accepted or cancelled.
LEMMA WhoChangesAnOffer ==
    ASSUME WellFormed, [Next]_vars, NEW i \in OfferIds, offers'[i] # offers[i]
    PROVE  \/ OfferReissued(i) /\ offers'[i].status = "Pending"
           \/ \E u \in Users : AcceptOffer(u, i)
           \/ \E u \in Users : CancelOffer(u, i)
<1>0. offers \in [OfferIds -> OfferRecord \cup {NoRecord}]
  BY DEF WellFormed
<1>1. OfferStep
  <2>1. offers' # offers
    OBVIOUS
  <2>2. ~ UNCHANGED vars /\ ~Tick
    BY <2>1 DEF vars, Tick, records
  <2>3. ~AdminStep
    BY <2>1 DEF AdminStep, Initialize, SetPlatformFee, SetFeeRecipient, SetBidIncrement,
        SetAutoExtension, SetCurrency, RegisterCollection, SetCollectionRoyalties, records
  <2>4. ~AuctionStep
    BY <2>1, AuctionStepFrame
  <2>5. ~ListingStep
    BY <2>1 DEF ListingStep, ListNft, BuyNft, CancelListing
  <2> QED BY <2>2, <2>3, <2>4, <2>5 DEF Next
<1>2. ASSUME NEW u \in Users, NEW recipient \in Users, NEW coll \in Collections,
             NEW amount \in NftAmounts, NEW payment \in Prices, NEW currency \in Currencies,
             NEW duration \in Durations,
             MakeOffer(u, recipient, coll, amount, payment, currency, duration)
      PROVE  OfferReissued(i) /\ offers'[i].status = "Pending"
  <2> DEFINE id == offer_seq + 1
             o == [offerer |-> u, recipient |-> recipient, collection |-> coll,
                   amount |-> amount, offer_amount |-> payment, currency |-> currency,
                   status |-> "Pending", expires_at |-> now + duration]
  <2>1. /\ id \in OfferIds /\ offer_seq' = id
        /\ offers' = [offers EXCEPT ![id] = o]
    BY <1>2 DEF MakeOffer
  <2>2. o.status = "Pending"
    OBVIOUS
  <2> HIDE DEF o
  <2>3. i = id
    BY <1>0, <2>1
  <2>4. offer_seq = i - 1
    BY <2>3, BoundsType DEF WellFormed
  <2> QED BY <1>0, <2>1, <2>2, <2>3, <2>4 DEF OfferReissued
<1>3. ASSUME NEW u \in Users, NEW id \in OfferIds, AcceptOffer(u, id) \/ CancelOffer(u, id)
      PROVE  i = id
  BY <1>0, <1>3 DEF AcceptOffer, CancelOffer
<1> QED BY <1>1, <1>2, <1>3 DEF OfferStep

\* What ClosedStaysClosed says of a step.
ClosedIsKept ==
    /\ \A i \in ListingIds : listings[i].status \in {"Sold", "Cancelled"}
        => listings'[i] = listings[i] \/ ListingReissued(i)
    /\ \A i \in AuctionIds : auctions[i].status \in {"Settled", "Cancelled"}
        => auctions'[i] = auctions[i] \/ AuctionReissued(i)
    /\ \A i \in OfferIds : offers[i].status \in {"Accepted", "Cancelled"}
        => offers'[i] = offers[i] \/ OfferReissued(i)

\* No call writes a closed record.
LEMMA ClosedStep == WellFormed /\ [Next]_vars => ClosedIsKept
<1> SUFFICES ASSUME WellFormed, [Next]_vars PROVE ClosedIsKept
  OBVIOUS
<1>1. ASSUME NEW i \in ListingIds, listings[i].status \in {"Sold", "Cancelled"}
      PROVE  listings'[i] = listings[i] \/ ListingReissued(i)
  BY <1>1, WhoChangesAListing DEF BuyNft, CancelListing
<1>2. ASSUME NEW i \in AuctionIds, auctions[i].status \in {"Settled", "Cancelled"}
      PROVE  auctions'[i] = auctions[i] \/ AuctionReissued(i)
  BY <1>2, WhoChangesAnAuction DEF PlaceBid, BuyDutchAuction, CancelDutchAuction,
      SettleWithoutBid, SettleWithWinner, Settle, Settleable
<1>3. ASSUME NEW i \in OfferIds, offers[i].status \in {"Accepted", "Cancelled"}
      PROVE  offers'[i] = offers[i] \/ OfferReissued(i)
  BY <1>3, WhoChangesAnOffer DEF AcceptOffer, CancelOffer, Cancellable
<1> QED BY <1>1, <1>2, <1>3 DEF ClosedIsKept

\* A bought or cancelled listing, a settled or cancelled auction, an accepted
\* or cancelled offer is never touched again, by nobody and at no time: there
\* is no second payout, whatever races for it.
THEOREM ClosedForGood == Spec => ClosedStaysClosed
<1>1. WellFormed /\ [Next]_vars => [ClosedIsKept]_vars
  BY ClosedStep
<1> QED BY <1>1, AlwaysWellFormed, PTL DEF Spec, ClosedStaysClosed, ClosedIsKept

\* A part of a range grows with the part of the time that has gone by.
LEMMA DecayGrows ==
    ASSUME NEW r \in Nat, NEW e \in Nat, NEW f \in Nat, NEW d \in Nat \ {0}, e <= f
    PROVE  (r * e) \div d <= (r * f) \div d
<1>1. r * e \in Nat /\ r * f \in Nat /\ r * e <= r * f
  OBVIOUS
<1> DEFINE p == (r * e) \div d
           q == (r * f) \div d
<1>2. p \in Nat /\ d * p <= r * e
  BY <1>1
<1>3. q \in Nat /\ r * f < d * q + d
  BY <1>1
<1> HIDE DEF p, q
<1>4. d * p < d * q + d
  BY <1>1, <1>2, <1>3
<1>5. ASSUME p >= q + 1 PROVE FALSE
  <2>1. d * p >= d * (q + 1)
    BY <1>2, <1>3, <1>5
  <2>2. d * (q + 1) = d * q + d
    BY <1>3
  <2> QED BY <1>2, <1>3, <1>4, <2>1, <2>2
<1>6. p <= q
  BY <1>2, <1>3, <1>5
<1> QED BY <1>6 DEF p, q

\* The bounds of a Dutch price, of the next state.
LEMMA DutchPriceBoundsNext ==
    ASSUME NEW i \in AuctionIds
    PROVE  TypeOK' /\ auctions'[i].status # "None"
            => /\ DutchPrice(auctions[i])' \in Nat
               /\ auctions'[i].floor_price <= DutchPrice(auctions[i])'
               /\ DutchPrice(auctions[i])' <= auctions'[i].start_price
<1>1. TypeOK /\ auctions[i].status # "None"
            => /\ DutchPrice(auctions[i]) \in Nat
               /\ auctions[i].floor_price <= DutchPrice(auctions[i])
               /\ DutchPrice(auctions[i]) <= auctions[i].start_price
  BY DutchPriceBounds
<1>2. (TypeOK /\ auctions[i].status # "None"
            => /\ DutchPrice(auctions[i]) \in Nat
               /\ auctions[i].floor_price <= DutchPrice(auctions[i])
               /\ DutchPrice(auctions[i]) <= auctions[i].start_price)'
  BY <1>1, PTL
<1> QED BY <1>2

\* A Dutch auction that stays open is the auction it was: nobody bids on it.
LEMMA OpenDutchKept ==
    ASSUME WellFormed, [Next]_vars, NEW i \in AuctionIds,
           auctions[i].status = "Active", auctions'[i].status = "Active",
           auctions[i].auction_type = "Dutch", ~AuctionReissued(i)
    PROVE  auctions'[i] = auctions[i]
<1>1. /\ auctions[i] \in AuctionRecord
      /\ \A s : [auctions EXCEPT ![i].status = s][i].status = s
  BY OpenRecords DEF WellFormed, AuctionRecord
<1> QED BY <1>1, WhoChangesAnAuction DEF PlaceBid, BuyDutchAuction, CancelDutchAuction,
    SettleWithoutBid, SettleWithWinner, Settle

\* No call sets the clock, which ticks second by second.
LEMMA ClockTicks ==
    ASSUME WellFormed, [Next]_vars
    PROVE  now \in Nat /\ (now' = now \/ now' = now + 1)
<1>1. AuctionStep => now' = now
  BY AuctionStepFrame
<1>2. AdminStep => now' = now
  BY DEF AdminStep, Initialize, SetPlatformFee, SetFeeRecipient, SetBidIncrement,
      SetAutoExtension, SetCurrency, RegisterCollection, SetCollectionRoyalties
<1>3. ListingStep \/ OfferStep => now' = now
  BY DEF ListingStep, ListNft, BuyNft, CancelListing, OfferStep, MakeOffer, AcceptOffer,
      CancelOffer
<1> QED BY <1>1, <1>2, <1>3 DEF Next, Tick, vars, WellFormed

\* Of an open Dutch auction that stays open, the price goes from start price
\* to floor price in one direction: no bid, setting or rounding lifts it.
THEOREM DutchPricesOnlyFall == Spec => DutchPriceOnlyFalls
<1> DEFINE Step ==
        \A i \in AuctionIds :
          LET a == auctions[i]  b == auctions'[i]
          IN  /\ a.status = "Active" /\ b.status = "Active" /\ a.auction_type = "Dutch"
              /\ ~AuctionReissued(i)
              => /\ DutchPrice(auctions[i])' <= DutchPrice(a)
                 /\ a.floor_price <= DutchPrice(a)
                 /\ DutchPrice(a) <= a.start_price
<1>1. TypeOK /\ TypeOK' /\ [Next]_vars => [Step]_vars
  <2> SUFFICES ASSUME TypeOK, TypeOK', [Next]_vars PROVE Step
    BY DEF vars
  <2>0. WellFormed
    BY DEF TypeOK
  <2> SUFFICES ASSUME NEW i \in AuctionIds,
                      auctions[i].status = "Active", auctions'[i].status = "Active",
                      auctions[i].auction_type = "Dutch", ~AuctionReissued(i)
               PROVE  /\ DutchPrice(auctions[i])' <= DutchPrice(auctions[i])
                      /\ auctions[i].floor_price <= DutchPrice(auctions[i])
                      /\ DutchPrice(auctions[i]) <= auctions[i].start_price
    OBVIOUS
  <2>1. auctions'[i] = auctions[i]
    BY <2>0, OpenDutchKept
  <2>2. now \in Nat /\ (now' = now \/ now' = now + 1)
    BY <2>0, ClockTicks
  <2> DEFINE a == auctions[i]
  <2>3. /\ DutchPrice(a) \in Nat /\ a.floor_price <= DutchPrice(a)
        /\ DutchPrice(a) <= a.start_price
    BY DutchPriceBounds
  <2>4. /\ auctions'[i].floor_price <= DutchPrice(auctions[i])'
        /\ DutchPrice(auctions[i])' <= auctions'[i].start_price
        /\ DutchPrice(auctions[i])' \in Nat
    BY DutchPriceBoundsNext
  <2>5. /\ a.floor_price \in Nat /\ a.start_price \in Nat
        /\ a.start_time \in Nat /\ a.end_time \in Nat
        /\ a.floor_price < a.start_price /\ a.start_time < a.end_time
    <3>1. a \in AuctionRecord
      BY <2>0, OpenRecords
    <3>2. a.start_time < a.end_time /\ a.floor_price \in 0 .. (a.start_price - 1)
      BY DEF TypeOK, WellFormed, AuctionTerms, FloorsChecked
    <3>3. a.start_price \in Nat /\ a.start_time \in Nat /\ a.end_time \in Nat
      BY <3>1 DEF AuctionRecord
    <3> HIDE DEF a
    <3> QED BY <3>2, <3>3
  <2>6. DutchPrice(auctions[i])' =
            LET price == a.start_price - ((a.start_price - a.floor_price) * (now' - a.start_time))
                                            \div (a.end_time - a.start_time)
            IN  IF now' >= a.end_time THEN a.floor_price
                ELSE IF now' <= a.start_time THEN a.start_price
                ELSE IF price > 0 THEN price ELSE 0
    BY <2>1 DEF DutchPrice, DutchDecay
  <2>7. CASE now' = now
    <3>1. DutchPrice(auctions[i])' = DutchPrice(a)
      BY <2>6, <2>7 DEF DutchPrice, DutchDecay
    <3> QED BY <2>3, <3>1
  <2>8. CASE now' = now + 1
    <3>1. CASE now' >= a.end_time
      BY <2>3, <2>4, <2>6, <3>1
    <3>2. CASE now <= a.start_time
      <4>1. DutchPrice(a) = a.start_price
        BY <2>2, <2>5, <3>2 DEF DutchPrice
      <4> QED BY <2>1, <2>3, <2>4, <4>1
    <3>3. CASE a.start_time < now /\ now' < a.end_time
      <4> DEFINE r == a.start_price - a.floor_price
                 d == a.end_time - a.start_time
                 p == (r * (now - a.start_time)) \div d
                 q == (r * (now' - a.start_time)) \div d
      <4>1. /\ r \in Nat /\ d \in Nat \ {0} /\ now - a.start_time \in Nat
            /\ now' - a.start_time \in Nat /\ now - a.start_time <= now' - a.start_time
            /\ now' - a.start_time <= d /\ now - a.start_time <= d
        BY <2>2, <2>5, <2>8, <3>3
      <4> HIDE DEF r, d
      <4>2. p <= q
        BY ONLY <4>1, DecayGrows
      <4>3. p \in 0 .. r /\ q \in 0 .. r
        BY ONLY <4>1, DecayBounds
      <4> HIDE DEF p, q
      <4>4. DutchPrice(a) = IF a.start_price - p > 0 THEN a.start_price - p ELSE 0
        BY <2>2, <2>5, <2>8, <3>3 DEF DutchPrice, DutchDecay, p, r, d
      <4>5. DutchPrice(auctions[i])' = IF a.start_price - q > 0 THEN a.start_price - q ELSE 0
        <5>1. ~(now' >= a.end_time) /\ ~(now' <= a.start_time)
          BY <2>2, <2>5, <2>8, <3>3
        <5> QED BY <2>6, <5>1 DEF q, r, d
      <4> QED BY <2>3, <2>5, <4>1, <4>2, <4>3, <4>4, <4>5
    <3> QED BY <2>2, <2>5, <2>8, <3>1, <3>2, <3>3
  <2> QED BY <2>2, <2>3, <2>7, <2>8
<1> QED BY <1>1, TypeCorrect, PTL DEF Spec, DutchPriceOnlyFalls

\* A standing bid is a user's, on an English auction.
StandingBidders ==
    \A i \in AuctionIds : auctions[i].status # "None" /\ auctions[i].current_bid > 0
        => auctions[i].current_bidder \in Users /\ auctions[i].auction_type = "English"

\* Before the first call nobody has bid.
LEMMA InitBidders == Init => StandingBidders
BY DEF Init, StandingBidders, NoRecord

\* Only users bid, and on nothing but English auctions.
LEMMA BidderStep == WellFormed /\ StandingBidders /\ [Next]_vars => StandingBidders'
<1> DEFINE Good(a) == a.current_bidder \in Users /\ a.auction_type = "English"
<1>2. WellFormed /\ StandingBidders /\ [Next]_vars => StandingBidders'
  <2> SUFFICES ASSUME WellFormed, StandingBidders, [Next]_vars, NEW i \in AuctionIds,
                      auctions'[i].status # "None", auctions'[i].current_bid > 0
               PROVE  Good(auctions'[i])
    BY DEF StandingBidders
  <2>0. auctions \in [AuctionIds -> AuctionRecord \cup {NoRecord}]
    BY DEF WellFormed
  <2>1. CASE auctions'[i] = auctions[i]
    BY <2>1 DEF StandingBidders
  <2>2. ASSUME NEW u \in Users, NEW bid \in Prices, PlaceBid(u, i, bid)
        PROVE  Good(auctions'[i])
    <3>1. auctions[i] \in AuctionRecord
      BY <2>2, OpenRecords DEF PlaceBid
    <3>2. PICK e : auctions' = [auctions EXCEPT ![i].current_bid = bid,
                                                ![i].current_bidder = u, ![i].end_time = e]
      BY <2>2 DEF PlaceBid
    <3>3. auctions[i].auction_type = "English"
      BY <2>2 DEF PlaceBid
    <3> QED BY <2>0, <3>1, <3>2, <3>3 DEF AuctionRecord
  <2>3. ASSUME auctions[i].status = "Active",
               NEW s, auctions' = [auctions EXCEPT ![i].status = s]
        PROVE  Good(auctions'[i])
    <3>1. auctions[i] \in AuctionRecord
      BY <2>3, OpenRecords
    <3>2. /\ auctions'[i].current_bidder = auctions[i].current_bidder
          /\ auctions'[i].current_bid = auctions[i].current_bid
          /\ auctions'[i].auction_type = auctions[i].auction_type
      BY <2>0, <2>3, <3>1 DEF AuctionRecord
    <3> QED BY <2>3, <3>2 DEF StandingBidders
  <2>4. ASSUME NEW u \in Users, BuyDutchAuction(u, i) \/ CancelDutchAuction(u, i)
        PROVE  Good(auctions'[i])
    BY <2>3, <2>4 DEF BuyDutchAuction, CancelDutchAuction
  <2>5. ASSUME SettleWithoutBid(i) \/ SettleWithWinner(i)
        PROVE  Good(auctions'[i])
    BY <2>3, <2>5 DEF SettleWithoutBid, SettleWithWinner, Settle, Settleable
  <2>6. auctions'[i].current_bid # 0
    OBVIOUS
  <2> QED BY <2>1, <2>2, <2>4, <2>5, <2>6, WhoChangesAnAuction
<1> QED BY <1>2

\* So it is in every state.
LEMMA BiddersAreUsers == Spec => []StandingBidders
BY InitBidders, BidderStep, AlwaysWellFormed, PTL DEF Spec

\* What a bid does: it tops the standing one, does not shorten the auction,
\* and moves exactly itself in and the standing bid out.
LEMMA BidEffect ==
    ASSUME WellFormed, StandingBidders, NEW bidder \in Users, NEW id \in AuctionIds,
           NEW bid \in Prices, PlaceBid(bidder, id, bid)
    PROVE  LET a == auctions[id]  b == auctions'[id] IN
           /\ b.current_bid = bid /\ bid > a.current_bid /\ b.end_time >= a.end_time
           /\ balance'[a.currency][Market] - balance[a.currency][Market] = bid - a.current_bid
           /\ a.current_bid > 0 =>
                balance'[a.currency][a.current_bidder]
                    = balance[a.currency][a.current_bidder] + a.current_bid
<1> DEFINE a == auctions[id]
           b == auctions'[id]
           R == Refunded(a)
           T == Transfer(R[a.currency], bidder, Market, bid)
           extended == IF a.end_time - now <= a.auto_extension_window
                       THEN now + a.auto_extension_window ELSE a.end_time
           increment == (a.current_bid * config.bid_increment_bps) \div BPS_DENOM
<1>1. /\ a \in AuctionRecord /\ a.status = "Active" /\ bid \in Nat \ {0}
      /\ balance' \in [Tokens -> [Accounts -> Nat]]
  BY PlaceBidBounds DEF PlaceBid
<1>2. /\ a.currency \in Tokens /\ a.current_bid \in Nat /\ a.start_price \in Nat \ {0}
      /\ a.end_time \in Nat /\ a.auto_extension_window \in Nat /\ now \in Nat
      /\ bidder \in Accounts /\ Market \in Accounts /\ bidder # Market
      /\ balance \in [Tokens -> [Accounts -> Nat]]
  BY <1>1, MarketAssumption DEF AuctionRecord, Tokens, Accounts, WellFormed
<1>3. /\ bid >= MinBid(a)
      /\ ~(a.current_bid > 0 /\ a.current_bidder = bidder)
      /\ CanTransfer(balance[a.currency], Market, a.current_bid)
      /\ CanTransfer(R[a.currency], bidder, bid)
      /\ balance' = [R EXCEPT ![a.currency] = T]
      /\ auctions' = [auctions EXCEPT ![id].current_bid = bid, ![id].current_bidder = bidder,
                                      ![id].end_time = extended]
  BY DEF PlaceBid
<1>4. R \in [Tokens -> [Accounts -> Nat]]
  BY <1>1, <1>3, RefundBounds
<1>5. b.current_bid = bid /\ b.end_time = extended
  <2> HIDE DEF extended
  <2> QED BY <1>1, <1>3 DEF AuctionRecord, WellFormed
<1>6. extended >= a.end_time
  BY <1>2
<1>7. bid > a.current_bid
  <2>1. CASE a.current_bid = 0
    BY <1>1, <1>2, <2>1
  <2>2. CASE a.current_bid # 0
    <3>1. MinBid(a) = a.current_bid + (IF increment > 1 THEN increment ELSE 1)
      BY <2>2 DEF MinBid
    <3>2. increment \in Nat
      <4>1. config.bid_increment_bps \in Nat
        <5>1. config.bid_increment_bps \in 0 .. MAX_BID_INCREMENT_BPS
          BY DEF WellFormed, ConfigRecord
        <5>2. MAX_BID_INCREMENT_BPS \in Nat
          BY DEF MAX_BID_INCREMENT_BPS
        <5>3. \A m \in Nat : \A n \in 0 .. m : n \in Nat
          OBVIOUS
        <5> QED BY ONLY <5>1, <5>2, <5>3
      <4>2. a.current_bid * config.bid_increment_bps \in Nat
        BY ONLY <1>2, <4>1, ProductType
      <4> QED BY ONLY <4>2, BpsDivision
    <3> HIDE DEF increment
    <3> QED BY <1>1, <1>2, <1>3, <3>1, <3>2
  <2> QED BY <2>1, <2>2
<1> HIDE DEF R, a
<1>8. balance'[a.currency] = T
  BY <1>2, <1>3, <1>4
<1>9. T[Market] = R[a.currency][Market] + bid
      /\ \A x \in Accounts \ {bidder, Market} : T[x] = R[a.currency][x]
  <2>1. R[a.currency] \in [Accounts -> Nat] /\ bid \in Int
    BY <1>1, <1>2, <1>4
  <2>2. bidder \in Accounts /\ Market \in Accounts /\ bidder # Market
    BY <1>2
  <2>3. CanTransfer(R[a.currency], bidder, bid)
    BY <1>3
  <2> QED BY ONLY <2>1, <2>2, <2>3, TransferBounds
<1>10. /\ R[a.currency][Market] = balance[a.currency][Market] - a.current_bid
       /\ a.current_bid > 0 =>
            /\ a.current_bidder \in Users
            /\ R[a.currency][a.current_bidder]
                  = balance[a.currency][a.current_bidder] + a.current_bid
  <2>1. CASE a.current_bid = 0
    <3>1. R = balance
      BY <2>1 DEF R, Refunded
    <3>2. balance[a.currency][Market] \in Nat
      BY <1>2
    <3> QED BY <2>1, <3>1, <3>2
  <2>2. CASE a.current_bid > 0
    <3> DEFINE U == Transfer(balance[a.currency], Market, a.current_bidder, a.current_bid)
    <3>1. a.current_bidder \in Users
      BY <1>1, <2>2 DEF StandingBidders, a
    <3>2. a.current_bidder \in Accounts /\ a.current_bidder # Market
      BY <3>1, MarketAssumption DEF Accounts
    <3>3. R = [balance EXCEPT ![a.currency] = U]
      BY <2>2 DEF R, Refunded
    <3>4. /\ U[Market] = balance[a.currency][Market] - a.current_bid
          /\ U[a.current_bidder] = balance[a.currency][a.current_bidder] + a.current_bid
      <4>1. balance[a.currency] \in [Accounts -> Nat] /\ a.current_bid \in Int
        BY <1>2
      <4>2. CanTransfer(balance[a.currency], Market, a.current_bid) /\ Market \in Accounts
        BY <1>2, <1>3
      <4> QED BY ONLY <3>2, <4>1, <4>2, TransferBounds
    <3>5. R[a.currency] = U
      <4> HIDE DEF U
      <4> QED BY <1>2, <3>3
    <3> QED BY <3>1, <3>4, <3>5
  <2> QED BY <1>2, <2>1, <2>2
<1> HIDE DEF T
<1>11. balance'[a.currency][Market] - balance[a.currency][Market] = bid - a.current_bid
  <2>1. balance[a.currency][Market] \in Nat
    BY <1>2
  <2> QED BY <1>1, <1>2, <1>8, <1>9, <1>10, <2>1
<1>12. ASSUME a.current_bid > 0
       PROVE  balance'[a.currency][a.current_bidder]
                    = balance[a.currency][a.current_bidder] + a.current_bid
  <2>1. a.current_bidder \in Accounts \ {bidder, Market}
    BY <1>3, <1>10, <1>12, MarketAssumption DEF Accounts
  <2> QED BY <1>8, <1>9, <1>10, <1>12, <2>1
<1> HIDE DEF extended, b
<1> QED BY <1>5, <1>6, <1>7, <1>11, <1>12 DEF a, b

\* Record i stays open under another bid.
TopsTheBid(i) ==
    /\ auctions[i].status = "Active" /\ auctions'[i].status = "Active"
    /\ auctions[i].current_bid # auctions'[i].current_bid

\* The step repays the bid that stood on record i, and keeps the difference.
RepaysTheBid(i) ==
    LET a == auctions[i]  b == auctions'[i]
    IN  /\ b.current_bid > a.current_bid
        /\ b.end_time >= a.end_time
        /\ balance'[a.currency][Market] - balance[a.currency][Market]
              = b.current_bid - a.current_bid
        /\ a.current_bid > 0 =>
              balance'[a.currency][a.current_bidder]
                  = balance[a.currency][a.current_bidder] + a.current_bid

\* Nothing but a bid changes the standing bid of an open auction.
LEMMA OutbidStep ==
    ASSUME WellFormed, StandingBidders, [Next]_vars, NEW i \in AuctionIds,
           TopsTheBid(i), ~AuctionReissued(i)
    PROVE  RepaysTheBid(i)
<1>1. \E u \in Users, bid \in Prices : PlaceBid(u, i, bid)
  <2>1. /\ auctions[i] \in AuctionRecord
        /\ \A s : [auctions EXCEPT ![i].status = s][i].status = s
    BY OpenRecords DEF WellFormed, AuctionRecord, TopsTheBid
  <2>2. auctions'[i] # auctions[i] /\ auctions'[i].status = "Active"
    BY DEF TopsTheBid
  <2>3. ~ \E u \in Users : BuyDutchAuction(u, i) \/ CancelDutchAuction(u, i)
    BY <2>1, <2>2 DEF BuyDutchAuction, CancelDutchAuction
  <2>4. ~SettleWithoutBid(i) /\ ~SettleWithWinner(i)
    BY <2>1, <2>2 DEF SettleWithoutBid, SettleWithWinner, Settle
  <2> QED BY <2>2, <2>3, <2>4, WhoChangesAnAuction
<1> QED BY <1>1, BidEffect DEF RepaysTheBid

\* Whoever is outbid gets the whole bid back in that very step, whatever
\* increments and windows the admin sets meanwhile; the contract keeps exactly
\* the difference and the auction does not get shorter.  (place_bid.)
THEOREM OutbidAlwaysMadeWhole == Spec => OutbidIsMadeWhole
<1> DEFINE Step == \A i \in AuctionIds :
          LET a == auctions[i]  b == auctions'[i]
          IN  /\ a.status = "Active" /\ b.status = "Active" /\ a.current_bid # b.current_bid
              /\ ~AuctionReissued(i)
              => /\ b.current_bid > a.current_bid
                 /\ b.end_time >= a.end_time
                 /\ balance'[a.currency][Market] - balance[a.currency][Market]
                        = b.current_bid - a.current_bid
                 /\ a.current_bid > 0 =>
                        balance'[a.currency][a.current_bidder]
                            = balance[a.currency][a.current_bidder] + a.current_bid
<1>1. WellFormed /\ StandingBidders /\ [Next]_vars => [Step]_vars
  BY OutbidStep DEF TopsTheBid, RepaysTheBid
<1> QED BY <1>1, AlwaysWellFormed, BiddersAreUsers, PTL DEF Spec, OutbidIsMadeWhole

-----------------------------------------------------------------------------

\* A trade of two tokens: the currency sees the payments and nothing else, the
\* collection the hand-over and nothing else.
LEMMA TradeLegs ==
    ASSUME WellFormed, NEW currency \in Tokens, NEW coll \in Tokens, currency # coll,
           NEW payer, NEW pay, NEW from, NEW to, NEW amount,
           Trade(currency, payer, pay, coll, from, to, amount)
    PROVE  /\ CanPayAll(balance[currency], payer, pay)
           /\ balance'[currency] = PayAll(balance[currency], payer, pay)
           /\ CanTransfer(balance[coll], from, amount)
           /\ balance'[coll] = Transfer(balance[coll], from, to, amount)
<1> DEFINE B == PayAll(balance[currency], payer, pay)
           paid == [balance EXCEPT ![currency] = B]
<1>1. DOMAIN balance = Tokens
  BY DEF WellFormed
<1>2. /\ CanPayAll(balance[currency], payer, pay)
      /\ CanTransfer(paid[coll], from, amount)
      /\ balance' = [paid EXCEPT ![coll] = Transfer(paid[coll], from, to, amount)]
  BY DEF Trade
<1> HIDE DEF B
<1>3. paid[coll] = balance[coll] /\ paid[currency] = B /\ DOMAIN paid = Tokens
  BY <1>1
<1> HIDE DEF paid
<1> QED BY <1>2, <1>3 DEF B

\* In a sale nobody, payer included, parts with more than the price.
LEMMA SaleCost ==
    ASSUME WellFormed, RoyaltiesLeaveRoom,
           NEW currency \in Tokens, NEW coll \in Tokens, currency # coll,
           NEW payer \in Accounts, NEW price \in Nat,
           NEW seller, NEW from, NEW to, NEW amount,
           Trade(currency, payer, SalePayments(price, coll, seller), coll, from, to, amount)
    PROVE  \A x \in Accounts : balance[currency][x] - price <= balance'[currency][x]
<1> DEFINE pay == SalePayments(price, coll, seller)
           hi == Len(Royalties(coll)) + 1
           B == PayAll(balance[currency], payer, pay)
<1>1. balance[currency] \in [Accounts -> Nat]
  BY DEF WellFormed
<1>2. /\ 0 \in Int /\ hi \in Int /\ 0 <= hi /\ DOMAIN pay = 0 .. hi
      /\ \A k \in 0 .. hi : pay[k].amount \in Nat
  <2>1. /\ hi \in Int /\ 0 <= hi /\ DOMAIN pay = 0 .. hi
        /\ \A k \in 0 .. hi : pay[k].amount \in Nat
    BY SalePaymentsType, ZenonT(30)
  <2> HIDE DEF pay, hi
  <2> QED BY <2>1
<1>3. PayTotal(pay) = price
  BY SaleTotal
<1>4. CanPayAll(balance[currency], payer, pay) /\ balance'[currency] = B
  BY TradeLegs
<1> HIDE DEF pay, hi
<1>5. /\ B \in [Accounts -> Nat]
      /\ B[payer] >= balance[currency][payer] - price
      /\ \A x \in Accounts \ {payer} : B[x] >= balance[currency][x]
  BY ONLY <1>1, <1>2, <1>3, <1>4, PayAllBounds, payer \in Accounts
<1> HIDE DEF B
<1>6. ASSUME NEW x \in Accounts PROVE balance[currency][x] - price <= B[x]
  <2>1. balance[currency][x] \in Nat /\ B[x] \in Nat
    BY <1>1, <1>5
  <2> QED BY <1>5, <2>1
<1> QED BY <1>4, <1>6

\* What a sale at a price of any sign costs: a negative one is not paid.
Cost(price) == IF price > 0 THEN price ELSE 0

\* The same of any price, as a floor nobody checked makes it.
LEMMA SaleCostAtAnyPrice ==
    ASSUME WellFormed, RoyaltiesLeaveRoom,
           NEW currency \in Tokens, NEW coll \in Tokens, currency # coll,
           NEW payer \in Accounts, NEW price \in Int,
           NEW seller, NEW from, NEW to, NEW amount,
           Trade(currency, payer, SalePayments(price, coll, seller), coll, from, to, amount)
    PROVE  \A x \in Accounts : balance[currency][x] - Cost(price) <= balance'[currency][x]
<1>1. CASE price > 0
  <2>1. price \in Nat /\ Cost(price) = price
    BY <1>1 DEF Cost
  <2> QED BY <2>1, SaleCost
<1>2. CASE ~(price > 0)
  <2>1. balance[currency] \in [Accounts -> Nat] /\ price <= 0 /\ Cost(price) = 0
    BY <1>2 DEF WellFormed, Cost
  <2>2. balance'[currency] = PayAll(balance[currency], payer, SalePayments(price, coll, seller))
    BY TradeLegs
  <2>3. balance'[currency] = balance[currency]
    BY <2>1, <2>2, NothingPaid
  <2> QED BY <2>1, <2>3
<1> QED BY <1>1, <1>2

\* In a purchase nobody parts with more than the price of the listing.
LEMMA PurchaseCost ==
    ASSUME WellFormed, RoyaltiesLeaveRoom, [Next]_vars, NEW i \in ListingIds, SoldNow(i),
           listings[i].collection # listings[i].currency
    PROVE  \A x \in Accounts : balance[listings[i].currency][x] - listings[i].price
                                    <= balance'[listings[i].currency][x]
<1> DEFINE l == listings[i]
<1>1. l \in ListingRecord /\ l.status = "Active"
  BY OpenRecords DEF SoldNow
<1>2. ~ \E u \in Users : CancelListing(u, i)
  <2>1. [listings EXCEPT ![i].status = "Cancelled"][i].status = "Cancelled"
    BY <1>1 DEF WellFormed, ListingRecord
  <2> QED BY <2>1 DEF CancelListing, SoldNow
<1>3. PICK u \in Users : BuyNft(u, i)
  BY <1>1, <1>2, WhoChangesAListing DEF SoldNow
<1>4. Trade(l.currency, u, SalePayments(l.price, l.collection, l.seller),
            l.collection, Market, u, l.amount)
  BY <1>3 DEF BuyNft
<1>5. l.currency \in Tokens /\ l.collection \in Tokens /\ u \in Accounts /\ l.price \in Nat
  BY <1>1 DEF ListingRecord, Tokens, Accounts
<1> QED BY <1>4, <1>5, SaleCost

\* In a settlement nobody parts with more than the hammer price.
LEMMA SettlementCost ==
    ASSUME WellFormed, StandingBidders, RoyaltiesLeaveRoom, [Next]_vars,
           NEW i \in AuctionIds, SettledNow(i), auctions[i].collection # auctions[i].currency
    PROVE  \A x \in Accounts : balance[auctions[i].currency][x] - Cost(HammerPrice(auctions[i]))
                                    <= balance'[auctions[i].currency][x]
<1> DEFINE a == auctions[i]
           price == HammerPrice(a)
<1>1. a \in AuctionRecord /\ a.status = "Active"
  BY OpenRecords DEF SettledNow
<1>2. ~ \E u \in Users : CancelDutchAuction(u, i)
  <2>1. [auctions EXCEPT ![i].status = "Cancelled"][i].status = "Cancelled"
    BY <1>1 DEF WellFormed, AuctionRecord
  <2> QED BY <2>1 DEF CancelDutchAuction, SettledNow
<1>3. ~ \E u \in Users, bid \in Prices : PlaceBid(u, i, bid)
  <2> SUFFICES ASSUME NEW u \in Users, NEW bid \in Prices, PlaceBid(u, i, bid)
               PROVE  FALSE
    OBVIOUS
  <2>1. PICK e : auctions' = [auctions EXCEPT ![i].current_bid = bid,
                                              ![i].current_bidder = u, ![i].end_time = e]
    BY DEF PlaceBid
  <2>2. auctions'[i].status = "Active"
    BY <1>1, <2>1 DEF WellFormed, AuctionRecord
  <2> QED BY <2>2 DEF SettledNow
<1>4. a.currency \in Tokens /\ a.collection \in Tokens /\ a.current_bid \in Nat
  BY <1>1 DEF AuctionRecord, Tokens
<1>5. price \in Int /\ Cost(price) \in Nat
  <2>1. price \in Int
    BY <1>1, <1>4, DutchPriceType DEF HammerPrice
  <2> HIDE DEF price
  <2> QED BY <2>1 DEF Cost
<1>6. \A x \in Accounts : balance[a.currency][x] \in Nat
  BY <1>4 DEF WellFormed
<1> HIDE DEF price
<1>7. ASSUME NEW u \in Users, BuyDutchAuction(u, i)
      PROVE  \A x \in Accounts : balance[a.currency][x] - Cost(price) <= balance'[a.currency][x]
  <2>1. Trade(a.currency, u, SalePayments(price, a.collection, a.seller),
              a.collection, Market, u, a.amount)
    BY <1>7 DEF BuyDutchAuction, HammerPrice, price
  <2>2. u \in Accounts
    BY DEF Accounts
  <2> QED BY <1>4, <1>5, <2>1, <2>2, SaleCostAtAnyPrice
<1>8. ASSUME SettleWithWinner(i)
      PROVE  \A x \in Accounts : balance[a.currency][x] - Cost(price) <= balance'[a.currency][x]
  <2>1. a.current_bid # 0 /\ a.current_bid > 0
    BY <1>4, <1>8 DEF SettleWithWinner
  <2>2. price = a.current_bid
    BY <1>1, <2>1 DEF StandingBidders, HammerPrice, price
  <2>3. Trade(a.currency, Market, SalePayments(price, a.collection, a.seller),
              a.collection, Market, a.current_bidder, a.amount)
    BY <1>8, <2>2 DEF SettleWithWinner
  <2>4. Market \in Accounts
    BY DEF Accounts
  <2> QED BY <1>4, <1>5, <2>3, <2>4, SaleCostAtAnyPrice
<1>9. ASSUME SettleWithoutBid(i)
      PROVE  \A x \in Accounts : balance[a.currency][x] - Cost(price) <= balance'[a.currency][x]
  <2>1. balance'[a.currency] = balance[a.currency]
    BY <1>4, <1>9 DEF SettleWithoutBid, Push, WellFormed
  <2> QED BY <1>5, <1>6, <2>1
<1>10. auctions'[i] # auctions[i]
  BY DEF SettledNow
<1>11. auctions'[i].status # "Active"
  BY DEF SettledNow
<1> HIDE DEF a
<1>12. \A x \in Accounts : balance[a.currency][x] - Cost(price) <= balance'[a.currency][x]
  BY <1>2, <1>3, <1>7, <1>8, <1>9, <1>10, <1>11, WhoChangesAnAuction
<1> QED BY <1>12 DEF a, price

\* With floors checked, a hammer price is not negative.
LEMMA CheckedHammerPrice ==
    ASSUME TypeOK, NEW i \in AuctionIds, SettledNow(i)
    PROVE  Cost(HammerPrice(auctions[i])) = HammerPrice(auctions[i])
<1>1. auctions[i] \in AuctionRecord
  BY OpenRecords DEF TypeOK, SettledNow
<1>2. HammerPrice(auctions[i]) \in Nat
  BY <1>1, DutchPriceBounds DEF HammerPrice, AuctionRecord, SettledNow
<1> QED BY <1>2 DEF Cost

\* Fee, royalties and proceeds are cut out of the price: the buyer of a listing
\* or of a Dutch auction pays the price and the contract pays out the winning
\* bid, never more, whatever royalties the collections set meanwhile.
\* (buy_nft, buy_dutch_auction, settle_english_auction.)
THEOREM SalesCostThePrice == ASSUME RoyaltiesLeaveRoom PROVE Spec => SaleCostsThePrice
<1> DEFINE Step ==
        /\ \A i \in ListingIds : SoldNow(i) /\ listings[i].collection # listings[i].currency =>
            \A x \in Accounts : balance[listings[i].currency][x] - listings[i].price
                                    <= balance'[listings[i].currency][x]
        /\ \A i \in AuctionIds : SettledNow(i) /\ auctions[i].collection # auctions[i].currency =>
            \A x \in Accounts : balance[auctions[i].currency][x] - HammerPrice(auctions[i])
                                    <= balance'[auctions[i].currency][x]
<1>1. TypeOK /\ StandingBidders /\ [Next]_vars => [Step]_vars
  <2> SUFFICES ASSUME TypeOK, WellFormed, StandingBidders, [Next]_vars PROVE Step
    BY DEF TypeOK
  <2>1. WellFormed /\ TypeOK
    OBVIOUS
  <2> QED BY <2>1, PurchaseCost, SettlementCost, CheckedHammerPrice
<1> QED BY <1>1, TypeCorrect, BiddersAreUsers, PTL DEF Spec, SaleCostsThePrice

\* What paying an accepted offer out returns to the contract: the fee, if the
\* contract itself is the fee recipient.
LEMMA OfferKept ==
    ASSUME WellFormed, NEW o \in OfferRecord
    PROVE  PaidTo(OfferPayments(o), Market)
             = IF config.fee_recipient = Market THEN PlatformFee(o.offer_amount) ELSE 0
<1> DEFINE pay == OfferPayments(o)
           fee == PlatformFee(o.offer_amount)
           A == PayAmounts(pay)
           S == {k \in DOMAIN pay : pay[k].to = Market}
<1>1. fee \in Nat
  BY FeeBounds DEF OfferRecord
<1>2. /\ DOMAIN pay = 1 .. 2
      /\ pay[1].to = config.fee_recipient /\ pay[1].amount = fee
      /\ pay[2].to = o.recipient
  BY DEF OfferPayments
<1>3. o.recipient # Market
  BY MarketAssumption DEF OfferRecord
<1> HIDE DEF pay, fee
<1>4. A[1] = fee
  BY <1>2 DEF PayAmounts
<1>5. \A k \in 1 .. 2 : k = 1 \/ k = 2
  OBVIOUS
<1>6. PaidTo(pay, Market) = SumOver(S, A)
  BY DEF PaidTo
<1>7. CASE config.fee_recipient = Market
  <2>1. S = {1}
    BY <1>2, <1>3, <1>5, <1>7
  <2> HIDE DEF S, A
  <2>2. SumOver({1}, A) = fee
    BY <1>1, <1>4, SumSingleton
  <2> QED BY ONLY <1>6, <1>7, <2>1, <2>2 DEF pay, fee
<1>8. CASE config.fee_recipient # Market
  <2>1. S = {}
    BY <1>2, <1>3, <1>5, <1>8
  <2> HIDE DEF S, A
  <2>2. SumOver({}, A) = 0
    BY SumEmpty
  <2> QED BY ONLY <1>6, <1>8, <2>1, <2>2 DEF pay, fee
<1> QED BY <1>7, <1>8

\* The step that accepts an offer moves both of its sides.
LEMMA OfferSwapped ==
    ASSUME WellFormed, [Next]_vars, NEW i \in OfferIds,
           offers[i].status = "Pending", offers'[i].status = "Accepted",
           offers[i].offerer # offers[i].recipient,
           offers[i].collection # offers[i].currency
    PROVE  LET o == offers[i]
               kept == IF config.fee_recipient = Market
                       THEN PlatformFee(o.offer_amount) ELSE 0 IN
           /\ balance'[o.collection][o.offerer]
                 = balance[o.collection][o.offerer] + o.amount
           /\ balance'[o.collection][o.recipient]
                 = balance[o.collection][o.recipient] - o.amount
           /\ balance'[o.currency][Market]
                 = balance[o.currency][Market] - o.offer_amount + kept
<1> DEFINE o == offers[i]
           pay == OfferPayments(o)
           C == balance[o.collection]
           M == balance[o.currency]
           kept == IF config.fee_recipient = Market THEN PlatformFee(o.offer_amount) ELSE 0
<1>1. o \in OfferRecord
  BY OpenRecords
<1>2. ~ \E u \in Users : CancelOffer(u, i)
  <2>1. [offers EXCEPT ![i].status = "Cancelled"][i].status = "Cancelled"
    BY <1>1 DEF WellFormed, OfferRecord
  <2> QED BY <2>1 DEF CancelOffer
<1>3. PICK u \in Users : AcceptOffer(u, i)
  BY <1>2, WhoChangesAnOffer
<1>4. /\ Trade(o.currency, Market, pay, o.collection, u, o.offerer, o.amount)
      /\ u = o.recipient
  BY <1>3 DEF AcceptOffer
<1>5. /\ o.currency \in Tokens /\ o.collection \in Tokens /\ o.currency # o.collection
      /\ o.offerer \in Accounts /\ u \in Accounts /\ u # o.offerer
      /\ o.amount \in Int /\ o.offer_amount \in Nat /\ Market \in Accounts
  BY <1>1, <1>4 DEF OfferRecord, Tokens, Accounts
<1>6. /\ balance'[o.currency] = PayAll(M, Market, pay)
      /\ CanTransfer(C, u, o.amount)
      /\ balance'[o.collection] = Transfer(C, u, o.offerer, o.amount)
  BY ONLY WellFormed, <1>4, <1>5, TradeLegs
<1>7. M \in [Accounts -> Nat] /\ C \in [Accounts -> Nat]
  BY <1>5 DEF WellFormed
<1>8. PayTotal(pay) = o.offer_amount /\ PaidTo(pay, Market) = kept
  BY ONLY WellFormed, <1>1, OfferTotal, OfferKept
<1>9. kept \in Nat
  <2>1. PlatformFee(o.offer_amount) \in Nat
    BY <1>5, FeeBounds
  <2> QED BY <2>1
<1> HIDE DEF o, pay, C, M, kept
<1>10. /\ balance'[o.collection][o.offerer] = C[o.offerer] + o.amount
       /\ balance'[o.collection][o.recipient] = C[o.recipient] - o.amount
  BY ONLY <1>4, <1>5, <1>6, <1>7, TransferBounds
<1>11. balance'[o.currency][Market] = M[Market] - o.offer_amount + kept
  <2>1. PayAll(M, Market, pay)[Market] = M[Market] + PaidTo(pay, Market) - PayTotal(pay)
    BY <1>5, <1>7 DEF PayAll
  <2>2. M[Market] \in Nat
    BY <1>5, <1>7
  <2> QED BY ONLY <1>5, <1>6, <1>8, <1>9, <2>1, <2>2
<1> QED BY <1>10, <1>11 DEF o, C, M, kept

\* Accepting an offer moves the NFTs from recipient to offerer and takes exactly
\* the escrowed payment out of the contract, whatever the fee and whoever gets
\* it.  (accept_offer.)
THEOREM AcceptedOffersSwap == Spec => OfferIsASwap
<1> DEFINE Step ==
        \A i \in OfferIds :
          LET o == offers[i]
              kept == IF config.fee_recipient = Market THEN PlatformFee(o.offer_amount) ELSE 0
          IN  /\ o.status = "Pending" /\ offers'[i].status = "Accepted"
              /\ o.offerer # o.recipient /\ o.collection # o.currency
              => /\ balance'[o.collection][o.offerer]
                        = balance[o.collection][o.offerer] + o.amount
                 /\ balance'[o.collection][o.recipient]
                        = balance[o.collection][o.recipient] - o.amount
                 /\ balance'[o.currency][Market]
                        = balance[o.currency][Market] - o.offer_amount + kept
<1>1. WellFormed /\ [Next]_vars => [Step]_vars
  BY OfferSwapped
<1> QED BY <1>1, AlwaysWellFormed, PTL DEF Spec, OfferIsASwap

-----------------------------------------------------------------------------
(* What custody is for: the transfers of every way out go through.         *)

\* A record's debt is part of what the contract owes.
LEMMA DebtIsOwed ==
    ASSUME WellFormed, NEW t
    PROVE  /\ \A i \in ListingIds : ListingDebt(listings[i], t) <= Owed(t)
           /\ \A i \in AuctionIds : AuctionDebt(auctions[i], t) <= Owed(t)
           /\ \A i \in OfferIds : OfferDebt(offers[i], t) <= Owed(t)
<1>1. OwedToSellers(t) \in Nat /\ OwedToAuctions(t) \in Nat /\ OwedToOfferers(t) \in Nat
  BY OwedType
<1>2. ASSUME NEW S, IsFiniteSet(S), NEW F, \A i \in S : F[i] \in Nat, NEW i \in S
      PROVE  F[i] <= SumOver(S, F)
  <2>1. SumOver({i}, F) <= SumOver(S, F)
    BY <1>2, SumSubset
  <2> QED BY <1>2, <2>1, SumSingleton
<1>3. ASSUME NEW i \in ListingIds PROVE ListingDebt(listings[i], t) <= OwedToSellers(t)
  <2> DEFINE F == [j \in ListingIds |-> ListingDebt(listings[j], t)]
  <2>1. \A j \in ListingIds : F[j] \in Nat
    BY TypeParts DEF ListingsOK, ListingDebt, ListingRecord, NoRecord
  <2>2. F[i] = ListingDebt(listings[i], t) /\ OwedToSellers(t) = SumOver(ListingIds, F)
    BY DEF OwedToSellers
  <2> HIDE DEF F
  <2> QED BY <1>2, <2>1, <2>2, BoundsType
<1>4. ASSUME NEW i \in AuctionIds PROVE AuctionDebt(auctions[i], t) <= OwedToAuctions(t)
  <2> DEFINE F == [j \in AuctionIds |-> AuctionDebt(auctions[j], t)]
  <2>1. \A j \in AuctionIds : F[j] \in Nat
    BY TypeParts DEF AuctionsOK, AuctionDebt, AuctionRecord, NoRecord
  <2>2. F[i] = AuctionDebt(auctions[i], t) /\ OwedToAuctions(t) = SumOver(AuctionIds, F)
    BY DEF OwedToAuctions
  <2> HIDE DEF F
  <2> QED BY <1>2, <2>1, <2>2, BoundsType
<1>5. ASSUME NEW i \in OfferIds PROVE OfferDebt(offers[i], t) <= OwedToOfferers(t)
  <2> DEFINE F == [j \in OfferIds |-> OfferDebt(offers[j], t)]
  <2>1. \A j \in OfferIds : F[j] \in Nat
    BY TypeParts DEF OffersOK, OfferDebt, OfferRecord, NoRecord
  <2>2. F[i] = OfferDebt(offers[i], t) /\ OwedToOfferers(t) = SumOver(OfferIds, F)
    BY DEF OwedToOfferers
  <2> HIDE DEF F
  <2> QED BY <1>2, <2>1, <2>2, BoundsType
<1>6. /\ \A r \in ListingRecord \cup {NoRecord} : ListingDebt(r, t) \in Nat
      /\ \A r \in AuctionRecord \cup {NoRecord} : AuctionDebt(r, t) \in Nat
      /\ \A r \in OfferRecord \cup {NoRecord} : OfferDebt(r, t) \in Nat
  BY DEF ListingDebt, AuctionDebt, OfferDebt, ListingRecord, AuctionRecord, OfferRecord, NoRecord
<1>7. /\ \A i \in ListingIds : ListingDebt(listings[i], t) \in Nat
      /\ \A i \in AuctionIds : AuctionDebt(auctions[i], t) \in Nat
      /\ \A i \in OfferIds : OfferDebt(offers[i], t) \in Nat
  BY <1>6, TypeParts DEF ListingsOK, AuctionsOK, OffersOK
<1> QED BY <1>1, <1>3, <1>4, <1>5, <1>7 DEF Owed

\* The calls that NothingStuck promises, up to their transfers: cancel_listing,
\* cancel_dutch_auction, settle_english_auction without and with a bid (payments
\* first, then the NFTs, from what is left), cancel_offer; and the payments out
\* of accept_offer.
PayoutsFunded ==
    /\ \A i \in ListingIds : LET l == listings[i] IN
        l.status = "Active" => CanTransfer(balance[l.collection], Market, l.amount)
    /\ \A i \in AuctionIds :
        LET a    == auctions[i]
            pay  == SalePayments(a.current_bid, a.collection, a.seller)
            paid == [balance EXCEPT ![a.currency] = PayAll(@, Market, pay)]
        IN  a.status = "Active" =>
                /\ CanTransfer(balance[a.collection], Market, a.amount)
                /\ CanPayAll(balance[a.currency], Market, pay)
                /\ CanTransfer(paid[a.collection], Market, a.amount)
    /\ \A i \in OfferIds : LET o == offers[i] IN
        o.status = "Pending" =>
            /\ CanTransfer(balance[o.currency], Market, o.offer_amount)
            /\ CanPayAll(balance[o.currency], Market, OfferPayments(o))

\* An open auction can pay its bid out and hand its NFTs over, in this order.
LEMMA AuctionFunded ==
    ASSUME WellFormed, Custody, RoyaltiesLeaveRoom,
           NEW i \in AuctionIds, auctions[i].status = "Active"
    PROVE  LET a    == auctions[i]
               pay  == SalePayments(a.current_bid, a.collection, a.seller)
               paid == [balance EXCEPT ![a.currency] = PayAll(@, Market, pay)] IN
           /\ CanTransfer(balance[a.collection], Market, a.amount)
           /\ CanPayAll(balance[a.currency], Market, pay)
           /\ CanTransfer(paid[a.collection], Market, a.amount)
<1> DEFINE a == auctions[i]
           pay == SalePayments(a.current_bid, a.collection, a.seller)
           hi == Len(Royalties(a.collection)) + 1
           M == balance[a.currency]
           B == PayAll(M, Market, pay)
<1>1. a \in AuctionRecord
  BY OpenRecords
<1>2. /\ a.currency \in Tokens /\ a.collection \in Tokens
      /\ a.amount \in Nat /\ a.current_bid \in Nat /\ Market \in Accounts
  BY <1>1 DEF AuctionRecord, Tokens, Accounts
<1>3. balance \in [Tokens -> [Accounts -> Nat]]
  BY DEF WellFormed
<1>4. \A t \in Tokens : /\ balance[t][Market] \in Nat
                        /\ Owed(t) \in Int
                        /\ balance[t][Market] >= Owed(t)
                        /\ AuctionDebt(a, t) <= Owed(t)
  BY <1>2, <1>3, DebtIsOwed, OwedType DEF Custody, Owed
<1>5. \A t \in Tokens : AuctionDebt(a, t)
        = (IF a.collection = t THEN a.amount ELSE 0)
          + (IF a.currency = t THEN a.current_bid ELSE 0)
  BY DEF AuctionDebt
<1>6. /\ 0 \in Int /\ hi \in Int /\ 0 <= hi /\ DOMAIN pay = 0 .. hi
      /\ \A k \in 0 .. hi : pay[k].amount \in Nat
  BY ONLY WellFormed, <1>2, SalePaymentsType
<1>7. PayTotal(pay) = a.current_bid
  BY ONLY WellFormed, RoyaltiesLeaveRoom, <1>2, SaleTotal
<1> HIDE DEF a, pay, hi
<1>8. /\ balance[a.collection][Market] >= a.amount
      /\ M[Market] >= a.current_bid
      /\ a.collection = a.currency => M[Market] >= a.amount + a.current_bid
  BY <1>2, <1>4, <1>5
<1>9. M \in [Accounts -> Nat] /\ M[Market] \in Nat
  BY <1>2, <1>3
<1> HIDE DEF M
<1>10. CanPayAll(M, Market, pay)
  BY ONLY <1>6, <1>7, <1>8, <1>9, CoveredIsPayable
<1>11. B \in [Accounts -> Nat] /\ B[Market] >= M[Market] - a.current_bid
  BY ONLY <1>2, <1>6, <1>7, <1>9, <1>10, PayAllBounds
<1> HIDE DEF B
<1>12. [balance EXCEPT ![a.currency] = B][a.collection][Market] >= a.amount
  <2>1. CASE a.collection = a.currency
    <3>1. B[Market] >= a.amount
      <4>1. B[Market] \in Nat
        BY <1>2, <1>11
      <4> QED BY <1>2, <1>8, <1>9, <1>11, <2>1, <4>1
    <3> QED BY <1>2, <1>3, <2>1, <3>1
  <2>2. CASE a.collection # a.currency
    BY <1>2, <1>3, <1>8, <2>2
  <2> QED BY <2>1, <2>2
<1> QED BY <1>2, <1>8, <1>10, <1>12 DEF CanTransfer, a, pay, M, B

\* Custody means that every payout has its funds.
LEMMA CustodyFunds ==
    ASSUME RoyaltiesLeaveRoom, WellFormed, Custody
    PROVE  PayoutsFunded
<1>1. \A t \in Tokens : /\ balance[t][Market] \in Nat /\ Owed(t) \in Int
                        /\ balance[t][Market] >= Owed(t)
  <2> TAKE t \in Tokens
  <2>1. Owed(t) \in Int
    BY OwedType DEF Owed
  <2>2. balance[t][Market] \in Nat
    BY DEF WellFormed, Accounts
  <2> QED BY <2>1, <2>2 DEF Custody
<1>2. ASSUME NEW i \in ListingIds, listings[i].status = "Active"
      PROVE  CanTransfer(balance[listings[i].collection], Market, listings[i].amount)
  <2> DEFINE l == listings[i]
  <2>1. l \in ListingRecord
    BY <1>2, OpenRecords
  <2>2. l.collection \in Tokens /\ l.amount \in Nat
    BY <2>1 DEF ListingRecord, Tokens
  <2>3. ListingDebt(l, l.collection) = l.amount
    BY <1>2 DEF ListingDebt
  <2>4. l.amount <= Owed(l.collection)
    BY <2>3, DebtIsOwed
  <2> HIDE DEF l
  <2>5. balance[l.collection][Market] >= l.amount
    BY <1>1, <2>2, <2>4
  <2> QED BY <2>2, <2>5 DEF CanTransfer, l
<1>3. ASSUME NEW i \in OfferIds, offers[i].status = "Pending"
      PROVE  /\ CanTransfer(balance[offers[i].currency], Market, offers[i].offer_amount)
             /\ CanPayAll(balance[offers[i].currency], Market, OfferPayments(offers[i]))
  <2> DEFINE o == offers[i]
  <2>1. o \in OfferRecord
    BY <1>3, OpenRecords
  <2>2. o.currency \in Tokens /\ o.offer_amount \in Nat
    BY <2>1 DEF OfferRecord, Tokens
  <2>3. OfferDebt(o, o.currency) = o.offer_amount
    BY <1>3 DEF OfferDebt
  <2>4. o.offer_amount <= Owed(o.currency)
    BY <2>3, DebtIsOwed
  <2> DEFINE pay == OfferPayments(o)
  <2>5. /\ 1 \in Int /\ 2 \in Int /\ DOMAIN pay = 1 .. 2
        /\ \A k \in 1 .. 2 : pay[k].amount \in Nat
        /\ PayTotal(pay) = o.offer_amount
    BY <2>1, OfferTotal
  <2> HIDE DEF o, pay
  <2>6. balance[o.currency][Market] \in Nat /\ balance[o.currency][Market] >= o.offer_amount
    BY <1>1, <2>2, <2>4
  <2>7. CanPayAll(balance[o.currency], Market, pay)
    BY ONLY <2>5, <2>6, CoveredIsPayable
  <2> QED BY <2>2, <2>6, <2>7 DEF CanTransfer, o, pay
<1> QED BY <1>2, <1>3, AuctionFunded DEF PayoutsFunded

\* Whatever happened around a record, the transfers that take its NFTs or its
\* money out of the contract go through: nothing is stuck for lack of funds.
\* (cancel_listing, cancel_dutch_auction, settle_english_auction, cancel_offer
\* and accept_offer; their remaining guards are about the record and the caller.)
THEOREM PayoutsAlwaysFunded == ASSUME RoyaltiesLeaveRoom PROVE Spec => []PayoutsFunded
<1>1. WellFormed /\ Custody => PayoutsFunded
  BY CustodyFunds
<1> QED BY <1>1, AlwaysWellFormed, CustodyHolds, PTL DEF Spec

-----------------------------------------------------------------------------
(* The bulk calls.  What holds after some of the items holds after one     *)
(* more: the loop invariant of both loops, which the steps of BulkSpec     *)
(* inherit.                                                                *)

\* What a loop over a table with identifiers 1 .. max and records in Recs works on.
Runs(Recs, max) ==
    [seq : 0 .. max, records : [1 .. max -> Recs],
     collections : [DOMAIN collections -> CollectionInfo],
     balance : [Tokens -> [Accounts -> Nat]],
     result : [succeeded : Nat, failed : Nat, ids : Seq(Int)], returns : BOOLEAN]

\* next is run with one more item taken: amount NFTs of coll, in record.
Taken(run, next, coll, amount, record) ==
    /\ next.seq = run.seq + 1
    /\ next.records = [run.records EXCEPT ![run.seq + 1] = record]
    /\ next.balance[coll][Market] = run.balance[coll][Market] + amount
    /\ \A t \in Tokens \ {coll} : next.balance[t] = run.balance[t]
    /\ next.result.succeeded = run.result.succeeded + 1
    /\ next.result.ids = Append(run.result.ids, run.seq + 1)

\* next differs from run in the count of failures and in whether it returns.
Passed(run, next) ==
    /\ next.seq = run.seq /\ next.records = run.records /\ next.balance = run.balance
    /\ next.result.succeeded = run.result.succeeded /\ next.result.ids = run.result.ids

RoyaltiesKept(run) ==
    \A c \in DOMAIN collections : run.collections[c].royalties = collections[c].royalties

\* Whatever an item comes to, the loop has the types it had.
LEMMA TakeEffect ==
    ASSUME WellFormed, NEW Recs, NEW max \in Nat, NEW run \in Runs(Recs, max),
           RoyaltiesKept(run), NEW seller \in Users, NEW item,
           item.collection \in DOMAIN collections, item.amount \in Nat,
           NEW record \in Recs, NEW dl \in {0, 1}, NEW da \in {0, 1}
    PROVE  LET next == Take(run, seller, item, 1 .. max, record, dl, da) IN
           /\ next \in Runs(Recs, max) /\ RoyaltiesKept(next)
           /\ \/ Passed(run, next)
              \/ /\ run.seq + 1 \in 1 .. max
                 /\ Taken(run, next, item.collection, item.amount, record)
<1> DEFINE coll == item.collection
           id == run.seq + 1
           next == Take(run, seller, item, 1 .. max, record, dl, da)
           B == Transfer(run.balance[coll], seller, Market, item.amount)
           i0 == run.collections[coll]
           i1 == [i0 EXCEPT !.active_listings = Bump(@, dl), !.active_auctions = Bump(@, da)]
           r0 == run.result
           res == [[r0 EXCEPT !.succeeded = @ + 1] EXCEPT !.ids = Append(@, id)]
<1>1. /\ run.seq \in 0 .. max /\ run.records \in [1 .. max -> Recs]
      /\ run.collections \in [DOMAIN collections -> CollectionInfo]
      /\ run.balance \in [Tokens -> [Accounts -> Nat]]
      /\ run.result \in [succeeded : Nat, failed : Nat, ids : Seq(Int)]
      /\ run.returns \in BOOLEAN
      /\ run = [seq |-> run.seq, records |-> run.records, collections |-> run.collections,
                balance |-> run.balance, result |-> run.result, returns |-> run.returns]
  BY DEF Runs
<1>2. coll \in Tokens /\ seller \in Accounts /\ Market \in Accounts /\ seller # Market
  BY MarketAssumption DEF WellFormed, Tokens, Accounts
<1>3. CASE ~(id \in 1 .. max /\ CanTransfer(run.balance[coll], seller, item.amount))
  <2>1. next = [run EXCEPT !.returns = FALSE]
    BY <1>3 DEF Take
  <2>2. next \in Runs(Recs, max)
    BY <2>1 DEF Runs
  <2> QED BY <1>1, <2>1, <2>2 DEF RoyaltiesKept, Passed
<1>4. CASE id \in 1 .. max /\ CanTransfer(run.balance[coll], seller, item.amount)
  <2>1. next = [seq |-> id, records |-> [run.records EXCEPT ![id] = record],
                collections |-> [run.collections EXCEPT ![coll] = i1],
                balance |-> [run.balance EXCEPT ![coll] = B], result |-> res,
                returns |-> run.returns]
    BY <1>1, <1>4 DEF Take
  <2>2. /\ B \in [Accounts -> Nat]
        /\ B[Market] = run.balance[coll][Market] + item.amount
    <3>1. run.balance[coll] \in [Accounts -> Nat]
      BY <1>1, <1>2
    <3>2. item.amount \in Int
      OBVIOUS
    <3> QED BY ONLY <1>2, <1>4, <3>1, <3>2, TransferBounds
  <2>3. i0 \in CollectionInfo
    BY <1>1
  <2>4. i1 \in CollectionInfo /\ i1.royalties = i0.royalties
    <3>1. i0.active_listings \in Nat /\ i0.active_auctions \in Nat
      BY <2>3 DEF CollectionInfo
    <3>2. Bump(i0.active_listings, dl) \in Nat /\ Bump(i0.active_auctions, da) \in Nat
      BY <3>1 DEF Bump
    <3> QED BY <2>3, <3>2 DEF CollectionInfo
  <2>5. /\ res \in [succeeded : Nat, failed : Nat, ids : Seq(Int)]
        /\ res.succeeded = run.result.succeeded + 1
        /\ res.ids = Append(run.result.ids, id)
    <3>1. r0 \in [succeeded : Nat, failed : Nat, ids : Seq(Int)] /\ id \in Int
      BY <1>1
    <3>2. ASSUME NEW r \in [succeeded : Nat, failed : Nat, ids : Seq(Int)], NEW x \in Int,
                 NEW s, s = [[r EXCEPT !.succeeded = @ + 1] EXCEPT !.ids = Append(@, x)]
          PROVE  /\ s \in [succeeded : Nat, failed : Nat, ids : Seq(Int)]
                 /\ s.succeeded = r.succeeded + 1 /\ s.ids = Append(r.ids, x)
      <4>1. r.succeeded \in Nat /\ r.failed \in Nat /\ r.ids \in Seq(Int)
        OBVIOUS
      <4>2. Append(r.ids, x) \in Seq(Int)
        BY <4>1
      <4>3. s = [succeeded |-> r.succeeded + 1, failed |-> r.failed, ids |-> Append(r.ids, x)]
        BY <3>2
      <4> QED BY <4>1, <4>2, <4>3
    <3> HIDE DEF r0, id
    <3> QED BY <3>1, <3>2 DEF r0
  <2> HIDE DEF B, i1, res, next, coll, id
  <2>6. /\ next.seq = id /\ next.records = [run.records EXCEPT ![id] = record]
        /\ next.collections = [run.collections EXCEPT ![coll] = i1]
        /\ next.balance = [run.balance EXCEPT ![coll] = B] /\ next.result = res
    BY <2>1
  <2>7. next \in Runs(Recs, max)
    <3>1. [run.records EXCEPT ![id] = record] \in [1 .. max -> Recs]
      BY <1>1
    <3>2. [run.collections EXCEPT ![coll] = i1] \in [DOMAIN collections -> CollectionInfo]
      BY <1>1, <2>4
    <3>3. [run.balance EXCEPT ![coll] = B] \in [Tokens -> [Accounts -> Nat]]
      BY <1>1, <2>2
    <3>4. id \in 0 .. max
      BY <1>1, <1>4
    <3> QED BY <1>1, <2>1, <2>5, <3>1, <3>2, <3>3, <3>4 DEF Runs
  <2>8. RoyaltiesKept(next)
    BY <1>1, <2>4, <2>6 DEF RoyaltiesKept, coll
  <2>9. Taken(run, next, coll, item.amount, record)
    BY <1>1, <1>2, <2>2, <2>5, <2>6 DEF Taken, id
  <2> QED BY <1>4, <2>7, <2>8, <2>9 DEF id, coll, next
<1> QED BY <1>3, <1>4

\* The result names the records opened since the identifier before, and the
\* contract holds their NFTs on top of what it held when the call began.
Reported(run, max, before) ==
    LET opened == Opened(1 .. max, before, run.seq) IN
    /\ before <= run.seq
    /\ run.result.succeeded = run.seq - before
    /\ Len(run.result.ids) = run.seq - before
    /\ \A k \in 1 .. run.seq - before : run.result.ids[k] = before + k
    /\ \A i \in opened : run.records[i].status = "Active" /\ run.records[i].amount \in Nat
    /\ \A c \in Collections :
          run.balance[c][Market] = balance[c][Market] + EscrowedFor(opened, run.records, c)

\* One more record adds its NFTs to the escrow of its collection.
LEMMA EscrowGrows ==
    ASSUME NEW opened, IsFiniteSet(opened), NEW id, id \notin opened,
           NEW more, more = opened \cup {id},
           NEW old, NEW new, new[id].amount \in Nat, NEW c,
           \A i \in opened : new[i] = old[i] /\ old[i].amount \in Nat
    PROVE  /\ EscrowedFor(opened, old, c) \in Nat
           /\ EscrowedFor(more, new, c)
                = EscrowedFor(opened, old, c)
                  + (IF new[id].collection = c THEN new[id].amount ELSE 0)
<1> DEFINE S == {i \in opened : old[i].collection = c}
           T == {i \in opened \cup {id} : new[i].collection = c}
           F == [i \in opened |-> old[i].amount]
           G == [i \in opened \cup {id} |-> new[i].amount]
<1>1. /\ EscrowedFor(opened, old, c) = SumOver(S, F)
      /\ EscrowedFor(more, new, c) = SumOver(T, G)
  BY DEF EscrowedFor
<1>2. IsFiniteSet(S)
  BY FS_Subset
<1>3. /\ \A i \in S : F[i] \in Nat /\ F[i] = G[i]
      /\ \A i \in S \cup {id} : G[i] \in Nat
      /\ G[id] = new[id].amount /\ id \notin S
  OBVIOUS
<1>4. T = IF new[id].collection = c THEN S \cup {id} ELSE S
  OBVIOUS
<1> HIDE DEF S, T, F, G
<1>5. SumOver(S, F) \in Nat
  BY <1>2, <1>3, SumType
<1>6. SumOver(S, G) = SumOver(S, F)
  BY <1>3, SumSame
<1>7. SumOver(S \cup {id}, G) = SumOver(S, G) + G[id]
  BY <1>2, <1>3, SumAdd
<1> QED BY <1>1, <1>3, <1>4, <1>5, <1>6, <1>7

\* The next item is reported like those before it.
LEMMA TakenIsReported ==
    ASSUME WellFormed, NEW Recs, NEW max \in Nat, NEW run \in Runs(Recs, max),
           NEW next \in Runs(Recs, max), NEW before \in Nat, Reported(run, max, before),
           NEW record \in Recs, record.status = "Active", record.amount \in Nat,
           record.collection \in Collections, run.seq + 1 \in 1 .. max,
           Taken(run, next, record.collection, record.amount, record)
    PROVE  Reported(next, max, before)
<1> DEFINE opened == Opened(1 .. max, before, run.seq)
           id == run.seq + 1
           ids == run.result.ids
           more == Opened(1 .. max, before, next.seq)
<1>1. /\ run.seq \in Nat /\ run.records \in [1 .. max -> Recs]
      /\ run.balance \in [Tokens -> [Accounts -> Nat]]
      /\ ids \in Seq(Int) /\ before <= run.seq
  BY DEF Runs, Reported
<1>2. /\ next.seq = id /\ next.records = [run.records EXCEPT ![id] = record]
      /\ next.result.succeeded = run.result.succeeded + 1
      /\ next.result.ids = Append(ids, id)
  BY DEF Taken
<1>3. more = opened \cup {id} /\ id \notin opened
  BY <1>1, <1>2 DEF Opened
<1>4. /\ run.result.succeeded = run.seq - before /\ Len(ids) = run.seq - before
      /\ \A k \in 1 .. run.seq - before : ids[k] = before + k
      /\ \A i \in opened : run.records[i].status = "Active" /\ run.records[i].amount \in Nat
      /\ \A c \in Collections :
            run.balance[c][Market] = balance[c][Market] + EscrowedFor(opened, run.records, c)
  BY DEF Reported
<1>5. IsFiniteSet(opened)
  <2>1. opened \subseteq 1 .. max /\ IsFiniteSet(1 .. max)
    <3>1. 1 \in Int /\ max \in Int
      OBVIOUS
    <3>2. IsFiniteSet(1 .. max)
      BY ONLY <3>1, FS_Interval
    <3> QED BY <3>2 DEF Opened
  <2> HIDE DEF opened
  <2> QED BY <2>1, FS_Subset
<1>6. opened \subseteq 1 .. max
  BY DEF Opened
<1> HIDE DEF opened, ids, more
<1>7. /\ next.records[id] = record
      /\ \A i \in opened : next.records[i] = run.records[i]
  BY <1>1, <1>2, <1>3, <1>6
<1>8. \A c \in Collections : next.balance[c][Market]
        = balance[c][Market] + EscrowedFor(more, next.records, c)
  <2> SUFFICES ASSUME NEW c \in Collections
               PROVE  next.balance[c][Market]
                        = balance[c][Market] + EscrowedFor(more, next.records, c)
    OBVIOUS
  <2>1. /\ EscrowedFor(opened, run.records, c) \in Nat
        /\ EscrowedFor(more, next.records, c)
             = EscrowedFor(opened, run.records, c)
               + (IF record.collection = c THEN record.amount ELSE 0)
    <3> DEFINE old == run.records
               new == next.records
    <3>1. /\ new[id] = record /\ record.amount \in Nat
          /\ \A i \in opened : new[i] = old[i] /\ old[i].amount \in Nat
      BY <1>4, <1>7
    <3> HIDE DEF id, old, new
    <3>2. new[id].amount \in Nat
      BY ONLY <3>1
    <3>3. /\ EscrowedFor(opened, old, c) \in Nat
          /\ EscrowedFor(more, new, c)
                = EscrowedFor(opened, old, c)
                  + (IF new[id].collection = c THEN new[id].amount ELSE 0)
      BY ONLY <1>3, <1>5, <3>1, <3>2, EscrowGrows
    <3> QED BY <3>1, <3>3 DEF old, new
  <2>2. c \in Tokens /\ Market \in Accounts
    BY DEF Tokens, Accounts
  <2>3. next.balance[c][Market]
          = run.balance[c][Market] + (IF record.collection = c THEN record.amount ELSE 0)
    <3>1. run.balance[c][Market] \in Nat
      BY <1>1, <2>2
    <3> QED BY <2>2, <3>1 DEF Taken
  <2>4. balance[c][Market] \in Nat
    BY <2>2 DEF WellFormed
  <2> QED BY <1>4, <2>1, <2>3, <2>4
<1>9. /\ Len(Append(ids, id)) = id - before
      /\ \A k \in 1 .. id - before : Append(ids, id)[k] = before + k
  <2>1. Len(ids) \in Nat /\ Len(ids) + 1 = id - before /\ Len(Append(ids, id)) = Len(ids) + 1
    BY <1>1, <1>4
  <2>2. ASSUME NEW k \in 1 .. id - before PROVE Append(ids, id)[k] = before + k
    <3>1. CASE k = id - before
      BY <1>1, <2>1, <3>1
    <3>2. CASE k # id - before
      <4>1. k \in 1 .. Len(ids) /\ k \in 1 .. run.seq - before
        BY <1>1, <2>1, <3>2
      <4> QED BY <1>1, <1>4, <4>1
    <3> QED BY <3>1, <3>2
  <2> QED BY <2>1, <2>2
<1>10. \A i \in more :
         next.records[i].status = "Active" /\ next.records[i].amount \in Nat
  BY <1>3, <1>4, <1>7
<1>11. before <= id /\ run.result.succeeded + 1 = id - before
  BY <1>1, <1>4
<1> HIDE DEF id
<1> QED BY <1>2, <1>8, <1>9, <1>10, <1>11 DEF Reported, more

\* An item that is skipped changes nothing that is reported.
LEMMA PassedIsReported ==
    ASSUME NEW run, NEW next, NEW max, NEW before, Reported(run, max, before), Passed(run, next)
    PROVE  Reported(next, max, before)
BY DEF Reported, Passed

\* Counting a failure touches nothing else.
LEMMA SkipEffect ==
    ASSUME NEW Recs, NEW max \in Nat, NEW run \in Runs(Recs, max), RoyaltiesKept(run),
           NEW seller, NEW item
    PROVE  LET next == Skip(run, seller, item) IN
           next \in Runs(Recs, max) /\ RoyaltiesKept(next) /\ Passed(run, next)
<1> DEFINE next == Skip(run, seller, item)
           r0 == run.result
           r1 == [r0 EXCEPT !.failed = @ + 1]
<1>1. /\ run.seq \in 0 .. max /\ run.records \in [1 .. max -> Recs]
      /\ run.collections \in [DOMAIN collections -> CollectionInfo]
      /\ run.balance \in [Tokens -> [Accounts -> Nat]]
      /\ r0 \in [succeeded : Nat, failed : Nat, ids : Seq(Int)]
      /\ run.returns \in BOOLEAN
      /\ run = [seq |-> run.seq, records |-> run.records, collections |-> run.collections,
                balance |-> run.balance, result |-> run.result, returns |-> run.returns]
  BY DEF Runs
<1>2. next = [seq |-> run.seq, records |-> run.records, collections |-> run.collections,
              balance |-> run.balance, result |-> r1, returns |-> run.returns]
  <2>1. next = [run EXCEPT !.result = r1]
    BY DEF Skip
  <2> HIDE DEF r1, next
  <2> QED BY <1>1, <2>1
<1> HIDE DEF r0, next
<1>3. /\ r1 \in [succeeded : Nat, failed : Nat, ids : Seq(Int)]
      /\ r1.succeeded = r0.succeeded /\ r1.ids = r0.ids
  BY <1>1
<1> HIDE DEF r1
<1>4. next \in Runs(Recs, max)
  BY <1>1, <1>2, <1>3 DEF Runs
<1>5. RoyaltiesKept(next) /\ Passed(run, next)
  BY <1>2, <1>3 DEF RoyaltiesKept, Passed, r0
<1> QED BY <1>4, <1>5 DEF next

-----------------------------------------------------------------------------
(* What a loop does to the counters of the collections.                    *)

OpenIn(ids, table, c) == {i \in ids : table[i].status = "Active" /\ table[i].collection = c}

\* The records of a run are counted collection by collection, and the next
\* identifiers are new.
RunCounted(run, max, counts) ==
    /\ \A i \in 1 .. max : i > run.seq => run.records[i].status = "None"
    /\ \A i \in 1 .. max : run.records[i].status = "Active"
            => run.records[i].collection \in DOMAIN collections
    /\ \A c \in DOMAIN collections : counts[c] = Cardinality(OpenIn(1 .. max, run.records, c))

\* One more record is counted once, for its collection.
LEMMA TakenIsCounted ==
    ASSUME NEW Recs, NEW max \in Nat, NEW run \in Runs(Recs, max), NEW next,
           NEW record, record.status = "Active", record.collection \in DOMAIN collections,
           run.seq + 1 \in 1 .. max, next.seq = run.seq + 1,
           next.records = [run.records EXCEPT ![run.seq + 1] = record],
           NEW old, NEW new, RunCounted(run, max, old),
           \A c \in DOMAIN collections :
                new[c] = IF c = record.collection THEN old[c] + 1 ELSE old[c]
    PROVE  RunCounted(next, max, new)
<1> DEFINE id == run.seq + 1
<1>1. /\ run.seq \in Nat /\ run.records \in [1 .. max -> Recs] /\ id \in 1 .. max /\ id \in Nat
  BY DEF Runs
<1>2. /\ next.records[id] = record
      /\ \A i \in (1 .. max) \ {id} : next.records[i] = run.records[i]
  BY <1>1
<1>3. run.records[id].status = "None"
  BY <1>1 DEF RunCounted
<1>4. \A i \in 1 .. max : i > next.seq => next.records[i].status = "None"
  <2> SUFFICES ASSUME NEW i \in 1 .. max, i > next.seq
               PROVE  next.records[i].status = "None"
    OBVIOUS
  <2>1. i # id /\ i > run.seq
    BY <1>1
  <2> QED BY <1>2, <2>1 DEF RunCounted
<1>5. \A i \in 1 .. max : next.records[i].status = "Active"
            => next.records[i].collection \in DOMAIN collections
  BY <1>2 DEF RunCounted
<1>6. ASSUME NEW c \in DOMAIN collections
      PROVE  new[c] = Cardinality(OpenIn(1 .. max, next.records, c))
  <2> DEFINE A == OpenIn(1 .. max, run.records, c)
             B == OpenIn(1 .. max, next.records, c)
  <2>1. IsFiniteSet(A)
    <3>1. 1 \in Int /\ max \in Int /\ A \subseteq 1 .. max
      BY DEF OpenIn
    <3>2. IsFiniteSet(1 .. max)
      BY ONLY <3>1, FS_Interval
    <3> QED BY ONLY <3>1, <3>2, FS_Subset
  <2>2. id \notin A
    BY <1>3 DEF OpenIn
  <2>3. B = IF c = record.collection THEN A \cup {id} ELSE A
    BY <1>1, <1>2, <1>3 DEF OpenIn
  <2>4. old[c] = Cardinality(A)
    BY DEF RunCounted
  <2> HIDE DEF A, B, id
  <2>5. Cardinality(A \cup {id}) = Cardinality(A) + 1
    BY <2>1, <2>2, FS_AddElement
  <2> QED BY <2>3, <2>4, <2>5 DEF B
<1> HIDE DEF id
<1> QED BY <1>4, <1>5, <1>6 DEF RunCounted

\* A run that has the same records has them counted.
LEMMA PassedIsCounted ==
    ASSUME NEW run, NEW next, NEW max, NEW old, NEW new, RunCounted(run, max, old),
           next.seq = run.seq, next.records = run.records,
           \A c \in DOMAIN collections : new[c] = old[c]
    PROVE  RunCounted(next, max, new)
BY DEF RunCounted

\* From run to next the counters of one collection have moved.
CountersMoved(run, next, coll, listing_delta, auction_delta) ==
    \A c \in DOMAIN collections :
        /\ next.collections[c].active_listings
             = run.collections[c].active_listings + (IF c = coll THEN listing_delta ELSE 0)
        /\ next.collections[c].active_auctions
             = run.collections[c].active_auctions + (IF c = coll THEN auction_delta ELSE 0)

\* An accepted item moves the counters of its collection, a skipped one none.
LEMMA TakeCounts ==
    ASSUME NEW Recs, NEW max \in Nat, NEW run \in Runs(Recs, max), NEW seller, NEW item,
           item.collection \in DOMAIN collections, NEW record,
           NEW dl \in {0, 1}, NEW da \in {0, 1},
           NEW next, next = Take(run, seller, item, 1 .. max, record, dl, da)
    PROVE  \/ next.seq = run.seq /\ next.collections = run.collections
           \/ next.seq = run.seq + 1 /\ CountersMoved(run, next, item.collection, dl, da)
<1> DEFINE coll == item.collection
           id == run.seq + 1
           B == Transfer(run.balance[coll], seller, Market, item.amount)
           i0 == run.collections[coll]
           i1 == [i0 EXCEPT !.active_listings = Bump(@, dl), !.active_auctions = Bump(@, da)]
           r0 == run.result
           res == [[r0 EXCEPT !.succeeded = @ + 1] EXCEPT !.ids = Append(@, id)]
<1>1. /\ run.collections \in [DOMAIN collections -> CollectionInfo]
      /\ run = [seq |-> run.seq, records |-> run.records, collections |-> run.collections,
                balance |-> run.balance, result |-> run.result, returns |-> run.returns]
  BY DEF Runs
<1>2. CASE ~(id \in 1 .. max /\ CanTransfer(run.balance[coll], seller, item.amount))
  <2>1. next = [run EXCEPT !.returns = FALSE]
    BY <1>2 DEF Take
  <2> QED BY <1>1, <2>1
<1>3. CASE id \in 1 .. max /\ CanTransfer(run.balance[coll], seller, item.amount)
  <2>1. next = [seq |-> id, records |-> [run.records EXCEPT ![id] = record],
                collections |-> [run.collections EXCEPT ![coll] = i1],
                balance |-> [run.balance EXCEPT ![coll] = B], result |-> res,
                returns |-> run.returns]
    BY <1>1, <1>3 DEF Take
  <2> HIDE DEF B, res, id, coll, i1
  <2>2. next.seq = id /\ next.collections = [run.collections EXCEPT ![coll] = i1]
    BY <2>1
  <2>3. i0 \in CollectionInfo /\ coll \in DOMAIN collections
    BY <1>1 DEF coll
  <2>4. /\ i1.active_listings = i0.active_listings + dl
        /\ i1.active_auctions = i0.active_auctions + da
    <3>1. /\ i0.active_listings \in Nat /\ i0.active_auctions \in Nat
          /\ i1.active_listings = Bump(i0.active_listings, dl)
          /\ i1.active_auctions = Bump(i0.active_auctions, da)
      BY <2>3 DEF CollectionInfo, i1
    <3> QED BY <3>1 DEF Bump
  <2>5. ASSUME NEW c \in DOMAIN collections
        PROVE  /\ next.collections[c].active_listings
                    = run.collections[c].active_listings + (IF c = coll THEN dl ELSE 0)
               /\ next.collections[c].active_auctions
                    = run.collections[c].active_auctions + (IF c = coll THEN da ELSE 0)
    <3>1. next.collections[c] = IF c = coll THEN i1 ELSE run.collections[c]
      BY <1>1, <2>2
    <3>2. /\ run.collections[c].active_listings \in Nat
          /\ run.collections[c].active_auctions \in Nat
      BY <1>1 DEF CollectionInfo
    <3> QED BY <2>4, <3>1, <3>2
  <2> QED BY <2>2, <2>5 DEF CountersMoved, id, coll
<1> QED BY <1>2, <1>3

\* Counting a failure moves no counter.
LEMMA SkipCounts ==
    ASSUME NEW Recs, NEW max, NEW run \in Runs(Recs, max), NEW seller, NEW item,
           NEW next, next = Skip(run, seller, item)
    PROVE  next.collections = run.collections
BY DEF Skip, Runs

-----------------------------------------------------------------------------

\* A loop that has done nothing yet has nothing to report.
LEMMA BegunIsReported ==
    ASSUME WellFormed, NEW Recs, NEW max \in Nat, NEW seq \in 0 .. max,
           NEW table \in [1 .. max -> Recs], NEW run, run = Begun(seq, table)
    PROVE  /\ run \in Runs(Recs, max) /\ RoyaltiesKept(run) /\ Reported(run, max, seq)
           /\ run.seq = seq /\ run.records = table /\ run.balance = balance
<1>1. /\ run.seq = seq /\ run.records = table /\ run.collections = collections
      /\ run.balance = balance /\ run.result.succeeded = 0 /\ run.result.ids = << >>
  BY DEF Begun, NoResult
<1>2. run \in Runs(Recs, max)
  <2>1. NoResult \in [succeeded : Nat, failed : Nat, ids : Seq(Int)]
    BY DEF NoResult
  <2> QED BY <2>1 DEF WellFormed, Runs, Begun
<1>3. Opened(1 .. max, seq, seq) = {}
  BY DEF Opened
<1>4. ASSUME NEW c \in Collections
      PROVE  /\ EscrowedFor({}, table, c) = 0
             /\ balance[c][Market] \in Nat
  <2>1. {i \in {} : table[i].collection = c} = {}
    OBVIOUS
  <2>2. EscrowedFor({}, table, c) = 0
    BY <2>1, SumEmpty DEF EscrowedFor
  <2> QED BY <2>2 DEF WellFormed, Tokens, Accounts
<1>5. Reported(run, max, seq)
  <2>1. seq \in Int /\ seq - seq = 0 /\ 1 .. 0 = {} /\ Len(<< >>) = 0
    OBVIOUS
  <2>2. \A c \in Collections : balance[c][Market] = balance[c][Market] + EscrowedFor({}, table, c)
    BY <1>4
  <2>3. seq <= run.seq /\ run.result.succeeded = run.seq - seq /\ Len(run.result.ids) = run.seq - seq
    BY <1>1
  <2>4. \A k \in 1 .. run.seq - seq : run.result.ids[k] = seq + k
    BY <1>1, <2>1
  <2>5. Opened(1 .. max, seq, run.seq) = {}
    BY <1>1, <1>3
  <2>6. \A c \in Collections :
          run.balance[c][Market] = balance[c][Market] + EscrowedFor({}, run.records, c)
    BY <1>1, <2>2
  <2> QED BY ONLY <2>3, <2>4, <2>5, <2>6 DEF Reported
<1> QED BY <1>1, <1>2, <1>5 DEF RoyaltiesKept

-----------------------------------------------------------------------------

\* A run leaves the records it did not open as they were.
OthersKept(run, before, old) ==
    \A i \in DOMAIN old : i <= before \/ i > run.seq => run.records[i] = old[i]

\* An item that is skipped touches no record.
LEMMA PassedKeepsOthers ==
    ASSUME NEW run, NEW next, NEW before, NEW old, OthersKept(run, before, old),
           Passed(run, next)
    PROVE  OthersKept(next, before, old)
BY DEF OthersKept, Passed

\* An item that is taken touches the record it opens.
LEMMA TakenKeepsOthers ==
    ASSUME NEW Recs, NEW max \in Nat, NEW run \in Runs(Recs, max), NEW next,
           NEW before \in Nat, before <= run.seq, NEW old, DOMAIN old = 1 .. max,
           OthersKept(run, before, old), NEW coll, NEW amount, NEW record,
           Taken(run, next, coll, amount, record)
    PROVE  OthersKept(next, before, old)
<1>1. run.seq \in Nat /\ run.records \in [1 .. max -> Recs]
  BY DEF Runs
<1>2. /\ next.seq = run.seq + 1
      /\ next.records = [run.records EXCEPT ![run.seq + 1] = record]
  BY DEF Taken
<1> SUFFICES ASSUME NEW i \in 1 .. max, i <= before \/ i > next.seq
             PROVE  next.records[i] = old[i]
  BY DEF OthersKept
<1>3. i # run.seq + 1 /\ (i <= before \/ i > run.seq)
  BY <1>1, <1>2
<1>4. run.records[i] = old[i]
  BY <1>3 DEF OthersKept
<1> QED BY <1>1, <1>2, <1>3, <1>4

ListingItem == [collection : Collections, amount : Nat, price : Int, currency : Currencies]

\* What the records of a run are owed beyond the stored ones, the contract
\* holds beyond its balance.
ListingsCovered(run) ==
    \A t \in Tokens :
        balance[t][Market] + SumOver(ListingIds, [i \in ListingIds |-> ListingDebt(run.records[i], t)])
            <= run.balance[t][Market] + OwedToSellers(t)

\* The counters are right for the listings of a run, if they were before, and
\* the counters of auctions have not moved.
ListingsCounted(run) ==
    CountersInv /\ inits <= 1 =>
        /\ RunCounted(run, MaxListings,
              [c \in DOMAIN collections |-> run.collections[c].active_listings])
        /\ \A c \in DOMAIN collections :
              run.collections[c].active_auctions = collections[c].active_auctions

\* The loop invariant of bulk_list.
ListingRuns ==
    {run \in Runs(ListingRecord \cup {NoRecord}, MaxListings) :
        /\ RoyaltiesKept(run) /\ Reported(run, MaxListings, listing_seq)
        /\ ListingsCovered(run) /\ ListingsCounted(run)
        /\ OthersKept(run, listing_seq, listings)}

\* A run with the same records and counters has them counted.
LEMMA ListingsStillCounted ==
    ASSUME NEW run, NEW next, ListingsCounted(run), next.seq = run.seq,
           next.records = run.records, next.collections = run.collections
    PROVE  ListingsCounted(next)
BY DEF ListingsCounted, RunCounted

\* The next item is counted, too.
LEMMA ListingIsCounted ==
    ASSUME NEW Recs, NEW max, max = MaxListings, NEW run \in Runs(Recs, max), NEW next,
           ListingsCounted(run), NEW record, record.status = "Active",
           NEW coll \in DOMAIN collections, record.collection = coll,
           run.seq + 1 \in 1 .. max, next.seq = run.seq + 1,
           next.records = [run.records EXCEPT ![run.seq + 1] = record],
           CountersMoved(run, next, coll, 1, 0)
    PROVE  ListingsCounted(next)
<1> DEFINE old == [c \in DOMAIN collections |-> run.collections[c].active_listings]
           new == [c \in DOMAIN collections |-> next.collections[c].active_listings]
<1>1. \A c \in DOMAIN collections :
        /\ run.collections[c].active_listings \in Nat
        /\ run.collections[c].active_auctions \in Nat
  BY DEF Runs, CollectionInfo
<1> SUFFICES ASSUME CountersInv, inits <= 1
             PROVE  /\ RunCounted(next, MaxListings, new)
                    /\ \A c \in DOMAIN collections :
                          next.collections[c].active_auctions = collections[c].active_auctions
  BY DEF ListingsCounted
<1>2. /\ RunCounted(run, max, old)
      /\ \A c \in DOMAIN collections :
            run.collections[c].active_auctions = collections[c].active_auctions
  BY DEF ListingsCounted
<1>3. \A c \in DOMAIN collections :
        new[c] = IF c = record.collection THEN old[c] + 1 ELSE old[c]
  BY <1>1 DEF CountersMoved
<1>4. max \in Nat
  BY BoundsType
<1>5. \A c \in DOMAIN collections :
        next.collections[c].active_auctions = collections[c].active_auctions
  BY <1>1, <1>2 DEF CountersMoved
<1> HIDE DEF old, new
<1>6. RunCounted(next, max, new)
  BY <1>2, <1>3, <1>4, TakenIsCounted
<1> QED BY <1>5, <1>6

\* It holds before the first item.
LEMMA ListingsBegun == ASSUME WellFormed PROVE Begun(listing_seq, listings) \in ListingRuns
<1> DEFINE run == Begun(listing_seq, listings)
           Recs == ListingRecord \cup {NoRecord}
<1>1. /\ listing_seq \in 0 .. MaxListings /\ MaxListings \in Nat
      /\ listings \in [1 .. MaxListings -> Recs]
  BY BoundsType DEF WellFormed, ListingIds
<1>2. /\ run \in Runs(Recs, MaxListings) /\ RoyaltiesKept(run)
      /\ Reported(run, MaxListings, listing_seq)
      /\ run.seq = listing_seq /\ run.records = listings /\ run.collections = collections
      /\ run.balance = balance
  <2>1. run = Begun(listing_seq, listings)
    OBVIOUS
  <2>2. /\ run.seq = listing_seq /\ run.records = listings /\ run.collections = collections
        /\ run.balance = balance
    BY DEF Begun
  <2> HIDE DEF Recs, run
  <2>3. /\ run \in Runs(Recs, MaxListings) /\ RoyaltiesKept(run)
        /\ Reported(run, MaxListings, listing_seq)
    BY ONLY WellFormed, <1>1, <2>1, BegunIsReported
  <2> QED BY <2>2, <2>3
<1> HIDE DEF run
<1>3. ListingsCovered(run)
  <2> SUFFICES ASSUME NEW t \in Tokens
               PROVE  balance[t][Market]
                        + SumOver(ListingIds, [i \in ListingIds |-> ListingDebt(listings[i], t)])
                        <= balance[t][Market] + OwedToSellers(t)
    BY <1>2 DEF ListingsCovered
  <2>1. SumOver(ListingIds, [i \in ListingIds |-> ListingDebt(listings[i], t)]) = OwedToSellers(t)
    BY DEF OwedToSellers
  <2>2. OwedToSellers(t) \in Nat /\ balance[t][Market] \in Nat
    BY OwedType DEF WellFormed, Accounts
  <2> QED BY ONLY <2>1, <2>2
<1>4. ListingsCounted(run)
  <2> SUFFICES ASSUME CountersInv, inits <= 1
               PROVE  RunCounted(run, MaxListings,
                        [c \in DOMAIN collections |-> run.collections[c].active_listings])
    BY <1>2 DEF ListingsCounted
  <2>1. /\ CountersMatch /\ NextIdsAreNew /\ OpenAreRegistered
        /\ ListingIds = 1 .. MaxListings
    BY DEF CountersInv, ListingIds
  <2>2. \A c \in DOMAIN collections :
          collections[c].active_listings = Cardinality(OpenIn(1 .. MaxListings, listings, c))
    BY <2>1 DEF CountersMatch, OpenIn
  <2>3. run.seq = listing_seq /\ run.records = listings /\ run.collections = collections
    BY <1>2
  <2> QED BY <2>1, <2>2, <2>3 DEF RunCounted, NextIdsAreNew, OpenAreRegistered
<1>5. OthersKept(run, listing_seq, listings)
  BY <1>2 DEF OthersKept
<1> QED BY <1>2, <1>3, <1>4, <1>5 DEF ListingRuns, run

\* It holds after one more item, whatever the item is.
LEMMA ListItemKeeps ==
    ASSUME WellFormed, NEW run \in ListingRuns, NEW seller \in Users, NEW item \in ListingItem
    PROVE  ListItem(run, seller, item) \in ListingRuns
<1> DEFINE Recs == ListingRecord \cup {NoRecord}
           next == ListItem(run, seller, item)
           record == [seller |-> seller, collection |-> item.collection, amount |-> item.amount,
                      price |-> item.price, currency |-> item.currency, status |-> "Active"]
<1>1. /\ run \in Runs(Recs, MaxListings) /\ RoyaltiesKept(run)
      /\ Reported(run, MaxListings, listing_seq) /\ ListingsCovered(run)
      /\ ListingsCounted(run) /\ OthersKept(run, listing_seq, listings)
  BY DEF ListingRuns
<1>2. CASE ~run.returns
  BY <1>2 DEF ListItem
<1>3. CASE run.returns /\ ~ListableItem(item)
  <2>1. next = Skip(run, seller, item)
    BY <1>3 DEF ListItem
  <2>2. next \in Runs(Recs, MaxListings) /\ RoyaltiesKept(next) /\ Passed(run, next)
    <3> HIDE DEF Recs, next
    <3> QED BY ONLY <1>1, <2>1, SkipEffect, BoundsType
  <2>3. Reported(next, MaxListings, listing_seq)
    BY <1>1, <2>2, PassedIsReported
  <2>4. ListingsCovered(next)
    BY <1>1, <2>2 DEF ListingsCovered, Passed
  <2>5. ListingsCounted(next)
    <3>1. next.collections = run.collections
      <4> HIDE DEF Recs, next
      <4> QED BY ONLY <1>1, <2>1, SkipCounts
    <3> QED BY <1>1, <2>2, <3>1, ListingsStillCounted DEF Passed
  <2>6. OthersKept(next, listing_seq, listings)
    BY <1>1, <2>2, PassedKeepsOthers
  <2> QED BY <2>2, <2>3, <2>4, <2>5, <2>6 DEF ListingRuns
<1>4. CASE run.returns /\ ListableItem(item)
  <2>1. /\ item.collection \in DOMAIN collections /\ item.collection \in Collections
        /\ item.amount \in Nat /\ item.price \in Nat \ {0} /\ item.currency \in Currencies
    BY <1>4 DEF ListableItem, ListingItem
  <2>2. record \in ListingRecord
    BY <2>1 DEF ListingRecord
  <2>3. next = Take(run, seller, item, 1 .. MaxListings, record, 1, 0)
    BY <1>4 DEF ListItem, ListingIds
  <2>4. /\ record.status = "Active" /\ record.amount = item.amount
        /\ record.collection = item.collection
    OBVIOUS
  <2> HIDE DEF record, next
  <2>5. /\ next \in Runs(Recs, MaxListings) /\ RoyaltiesKept(next)
        /\ \/ Passed(run, next)
           \/ /\ run.seq + 1 \in 1 .. MaxListings
              /\ Taken(run, next, item.collection, item.amount, record)
    <3>1. record \in Recs /\ MaxListings \in Nat
      BY <2>2, BoundsType
    <3> HIDE DEF Recs
    <3> QED BY <1>1, <2>1, <2>3, <3>1, TakeEffect
  <2>8. ListingsCounted(next)
    <3>1. \/ next.seq = run.seq /\ next.collections = run.collections
          \/ next.seq = run.seq + 1 /\ CountersMoved(run, next, item.collection, 1, 0)
      <4> DEFINE max == MaxListings
                 dl == 1
                 da == 0
      <4>1. /\ max \in Nat /\ dl \in {0, 1} /\ da \in {0, 1}
            /\ run \in Runs(Recs, max) /\ item.collection \in DOMAIN collections
            /\ next = Take(run, seller, item, 1 .. max, record, dl, da)
        BY <1>1, <2>1, <2>3, BoundsType
      <4> HIDE DEF Recs, max, dl, da
      <4>2. \/ next.seq = run.seq /\ next.collections = run.collections
            \/ next.seq = run.seq + 1 /\ CountersMoved(run, next, item.collection, dl, da)
        BY ONLY <4>1, TakeCounts
      <4> QED BY <4>2 DEF dl, da
    <3>2. run.seq # run.seq + 1
      BY <1>1 DEF Runs
    <3>3. CASE Passed(run, next)
      BY <1>1, <3>1, <3>2, <3>3, ListingsStillCounted DEF Passed
    <3>4. CASE /\ run.seq + 1 \in 1 .. MaxListings
               /\ Taken(run, next, item.collection, item.amount, record)
      <4>1. /\ next.seq = run.seq + 1
            /\ next.records = [run.records EXCEPT ![run.seq + 1] = record]
        BY <3>4 DEF Taken
      <4> DEFINE coll == item.collection
                 max == MaxListings
      <4>2. /\ coll \in DOMAIN collections /\ record.collection = coll /\ max = MaxListings
            /\ run \in Runs(Recs, max) /\ run.seq + 1 \in 1 .. max
            /\ CountersMoved(run, next, coll, 1, 0)
        BY <1>1, <2>1, <2>4, <3>1, <3>2, <3>4, <4>1
      <4> HIDE DEF Recs, coll, max
      <4> QED BY ONLY <1>1, <2>4, <4>1, <4>2, ListingIsCounted
    <3> QED BY <2>5, <3>3, <3>4
  <2>6. CASE Passed(run, next)
    <3>1. Reported(next, MaxListings, listing_seq)
      BY <1>1, <2>6, PassedIsReported
    <3>2. ListingsCovered(next)
      BY <1>1, <2>6 DEF ListingsCovered, Passed
    <3>3. OthersKept(next, listing_seq, listings)
      BY <1>1, <2>6, PassedKeepsOthers
    <3> QED BY <2>5, <2>8, <3>1, <3>2, <3>3 DEF ListingRuns, next
  <2>7. CASE /\ run.seq + 1 \in 1 .. MaxListings
             /\ Taken(run, next, item.collection, item.amount, record)
    <3>1. Reported(next, MaxListings, listing_seq)
      <4>1. record \in Recs /\ MaxListings \in Nat /\ listing_seq \in Nat
        BY <2>2, BoundsType DEF WellFormed
      <4> HIDE DEF Recs
      <4> QED BY <1>1, <2>1, <2>4, <2>5, <2>7, <4>1, TakenIsReported
    <3>2. ListingsCovered(next)
      <4> SUFFICES ASSUME NEW t \in Tokens
                   PROVE  balance[t][Market] + SumOver(ListingIds,
                                [i \in ListingIds |-> ListingDebt(next.records[i], t)])
                            <= next.balance[t][Market] + OwedToSellers(t)
        BY DEF ListingsCovered
      <4> DEFINE id == run.seq + 1
                 before == SumOver(ListingIds, [i \in ListingIds |-> ListingDebt(run.records[i], t)])
                 after == SumOver(ListingIds, [i \in ListingIds |-> ListingDebt(next.records[i], t)])
                 new == ListingDebt(record, t)
                 old == ListingDebt(run.records[id], t)
      <4>1. /\ id \in ListingIds /\ run.records \in [ListingIds -> Recs]
            /\ next.records = [run.records EXCEPT ![id] = record]
        BY <1>1, <2>7 DEF Runs, Taken, ListingIds
      <4>2. /\ before \in Nat /\ new \in Nat /\ old \in Nat
            /\ after = before + new - old
        <5> DEFINE tab == run.records
        <5>1. tab \in [ListingIds -> Recs] /\ id \in ListingIds
          BY <4>1
        <5>2. after = SumOver(ListingIds,
                [i \in ListingIds |-> ListingDebt([tab EXCEPT ![id] = record][i], t)])
          BY <4>1
        <5> HIDE DEF tab, id, after
        <5>3. /\ SumOver(ListingIds, [i \in ListingIds |-> ListingDebt(tab[i], t)]) \in Nat
              /\ new \in Nat /\ ListingDebt(tab[id], t) \in Nat
              /\ after = SumOver(ListingIds, [i \in ListingIds |-> ListingDebt(tab[i], t)])
                           + new - ListingDebt(tab[id], t)
          BY ONLY <2>2, <5>1, <5>2, ListingSums
        <5> QED BY <5>3 DEF tab
      <4>3. new = IF item.collection = t THEN item.amount ELSE 0
        BY <2>4 DEF ListingDebt
      <4>4. next.balance[t][Market]
              = run.balance[t][Market] + (IF item.collection = t THEN item.amount ELSE 0)
        <5>1. run.balance[t][Market] \in Nat
          BY <1>1 DEF Runs, Accounts
        <5> QED BY <2>7, <5>1 DEF Taken
      <4>5. /\ balance[t][Market] \in Nat /\ run.balance[t][Market] \in Nat
            /\ OwedToSellers(t) \in Nat
        BY <1>1, OwedType DEF WellFormed, Runs, Accounts
      <4>6. balance[t][Market] + before <= run.balance[t][Market] + OwedToSellers(t)
        BY <1>1 DEF ListingsCovered
      <4> HIDE DEF id, before, after, new, old
      <4>7. balance[t][Market] + after <= next.balance[t][Market] + OwedToSellers(t)
        BY ONLY <2>1, <4>2, <4>3, <4>4, <4>5, <4>6
      <4> QED BY <4>7 DEF after
    <3>3. OthersKept(next, listing_seq, listings)
      <4>1. /\ MaxListings \in Nat /\ listing_seq \in Nat /\ listing_seq <= run.seq
            /\ DOMAIN listings = 1 .. MaxListings
        BY <1>1, BoundsType DEF WellFormed, Reported, ListingIds
      <4> HIDE DEF Recs
      <4> QED BY <1>1, <2>7, <4>1, TakenKeepsOthers
    <3> QED BY <2>5, <2>8, <3>1, <3>2, <3>3 DEF ListingRuns, next
  <2> QED BY <2>5, <2>6, <2>7
<1> QED BY <1>2, <1>3, <1>4

\* It holds after all of them.
LEMMA ListRunKeeps ==
    ASSUME WellFormed, NEW seller \in Users, NEW items \in Seq(ListingItem)
    PROVE  ListRun(seller, items) \in ListingRuns
<1> DEFINE n == Len(items)
           base == Begun(listing_seq, listings)
           step == [p \in (1 .. n) \X ListingRuns |-> ListItem(p[2], seller, items[p[1]])]
           IsIt(g) == g = [k \in 0 .. n |->
                             IF k = 0 THEN base ELSE ListItem(g[k - 1], seller, items[k])]
           it == CHOOSE g : IsIt(g)
<1>1. n \in Nat /\ base \in ListingRuns
  BY ListingsBegun
<1>2. step \in [(1 .. n) \X ListingRuns -> ListingRuns]
  <2>1. \A k \in 1 .. n : items[k] \in ListingItem
    OBVIOUS
  <2> HIDE DEF n
  <2> QED BY <2>1, ListItemKeeps
<1>3. ListRun(seller, items) = it[n]
  BY DEF ListRun
<1> HIDE DEF base, n
<1>4. PICK g : Iterates(g, n, ListingRuns, base, step)
  <2> HIDE DEF step
  <2> QED BY ONLY <1>1, <1>2, IterationExists
<1>5. ASSUME NEW k \in 0 .. n
      PROVE  g[k] = IF k = 0 THEN base ELSE ListItem(g[k - 1], seller, items[k])
  <2>1. CASE k = 0
    BY <1>4, <2>1 DEF Iterates
  <2>2. CASE k # 0
    <3>1. k \in 1 .. n /\ k - 1 \in 0 .. n
      BY <1>1, <2>2
    <3>2. <<k, g[k - 1]>> \in (1 .. n) \X ListingRuns
      BY <1>4, <3>1 DEF Iterates
    <3>3. step[<<k, g[k - 1]>>] = ListItem(g[k - 1], seller, items[k])
      BY <3>2
    <3> HIDE DEF step
    <3> QED BY <1>4, <2>2, <3>1, <3>3 DEF Iterates
  <2> QED BY <2>1, <2>2
<1>6. IsIt(g)
  <2>1. g = [k \in 0 .. n |-> g[k]]
    <3> HIDE DEF step
    <3> QED BY <1>4 DEF Iterates
  <2> HIDE DEF step
  <2> QED BY <1>5, <2>1
<1>7. IsIt(it)
  <2> HIDE DEF IsIt
  <2> QED BY <1>6
<1>8. \A k \in 0 .. n : it[k] = IF k = 0 THEN base ELSE ListItem(it[k - 1], seller, items[k])
  <2> HIDE DEF it
  <2> QED BY <1>7
<1> HIDE DEF it, IsIt, step
<1>9. \A k \in 0 .. n : it[k] \in ListingRuns
  <2> DEFINE Bad == {k \in 0 .. n : it[k] \notin ListingRuns}
  <2> SUFFICES ASSUME Bad # {} PROVE FALSE
    OBVIOUS
  <2>1. PICK k \in Bad : \A j \in Bad : k <= j
    <3>1. Bad \in SUBSET Nat
      OBVIOUS
    <3> HIDE DEF Bad
    <3> QED BY <3>1, LeastExists
  <2>2. k \in 0 .. n /\ it[k] \notin ListingRuns
    BY <2>1
  <2>3. k # 0
    BY <1>1, <1>8, <2>2
  <2>4. k \in 1 .. n /\ k - 1 \in 0 .. n /\ ~(k <= k - 1)
    BY <1>1, <2>2, <2>3
  <2>5. it[k - 1] \in ListingRuns
    BY <2>1, <2>4
  <2>6. items[k] \in ListingItem
    BY <2>4 DEF n
  <2>7. it[k] = ListItem(it[k - 1], seller, items[k])
    BY <1>8, <2>2, <2>3
  <2> QED BY <2>2, <2>5, <2>6, <2>7, ListItemKeeps
<1>10. n \in 0 .. n
  BY <1>1
<1> QED BY <1>3, <1>9, <1>10

-----------------------------------------------------------------------------

AuctionedItem ==
    [auction_type : {"English", "Dutch"}, collection : Collections, amount : Nat,
     start_price : Int, floor_price : Int, currency : Currencies, duration_seconds : Nat]

\* The same of the auctions of a run.
AuctionsCovered(run) ==
    \A t \in Tokens :
        balance[t][Market] + SumOver(AuctionIds, [i \in AuctionIds |-> AuctionDebt(run.records[i], t)])
            <= run.balance[t][Market] + OwedToAuctions(t)

TermsKept(run) ==
    \A i \in AuctionIds : run.records[i].status # "None"
        => run.records[i].start_time < run.records[i].end_time

\* The counters are right for the auctions of a run, if they were before, and
\* the counters of listings have not moved.
AuctionsCounted(run) ==
    CountersInv /\ inits <= 1 =>
        /\ RunCounted(run, MaxAuctions,
              [c \in DOMAIN collections |-> run.collections[c].active_auctions])
        /\ \A c \in DOMAIN collections :
              run.collections[c].active_listings = collections[c].active_listings

StartsAboveFloor(a) == a.auction_type = "Dutch" => a.floor_price < a.start_price

\* A run changes no bid: its new auctions have none, and room to fall.
BidsKept(run) ==
    \A i \in AuctionIds :
        \/ run.records[i] = auctions[i]
        \/ run.records[i].current_bid = 0 /\ StartsAboveFloor(run.records[i])

\* The loop invariant of bulk_create_auctions.
AuctionRuns ==
    {run \in Runs(AuctionRecord \cup {NoRecord}, MaxAuctions) :
        /\ RoyaltiesKept(run) /\ Reported(run, MaxAuctions, auction_seq)
        /\ AuctionsCovered(run) /\ TermsKept(run)
        /\ AuctionsCounted(run) /\ BidsKept(run)
        /\ OthersKept(run, auction_seq, auctions)}

\* A run with the same records and counters has them counted.
LEMMA AuctionsStillCounted ==
    ASSUME NEW run, NEW next, AuctionsCounted(run), next.seq = run.seq,
           next.records = run.records, next.collections = run.collections
    PROVE  AuctionsCounted(next)
BY DEF AuctionsCounted, RunCounted

\* The next item is counted, too.
LEMMA AuctionIsCounted ==
    ASSUME NEW Recs, NEW max, max = MaxAuctions, NEW run \in Runs(Recs, max), NEW next,
           AuctionsCounted(run), NEW record, record.status = "Active",
           NEW coll \in DOMAIN collections, record.collection = coll,
           run.seq + 1 \in 1 .. max, next.seq = run.seq + 1,
           next.records = [run.records EXCEPT ![run.seq + 1] = record],
           CountersMoved(run, next, coll, 0, 1)
    PROVE  AuctionsCounted(next)
<1> DEFINE old == [c \in DOMAIN collections |-> run.collections[c].active_auctions]
           new == [c \in DOMAIN collections |-> next.collections[c].active_auctions]
<1>1. \A c \in DOMAIN collections :
        /\ run.collections[c].active_auctions \in Nat
        /\ run.collections[c].active_listings \in Nat
  BY DEF Runs, CollectionInfo
<1> SUFFICES ASSUME CountersInv, inits <= 1
             PROVE  /\ RunCounted(next, MaxAuctions, new)
                    /\ \A c \in DOMAIN collections :
                          next.collections[c].active_listings = collections[c].active_listings
  BY DEF AuctionsCounted
<1>2. /\ RunCounted(run, max, old)
      /\ \A c \in DOMAIN collections :
            run.collections[c].active_listings = collections[c].active_listings
  BY DEF AuctionsCounted
<1>3. \A c \in DOMAIN collections :
        new[c] = IF c = record.collection THEN old[c] + 1 ELSE old[c]
  BY <1>1 DEF CountersMoved
<1>4. max \in Nat
  BY BoundsType
<1>5. \A c \in DOMAIN collections :
        next.collections[c].active_listings = collections[c].active_listings
  BY <1>1, <1>2 DEF CountersMoved
<1> HIDE DEF old, new
<1>6. RunCounted(next, max, new)
  BY <1>2, <1>3, <1>4, TakenIsCounted
<1> QED BY <1>5, <1>6

\* It holds before the first item.
LEMMA AuctionsBegun == ASSUME WellFormed PROVE Begun(auction_seq, auctions) \in AuctionRuns
<1> DEFINE run == Begun(auction_seq, auctions)
           Recs == AuctionRecord \cup {NoRecord}
<1>1. /\ auction_seq \in 0 .. MaxAuctions /\ MaxAuctions \in Nat
      /\ auctions \in [1 .. MaxAuctions -> Recs]
  BY BoundsType DEF WellFormed, AuctionIds
<1>2. /\ run \in Runs(Recs, MaxAuctions) /\ RoyaltiesKept(run)
      /\ Reported(run, MaxAuctions, auction_seq)
      /\ run.seq = auction_seq /\ run.records = auctions /\ run.collections = collections
      /\ run.balance = balance
  <2>1. run = Begun(auction_seq, auctions)
    OBVIOUS
  <2>2. /\ run.seq = auction_seq /\ run.records = auctions /\ run.collections = collections
        /\ run.balance = balance
    BY DEF Begun
  <2> HIDE DEF Recs, run
  <2>3. /\ run \in Runs(Recs, MaxAuctions) /\ RoyaltiesKept(run)
        /\ Reported(run, MaxAuctions, auction_seq)
    BY ONLY WellFormed, <1>1, <2>1, BegunIsReported
  <2> QED BY <2>2, <2>3
<1> HIDE DEF run
<1>3. AuctionsCovered(run)
  <2> SUFFICES ASSUME NEW t \in Tokens
               PROVE  balance[t][Market]
                        + SumOver(AuctionIds, [i \in AuctionIds |-> AuctionDebt(auctions[i], t)])
                        <= balance[t][Market] + OwedToAuctions(t)
    BY <1>2 DEF AuctionsCovered
  <2>1. SumOver(AuctionIds, [i \in AuctionIds |-> AuctionDebt(auctions[i], t)]) = OwedToAuctions(t)
    BY DEF OwedToAuctions
  <2>2. OwedToAuctions(t) \in Nat /\ balance[t][Market] \in Nat
    BY OwedType DEF WellFormed, Accounts
  <2> QED BY ONLY <2>1, <2>2
<1>4. TermsKept(run)
  BY <1>2 DEF TermsKept, WellFormed, AuctionTerms
<1>5. AuctionsCounted(run)
  <2> SUFFICES ASSUME CountersInv, inits <= 1
               PROVE  RunCounted(run, MaxAuctions,
                        [c \in DOMAIN collections |-> run.collections[c].active_auctions])
    BY <1>2 DEF AuctionsCounted
  <2>1. /\ CountersMatch /\ NextIdsAreNew /\ OpenAreRegistered
        /\ AuctionIds = 1 .. MaxAuctions
    BY DEF CountersInv, AuctionIds
  <2>2. \A c \in DOMAIN collections :
          collections[c].active_auctions = Cardinality(OpenIn(1 .. MaxAuctions, auctions, c))
    BY <2>1 DEF CountersMatch, OpenIn
  <2>3. run.seq = auction_seq /\ run.records = auctions /\ run.collections = collections
    BY <1>2
  <2> QED BY <2>1, <2>2, <2>3 DEF RunCounted, NextIdsAreNew, OpenAreRegistered
<1>6. BidsKept(run)
  BY <1>2 DEF BidsKept
<1>7. OthersKept(run, auction_seq, auctions)
  BY <1>2 DEF OthersKept
<1> QED BY <1>2, <1>3, <1>4, <1>5, <1>6, <1>7 DEF AuctionRuns, run

\* It holds after one more item, whatever the item is.
LEMMA AuctionItemKeeps ==
    ASSUME WellFormed, NEW run \in AuctionRuns, NEW seller \in Users, NEW item \in AuctionedItem
    PROVE  AuctionItem(run, seller, item) \in AuctionRuns
<1> DEFINE Recs == AuctionRecord \cup {NoRecord}
           next == AuctionItem(run, seller, item)
           record == [auction_type |-> item.auction_type, seller |-> seller,
                      collection |-> item.collection, amount |-> item.amount,
                      currency |-> item.currency, start_price |-> item.start_price,
                      floor_price |-> item.floor_price, current_bid |-> 0,
                      current_bidder |-> Market, status |-> "Active", start_time |-> now,
                      end_time |-> now + item.duration_seconds,
                      auto_extension_window |->
                          IF item.auction_type = "English" THEN config.auto_ext ELSE 0]
<1>1. /\ run \in Runs(Recs, MaxAuctions) /\ RoyaltiesKept(run)
      /\ Reported(run, MaxAuctions, auction_seq) /\ AuctionsCovered(run) /\ TermsKept(run)
      /\ AuctionsCounted(run) /\ BidsKept(run) /\ OthersKept(run, auction_seq, auctions)
  BY DEF AuctionRuns
<1>2. CASE ~run.returns
  BY <1>2 DEF AuctionItem
<1>3. CASE run.returns /\ ~AuctionableItem(item)
  <2>1. next = Skip(run, seller, item)
    BY <1>3 DEF AuctionItem
  <2>2. next \in Runs(Recs, MaxAuctions) /\ RoyaltiesKept(next) /\ Passed(run, next)
    <3> HIDE DEF Recs, next
    <3> QED BY ONLY <1>1, <2>1, SkipEffect, BoundsType
  <2>3. Reported(next, MaxAuctions, auction_seq)
    BY <1>1, <2>2, PassedIsReported
  <2>4. AuctionsCovered(next)
    BY <1>1, <2>2 DEF AuctionsCovered, Passed
  <2>5. TermsKept(next)
    BY <1>1, <2>2 DEF TermsKept, Passed
  <2>6. AuctionsCounted(next)
    <3>1. next.collections = run.collections
      <4> HIDE DEF Recs, next
      <4> QED BY ONLY <1>1, <2>1, SkipCounts
    <3> QED BY <1>1, <2>2, <3>1, AuctionsStillCounted DEF Passed
  <2>7. BidsKept(next)
    BY <1>1, <2>2 DEF BidsKept, Passed
  <2>8. OthersKept(next, auction_seq, auctions)
    BY <1>1, <2>2, PassedKeepsOthers
  <2> QED BY <2>2, <2>3, <2>4, <2>5, <2>6, <2>7, <2>8 DEF AuctionRuns
<1>4. CASE run.returns /\ AuctionableItem(item)
  <2>1. /\ item.collection \in DOMAIN collections /\ item.collection \in Collections
        /\ item.amount \in Nat /\ item.start_price \in Nat \ {0} /\ item.currency \in Currencies
        /\ item.auction_type \in {"English", "Dutch"} /\ item.floor_price \in Int
        /\ item.duration_seconds \in Nat \ {0}
    BY <1>4 DEF AuctionableItem, AuctionedItem
  <2>2. record \in AuctionRecord
    <3>1. now \in Nat /\ config.auto_ext \in Nat /\ Market \in Accounts
      BY DEF WellFormed, ConfigRecord, Accounts
    <3> QED BY <2>1, <3>1 DEF AuctionRecord
  <2>3. next = Take(run, seller, item, 1 .. MaxAuctions, record, 0, 1)
    BY <1>4 DEF AuctionItem, AuctionIds
  <2>4. /\ record.status = "Active" /\ record.amount = item.amount
        /\ record.collection = item.collection /\ record.current_bid = 0
        /\ record.start_time < record.end_time /\ StartsAboveFloor(record)
    BY <1>4, <2>1 DEF WellFormed, AuctionableItem, StartsAboveFloor
  <2> HIDE DEF record, next
  <2>5. /\ next \in Runs(Recs, MaxAuctions) /\ RoyaltiesKept(next)
        /\ \/ Passed(run, next)
           \/ /\ run.seq + 1 \in 1 .. MaxAuctions
              /\ Taken(run, next, item.collection, item.amount, record)
    <3>1. record \in Recs /\ MaxAuctions \in Nat
      BY <2>2, BoundsType
    <3> HIDE DEF Recs
    <3> QED BY <1>1, <2>1, <2>3, <3>1, TakeEffect
  <2>8. AuctionsCounted(next)
    <3>1. \/ next.seq = run.seq /\ next.collections = run.collections
          \/ next.seq = run.seq + 1 /\ CountersMoved(run, next, item.collection, 0, 1)
      <4> DEFINE max == MaxAuctions
                 dl == 0
                 da == 1
      <4>1. /\ max \in Nat /\ dl \in {0, 1} /\ da \in {0, 1}
            /\ run \in Runs(Recs, max) /\ item.collection \in DOMAIN collections
            /\ next = Take(run, seller, item, 1 .. max, record, dl, da)
        BY <1>1, <2>1, <2>3, BoundsType
      <4> HIDE DEF Recs, max, dl, da
      <4>2. \/ next.seq = run.seq /\ next.collections = run.collections
            \/ next.seq = run.seq + 1 /\ CountersMoved(run, next, item.collection, dl, da)
        BY ONLY <4>1, TakeCounts
      <4> QED BY <4>2 DEF dl, da
    <3>2. run.seq # run.seq + 1
      BY <1>1 DEF Runs
    <3>3. CASE Passed(run, next)
      BY <1>1, <3>1, <3>2, <3>3, AuctionsStillCounted DEF Passed
    <3>4. CASE /\ run.seq + 1 \in 1 .. MaxAuctions
               /\ Taken(run, next, item.collection, item.amount, record)
      <4>1. /\ next.seq = run.seq + 1
            /\ next.records = [run.records EXCEPT ![run.seq + 1] = record]
        BY <3>4 DEF Taken
      <4> DEFINE coll == item.collection
                 max == MaxAuctions
      <4>2. /\ coll \in DOMAIN collections /\ record.collection = coll /\ max = MaxAuctions
            /\ run \in Runs(Recs, max) /\ run.seq + 1 \in 1 .. max
            /\ CountersMoved(run, next, coll, 0, 1)
        BY <1>1, <2>1, <2>4, <3>1, <3>2, <3>4, <4>1
      <4> HIDE DEF Recs, coll, max
      <4> QED BY ONLY <1>1, <2>4, <4>1, <4>2, AuctionIsCounted
    <3> QED BY <2>5, <3>3, <3>4
  <2>9. BidsKept(next)
    <3>1. CASE Passed(run, next)
      BY <1>1, <3>1 DEF BidsKept, Passed
    <3>2. CASE /\ run.seq + 1 \in 1 .. MaxAuctions
               /\ Taken(run, next, item.collection, item.amount, record)
      <4>1. /\ run.records \in [AuctionIds -> Recs]
            /\ next.records = [run.records EXCEPT ![run.seq + 1] = record]
        BY <1>1, <3>2 DEF Runs, Taken, AuctionIds
      <4>2. \A i \in AuctionIds : next.records[i] = record \/ next.records[i] = run.records[i]
        BY <4>1
      <4> QED BY <1>1, <2>4, <4>2 DEF BidsKept
    <3> QED BY <2>5, <3>1, <3>2
  <2>6. CASE Passed(run, next)
    <3>1. Reported(next, MaxAuctions, auction_seq)
      BY <1>1, <2>6, PassedIsReported
    <3>2. AuctionsCovered(next)
      BY <1>1, <2>6 DEF AuctionsCovered, Passed
    <3>3. TermsKept(next)
      BY <1>1, <2>6 DEF TermsKept, Passed
    <3>4. OthersKept(next, auction_seq, auctions)
      BY <1>1, <2>6, PassedKeepsOthers
    <3> QED BY <2>5, <2>8, <2>9, <3>1, <3>2, <3>3, <3>4 DEF AuctionRuns, next
  <2>7. CASE /\ run.seq + 1 \in 1 .. MaxAuctions
             /\ Taken(run, next, item.collection, item.amount, record)
    <3>1. Reported(next, MaxAuctions, auction_seq)
      <4>1. record \in Recs /\ MaxAuctions \in Nat /\ auction_seq \in Nat
        BY <2>2, BoundsType DEF WellFormed
      <4> HIDE DEF Recs
      <4> QED BY <1>1, <2>1, <2>4, <2>5, <2>7, <4>1, TakenIsReported
    <3>2. AuctionsCovered(next)
      <4> SUFFICES ASSUME NEW t \in Tokens
                   PROVE  balance[t][Market] + SumOver(AuctionIds,
                                [i \in AuctionIds |-> AuctionDebt(next.records[i], t)])
                            <= next.balance[t][Market] + OwedToAuctions(t)
        BY DEF AuctionsCovered
      <4> DEFINE id == run.seq + 1
                 before == SumOver(AuctionIds, [i \in AuctionIds |-> AuctionDebt(run.records[i], t)])
                 after == SumOver(AuctionIds, [i \in AuctionIds |-> AuctionDebt(next.records[i], t)])
                 new == AuctionDebt(record, t)
                 old == AuctionDebt(run.records[id], t)
      <4>1. /\ id \in AuctionIds /\ run.records \in [AuctionIds -> Recs]
            /\ next.records = [run.records EXCEPT ![id] = record]
        BY <1>1, <2>7 DEF Runs, Taken, AuctionIds
      <4>2. /\ before \in Nat /\ new \in Nat /\ old \in Nat
            /\ after = before + new - old
        <5> DEFINE tab == run.records
        <5>1. tab \in [AuctionIds -> Recs] /\ id \in AuctionIds
          BY <4>1
        <5>2. after = SumOver(AuctionIds,
                [i \in AuctionIds |-> AuctionDebt([tab EXCEPT ![id] = record][i], t)])
          BY <4>1
        <5> HIDE DEF tab, id, after
        <5>3. /\ SumOver(AuctionIds, [i \in AuctionIds |-> AuctionDebt(tab[i], t)]) \in Nat
              /\ new \in Nat /\ AuctionDebt(tab[id], t) \in Nat
              /\ after = SumOver(AuctionIds, [i \in AuctionIds |-> AuctionDebt(tab[i], t)])
                           + new - AuctionDebt(tab[id], t)
          BY ONLY <2>2, <5>1, <5>2, AuctionSums
        <5> QED BY <5>3 DEF tab
      <4>3. new = IF item.collection = t THEN item.amount ELSE 0
        BY <2>1, <2>4 DEF AuctionDebt
      <4>4. next.balance[t][Market]
              = run.balance[t][Market] + (IF item.collection = t THEN item.amount ELSE 0)
        <5>1. run.balance[t][Market] \in Nat
          BY <1>1 DEF Runs, Accounts
        <5> QED BY <2>7, <5>1 DEF Taken
      <4>5. /\ balance[t][Market] \in Nat /\ run.balance[t][Market] \in Nat
            /\ OwedToAuctions(t) \in Nat
        BY <1>1, OwedType DEF WellFormed, Runs, Accounts
      <4>6. balance[t][Market] + before <= run.balance[t][Market] + OwedToAuctions(t)
        BY <1>1 DEF AuctionsCovered
      <4> HIDE DEF id, before, after, new, old
      <4>7. balance[t][Market] + after <= next.balance[t][Market] + OwedToAuctions(t)
        BY ONLY <2>1, <4>2, <4>3, <4>4, <4>5, <4>6
      <4> QED BY <4>7 DEF after
    <3>3. TermsKept(next)
      <4>1. /\ run.records \in [AuctionIds -> Recs]
            /\ next.records = [run.records EXCEPT ![run.seq + 1] = record]
        BY <1>1, <2>7 DEF Runs, Taken, AuctionIds
      <4>2. \A i \in AuctionIds : next.records[i] = record \/ next.records[i] = run.records[i]
        BY <4>1
      <4> QED BY <1>1, <2>4, <4>2 DEF TermsKept
    <3>4. OthersKept(next, auction_seq, auctions)
      <4>1. /\ MaxAuctions \in Nat /\ auction_seq \in Nat /\ auction_seq <= run.seq
            /\ DOMAIN auctions = 1 .. MaxAuctions
        BY <1>1, BoundsType DEF WellFormed, Reported, AuctionIds
      <4> HIDE DEF Recs
      <4> QED BY <1>1, <2>7, <4>1, TakenKeepsOthers
    <3> QED BY <2>5, <2>8, <2>9, <3>1, <3>2, <3>3, <3>4 DEF AuctionRuns, next
  <2> QED BY <2>5, <2>6, <2>7
<1> QED BY <1>2, <1>3, <1>4

\* It holds after all of them.
LEMMA AuctionRunKeeps ==
    ASSUME WellFormed, NEW seller \in Users, NEW items \in Seq(AuctionedItem)
    PROVE  AuctionRun(seller, items) \in AuctionRuns
<1> DEFINE n == Len(items)
           base == Begun(auction_seq, auctions)
           step == [p \in (1 .. n) \X AuctionRuns |-> AuctionItem(p[2], seller, items[p[1]])]
           IsIt(g) == g = [k \in 0 .. n |->
                             IF k = 0 THEN base ELSE AuctionItem(g[k - 1], seller, items[k])]
           it == CHOOSE g : IsIt(g)
<1>1. n \in Nat /\ base \in AuctionRuns
  BY AuctionsBegun
<1>2. step \in [(1 .. n) \X AuctionRuns -> AuctionRuns]
  <2>1. \A k \in 1 .. n : items[k] \in AuctionedItem
    OBVIOUS
  <2> HIDE DEF n
  <2> QED BY <2>1, AuctionItemKeeps
<1>3. AuctionRun(seller, items) = it[n]
  BY DEF AuctionRun
<1> HIDE DEF base, n
<1>4. PICK g : Iterates(g, n, AuctionRuns, base, step)
  <2> HIDE DEF step
  <2> QED BY ONLY <1>1, <1>2, IterationExists
<1>5. ASSUME NEW k \in 0 .. n
      PROVE  g[k] = IF k = 0 THEN base ELSE AuctionItem(g[k - 1], seller, items[k])
  <2>1. CASE k = 0
    BY <1>4, <2>1 DEF Iterates
  <2>2. CASE k # 0
    <3>1. k \in 1 .. n /\ k - 1 \in 0 .. n
      BY <1>1, <2>2
    <3>2. <<k, g[k - 1]>> \in (1 .. n) \X AuctionRuns
      BY <1>4, <3>1 DEF Iterates
    <3>3. step[<<k, g[k - 1]>>] = AuctionItem(g[k - 1], seller, items[k])
      BY <3>2
    <3> HIDE DEF step
    <3> QED BY <1>4, <2>2, <3>1, <3>3 DEF Iterates
  <2> QED BY <2>1, <2>2
<1>6. IsIt(g)
  <2>1. g = [k \in 0 .. n |-> g[k]]
    <3> HIDE DEF step
    <3> QED BY <1>4 DEF Iterates
  <2> HIDE DEF step
  <2> QED BY <1>5, <2>1
<1>7. IsIt(it)
  <2> HIDE DEF IsIt
  <2> QED BY <1>6
<1>8. \A k \in 0 .. n : it[k] = IF k = 0 THEN base ELSE AuctionItem(it[k - 1], seller, items[k])
  <2> HIDE DEF it
  <2> QED BY <1>7
<1> HIDE DEF it, IsIt, step
<1>9. \A k \in 0 .. n : it[k] \in AuctionRuns
  <2> DEFINE Bad == {k \in 0 .. n : it[k] \notin AuctionRuns}
  <2> SUFFICES ASSUME Bad # {} PROVE FALSE
    OBVIOUS
  <2>1. PICK k \in Bad : \A j \in Bad : k <= j
    <3>1. Bad \in SUBSET Nat
      OBVIOUS
    <3> HIDE DEF Bad
    <3> QED BY <3>1, LeastExists
  <2>2. k \in 0 .. n /\ it[k] \notin AuctionRuns
    BY <2>1
  <2>3. k # 0
    BY <1>1, <1>8, <2>2
  <2>4. k \in 1 .. n /\ k - 1 \in 0 .. n /\ ~(k <= k - 1)
    BY <1>1, <2>2, <2>3
  <2>5. it[k - 1] \in AuctionRuns
    BY <2>1, <2>4
  <2>6. items[k] \in AuctionedItem
    BY <2>4 DEF n
  <2>7. it[k] = AuctionItem(it[k - 1], seller, items[k])
    BY <1>8, <2>2, <2>3
  <2> QED BY <2>2, <2>5, <2>6, <2>7, AuctionItemKeeps
<1>10. n \in 0 .. n
  BY <1>1
<1> QED BY <1>3, <1>9, <1>10

-----------------------------------------------------------------------------
(* What the loop invariants mean for a call.                               *)

\* What a run reports is the truth about the step that ends in it.
LEMMA ReportedIsTruthful ==
    ASSUME WellFormed, NEW Recs, NEW max \in Nat, NEW run \in Runs(Recs, max),
           NEW before \in Nat, Reported(run, max, before), balance' = run.balance
    PROVE  IsTruthful(run.result, Opened(1 .. max, before, run.seq), run.records)
<1> DEFINE opened == Opened(1 .. max, before, run.seq)
           ids == run.result.ids
           n == run.seq - before
<1>1. run.seq \in 0 .. max /\ ids \in Seq(Int) /\ run.balance \in [Tokens -> [Accounts -> Nat]]
  BY DEF Runs
<1>2. /\ before <= run.seq /\ run.result.succeeded = n /\ Len(ids) = n
      /\ \A k \in 1 .. n : ids[k] = before + k
      /\ \A i \in opened : run.records[i].status = "Active" /\ run.records[i].amount \in Nat
      /\ \A c \in Collections :
            run.balance[c][Market] = balance[c][Market] + EscrowedFor(opened, run.records, c)
  BY DEF Reported
<1>3. opened = before + 1 .. run.seq
  BY <1>1, <1>2 DEF Opened
<1>4. Cardinality(opened) = run.result.succeeded
  <2>1. before + 1 \in Int /\ run.seq \in Int /\ (before + 1 > run.seq <=> n = 0)
        /\ run.seq - (before + 1) + 1 = n
    BY <1>1, <1>2
  <2>2. Cardinality(before + 1 .. run.seq)
          = IF before + 1 > run.seq THEN 0 ELSE run.seq - (before + 1) + 1
    BY ONLY <2>1, FS_Interval
  <2> QED BY ONLY <1>2, <1>3, <2>1, <2>2
<1>5. {ids[k] : k \in DOMAIN ids} = opened
  <2>1. DOMAIN ids = 1 .. n
    BY <1>1, <1>2
  <2>2. \A k \in 1 .. n : ids[k] \in opened
    BY <1>1, <1>2, <1>3
  <2>3. ASSUME NEW i \in opened PROVE \E k \in 1 .. n : ids[k] = i
    <3>1. i - before \in 1 .. n /\ before + (i - before) = i
      BY <1>1, <1>3
    <3> QED BY <1>2, <3>1
  <2> HIDE DEF opened, ids, n
  <2> QED BY <2>1, <2>2, <2>3
<1>6. \A c \in Collections : balance'[c][Market] - balance[c][Market]
                                = EscrowedFor(opened, run.records, c)
  <2> SUFFICES ASSUME NEW c \in Collections
               PROVE  balance'[c][Market] - balance[c][Market]
                        = EscrowedFor(opened, run.records, c)
    OBVIOUS
  <2> DEFINE e == EscrowedFor(opened, run.records, c)
  <2>1. c \in Tokens /\ Market \in Accounts
    BY DEF Tokens, Accounts
  <2>2. balance[c][Market] \in Nat
    BY <2>1 DEF WellFormed
  <2>3. e \in Nat
    <3> DEFINE S == {i \in opened : run.records[i].collection = c}
               F == [i \in opened |-> run.records[i].amount]
    <3>1. \A i \in S : F[i] \in Nat
      BY <1>2
    <3>2. IsFiniteSet(S)
      <4>1. before + 1 \in Int /\ run.seq \in Int
        BY <1>1
      <4>2. IsFiniteSet(opened)
        BY ONLY <1>3, <4>1, FS_Interval
      <4> HIDE DEF opened
      <4> QED BY <4>2, FS_Subset
    <3>3. e = SumOver(S, F)
      BY DEF EscrowedFor
    <3> HIDE DEF S, F, e
    <3> QED BY <3>1, <3>2, <3>3, SumType
  <2>4. balance'[c][Market] = balance[c][Market] + e
    BY <1>2
  <2> HIDE DEF e
  <2>5. balance'[c][Market] - balance[c][Market] = e
    BY ONLY <2>2, <2>3, <2>4
  <2> QED BY <2>5 DEF e
<1> HIDE DEF opened, ids, n
<1> QED BY <1>2, <1>4, <1>5, <1>6 DEF IsTruthful, opened, ids

\* A bulk_list leaves what its loop leaves.
LEMMA BulkListEffect ==
    ASSUME WellFormed, NEW seller \in Users, NEW items \in ListingBatches,
           BulkList(seller, items)
    PROVE  LET run == ListRun(seller, items) IN
           /\ run \in Runs(ListingRecord \cup {NoRecord}, MaxListings)
           /\ RoyaltiesKept(run) /\ Reported(run, MaxListings, listing_seq)
           /\ ListingsCovered(run) /\ ListingsCounted(run)
           /\ OthersKept(run, listing_seq, listings)
           /\ listing_seq' = run.seq /\ listings' = run.records
           /\ collections' = run.collections /\ balance' = run.balance
<1>1. items \in Seq(ListingItem)
  BY BulkAssumption DEF ListingItem
<1>2. ListRun(seller, items) \in ListingRuns
  BY <1>1, ListRunKeeps
<1> QED BY <1>2 DEF BulkList, ListingRuns

\* A bulk_create_auctions leaves what its loop leaves.
LEMMA BulkAuctionsEffect ==
    ASSUME WellFormed, NEW seller \in Users, NEW items \in AuctionBatches,
           BulkCreateAuctions(seller, items)
    PROVE  LET run == AuctionRun(seller, items) IN
           /\ run \in Runs(AuctionRecord \cup {NoRecord}, MaxAuctions)
           /\ RoyaltiesKept(run) /\ Reported(run, MaxAuctions, auction_seq)
           /\ AuctionsCovered(run) /\ TermsKept(run)
           /\ AuctionsCounted(run) /\ BidsKept(run)
           /\ OthersKept(run, auction_seq, auctions)
           /\ auction_seq' = run.seq /\ auctions' = run.records
           /\ collections' = run.collections /\ balance' = run.balance
<1>1. items \in Seq(AuctionedItem)
  BY BulkAssumption DEF AuctionedItem
<1>2. AuctionRun(seller, items) \in AuctionRuns
  BY <1>1, AuctionRunKeeps
<1> QED BY <1>2 DEF BulkCreateAuctions, AuctionRuns

\* A loop leaves the royalties of every collection as they are.
LEMMA RunCollections ==
    ASSUME WellFormed, NEW Recs, NEW max, NEW run \in Runs(Recs, max), RoyaltiesKept(run),
           collections' = run.collections, balance' = run.balance
    PROVE  CollectionsOK' /\ BalanceOK'
<1>1. /\ collections' \in [DOMAIN collections -> CollectionInfo]
      /\ balance' \in [Tokens -> [Accounts -> Nat]]
  BY DEF Runs
<1>2. DOMAIN collections' = DOMAIN collections
  BY <1>1
<1>3. \A c \in DOMAIN collections : collections'[c].royalties = collections[c].royalties
  BY DEF RoyaltiesKept
<1>4. RoyaltiesChecked'
  BY <1>2, <1>3 DEF WellFormed, RoyaltiesChecked, SharesAllowed
<1> QED BY <1>1, <1>2, <1>4 DEF WellFormed, CollectionsOK, BalanceOK

\* The bulk calls store records like those of the other calls, but for the
\* floors.
LEMMA BulkStepType == ASSUME WellFormed, BulkStep PROVE WellFormed'
<1>1. ASSUME NEW seller \in Users, NEW items \in ListingBatches, BulkList(seller, items)
      PROVE  WellFormed'
  <2> DEFINE run == ListRun(seller, items)
             Recs == ListingRecord \cup {NoRecord}
  <2>1. /\ run \in Runs(Recs, MaxListings) /\ RoyaltiesKept(run)
        /\ listing_seq' = run.seq /\ listings' = run.records
        /\ collections' = run.collections /\ balance' = run.balance
    BY <1>1, BulkListEffect
  <2> HIDE DEF run
  <2>2. ListingsOK'
    BY <2>1 DEF Runs, ListingsOK, ListingIds
  <2> HIDE DEF Recs
  <2>3. CollectionsOK' /\ BalanceOK'
    BY <2>1, RunCollections
  <2>4. UNCHANGED <<now, settings, auction_seq, auctions, offer_seq, offers>>
    BY <1>1 DEF BulkList
  <2> QED BY <2>2, <2>3, <2>4, PartsUnchanged, TypeParts, TypePartsNext
<1>2. ASSUME NEW seller \in Users, NEW items \in AuctionBatches,
             BulkCreateAuctions(seller, items)
      PROVE  WellFormed'
  <2> DEFINE run == AuctionRun(seller, items)
             Recs == AuctionRecord \cup {NoRecord}
  <2>1. /\ run \in Runs(Recs, MaxAuctions) /\ RoyaltiesKept(run) /\ TermsKept(run)
        /\ auction_seq' = run.seq /\ auctions' = run.records
        /\ collections' = run.collections /\ balance' = run.balance
    BY <1>2, BulkAuctionsEffect
  <2> HIDE DEF run
  <2>2. AuctionsOK'
    <3>1. AuctionTerms'
      BY <2>1 DEF TermsKept, AuctionTerms
    <3> QED BY <2>1, <3>1 DEF Runs, AuctionsOK, AuctionIds
  <2> HIDE DEF Recs
  <2>3. CollectionsOK' /\ BalanceOK'
    BY <2>1, RunCollections
  <2>4. UNCHANGED <<now, settings, listing_seq, listings, offer_seq, offers>>
    BY <1>2 DEF BulkCreateAuctions
  <2> QED BY <2>2, <2>3, <2>4, PartsUnchanged, TypeParts, TypePartsNext
<1> QED BY <1>1, <1>2 DEF BulkStep

\* The records are well formed with the bulk calls too.
LEMMA BulkWellFormed == BulkSpec => []WellFormed
<1>1. WellFormed /\ [BulkNext]_vars => WellFormed'
  BY TypeStep, BulkStepType DEF BulkNext
<1> QED BY <1>1, InitType, PTL DEF BulkSpec

\* A run that opened no record took no identifier.
LEMMA NothingOpened ==
    ASSUME NEW Recs, NEW max \in Nat, NEW run \in Runs(Recs, max), NEW before \in Nat,
           Reported(run, max, before), NEW counts, RunCounted(run, max, counts),
           DOMAIN collections = {}
    PROVE  run.seq = before
<1>1. run.seq \in 0 .. max /\ before <= run.seq
  BY DEF Runs, Reported
<1> SUFFICES ASSUME run.seq # before PROVE FALSE
  OBVIOUS
<1>2. run.seq \in Opened(1 .. max, before, run.seq)
  BY <1>1 DEF Opened
<1>3. run.records[run.seq].status = "Active" /\ run.seq \in 1 .. max
  BY <1>1, <1>2 DEF Reported
<1> QED BY <1>3 DEF RunCounted

\* The bulk calls keep the counters right.
LEMMA BulkStepCounted == ASSUME WellFormed, CountersInv, BulkStep PROVE CountersInv'
<1>1. ASSUME NEW seller \in Users, NEW items \in ListingBatches, BulkList(seller, items)
      PROVE  CountersInv'
  <2> DEFINE run == ListRun(seller, items)
             Recs == ListingRecord \cup {NoRecord}
             counts == [c \in DOMAIN collections |-> run.collections[c].active_listings]
  <2>1. /\ run \in Runs(Recs, MaxListings)
        /\ Reported(run, MaxListings, listing_seq) /\ ListingsCounted(run)
        /\ listing_seq' = run.seq /\ listings' = run.records /\ collections' = run.collections
    BY <1>1, BulkListEffect
  <2>2. UNCHANGED <<inits, config, auction_seq, auctions>>
    BY <1>1 DEF BulkList, settings
  <2> HIDE DEF run
  <2>3. CASE inits > 1
    BY <2>2, <2>3 DEF CountersInv, CountersMatch, WellFormed
  <2>4. CASE inits <= 1
    <3>0. CountersMatch /\ NextIdsAreNew /\ OpenAreRegistered /\ NothingBefore
      BY <2>4 DEF CountersInv
    <3>1. /\ RunCounted(run, MaxListings, counts)
          /\ \A c \in DOMAIN collections :
                run.collections[c].active_auctions = collections[c].active_auctions
      BY <2>1, <2>4 DEF ListingsCounted
    <3>2. DOMAIN collections' = DOMAIN collections
      BY <2>1 DEF Runs
    <3>3. CountersMatch'
      <4> SUFFICES ASSUME NEW c \in DOMAIN collections
                   PROVE  /\ collections'[c].active_listings = Cardinality({i \in ListingIds :
                                listings'[i].status = "Active" /\ listings'[i].collection = c})
                          /\ collections'[c].active_auctions = Cardinality({i \in AuctionIds :
                                auctions'[i].status = "Active" /\ auctions'[i].collection = c})
        BY <3>2 DEF CountersMatch
      <4>1. counts[c] = Cardinality(OpenIn(1 .. MaxListings, run.records, c))
        BY <3>1 DEF RunCounted
      <4>2. collections'[c].active_listings = Cardinality({i \in ListingIds :
                listings'[i].status = "Active" /\ listings'[i].collection = c})
        BY <2>1, <4>1 DEF OpenIn, ListingIds
      <4>3. collections'[c].active_auctions = Cardinality({i \in AuctionIds :
                auctions'[i].status = "Active" /\ auctions'[i].collection = c})
        BY <2>1, <2>2, <2>4, <3>0, <3>1 DEF CountersMatch
      <4> QED BY <4>2, <4>3
    <3>4. NextIdsAreNew' /\ OpenAreRegistered'
      BY <2>1, <2>2, <3>0, <3>1, <3>2
      DEF RunCounted, NextIdsAreNew, OpenAreRegistered, ListingIds
    <3>5. NothingBefore'
      <4> SUFFICES ASSUME inits = 0
                   PROVE  /\ config'.admin = NoAddress /\ DOMAIN collections' = {}
                          /\ listing_seq' = 0 /\ auction_seq' = 0
        BY <2>2 DEF NothingBefore
      <4>1. /\ config.admin = NoAddress /\ DOMAIN collections = {}
            /\ listing_seq = 0 /\ auction_seq = 0
        BY <3>0 DEF NothingBefore
      <4>2. run.seq = listing_seq
        <5>1. MaxListings \in Nat /\ listing_seq \in Nat
          BY <4>1, BoundsType
        <5> HIDE DEF Recs, counts
        <5> QED BY <2>1, <3>1, <4>1, <5>1, NothingOpened
      <4> QED BY <2>1, <2>2, <3>2, <4>1, <4>2
    <3> QED BY <3>3, <3>4, <3>5 DEF CountersInv
  <2> QED BY <2>3, <2>4 DEF WellFormed
<1>2. ASSUME NEW seller \in Users, NEW items \in AuctionBatches,
             BulkCreateAuctions(seller, items)
      PROVE  CountersInv'
  <2> DEFINE run == AuctionRun(seller, items)
             Recs == AuctionRecord \cup {NoRecord}
             counts == [c \in DOMAIN collections |-> run.collections[c].active_auctions]
  <2>1. /\ run \in Runs(Recs, MaxAuctions)
        /\ Reported(run, MaxAuctions, auction_seq) /\ AuctionsCounted(run)
        /\ auction_seq' = run.seq /\ auctions' = run.records /\ collections' = run.collections
    BY <1>2, BulkAuctionsEffect
  <2>2. UNCHANGED <<inits, config, listing_seq, listings>>
    BY <1>2 DEF BulkCreateAuctions, settings
  <2> HIDE DEF run
  <2>3. CASE inits > 1
    BY <2>2, <2>3 DEF CountersInv, CountersMatch, WellFormed
  <2>4. CASE inits <= 1
    <3>0. CountersMatch /\ NextIdsAreNew /\ OpenAreRegistered /\ NothingBefore
      BY <2>4 DEF CountersInv
    <3>1. /\ RunCounted(run, MaxAuctions, counts)
          /\ \A c \in DOMAIN collections :
                run.collections[c].active_listings = collections[c].active_listings
      BY <2>1, <2>4 DEF AuctionsCounted
    <3>2. DOMAIN collections' = DOMAIN collections
      BY <2>1 DEF Runs
    <3>3. CountersMatch'
      <4> SUFFICES ASSUME NEW c \in DOMAIN collections
                   PROVE  /\ collections'[c].active_listings = Cardinality({i \in ListingIds :
                                listings'[i].status = "Active" /\ listings'[i].collection = c})
                          /\ collections'[c].active_auctions = Cardinality({i \in AuctionIds :
                                auctions'[i].status = "Active" /\ auctions'[i].collection = c})
        BY <3>2 DEF CountersMatch
      <4>1. counts[c] = Cardinality(OpenIn(1 .. MaxAuctions, run.records, c))
        BY <3>1 DEF RunCounted
      <4>2. collections'[c].active_auctions = Cardinality({i \in AuctionIds :
                auctions'[i].status = "Active" /\ auctions'[i].collection = c})
        BY <2>1, <4>1 DEF OpenIn, AuctionIds
      <4>3. collections'[c].active_listings = Cardinality({i \in ListingIds :
                listings'[i].status = "Active" /\ listings'[i].collection = c})
        BY <2>1, <2>2, <2>4, <3>0, <3>1 DEF CountersMatch
      <4> QED BY <4>2, <4>3
    <3>4. NextIdsAreNew' /\ OpenAreRegistered'
      BY <2>1, <2>2, <3>0, <3>1, <3>2
      DEF RunCounted, NextIdsAreNew, OpenAreRegistered, AuctionIds
    <3>5. NothingBefore'
      <4> SUFFICES ASSUME inits = 0
                   PROVE  /\ config'.admin = NoAddress /\ DOMAIN collections' = {}
                          /\ listing_seq' = 0 /\ auction_seq' = 0
        BY <2>2 DEF NothingBefore
      <4>1. /\ config.admin = NoAddress /\ DOMAIN collections = {}
            /\ listing_seq = 0 /\ auction_seq = 0
        BY <3>0 DEF NothingBefore
      <4>2. run.seq = auction_seq
        <5>1. MaxAuctions \in Nat /\ auction_seq \in Nat
          BY <4>1, BoundsType
        <5> HIDE DEF Recs, counts
        <5> QED BY <2>1, <3>1, <4>1, <5>1, NothingOpened
      <4> QED BY <2>1, <2>2, <3>2, <4>1, <4>2
    <3> QED BY <3>3, <3>4, <3>5 DEF CountersInv
  <2> QED BY <2>3, <2>4 DEF WellFormed
<1> QED BY <1>1, <1>2 DEF BulkStep

\* A bulk call that opens some of its items counts exactly those, collection by
\* collection, wherever the failing ones stand, and every other call counts right
\* around it.  (bulk_list, bulk_create_auctions, update_collection_stats.)
THEOREM BulkCountersMatch == BulkSpec => []CountersMatch
<1>1. WellFormed /\ CountersInv /\ [BulkNext]_vars => CountersInv'
  BY CountedStep, BulkStepCounted DEF BulkNext
<1>2. CountersInv => CountersMatch
  BY DEF CountersInv
<1> QED BY <1>1, <1>2, InitCounted, BulkWellFormed, PTL DEF BulkSpec

\* What is owed after a step is a natural number too.
LEMMA OwedTypeNext ==
    ASSUME WellFormed', NEW t
    PROVE  OwedToSellers(t)' \in Nat /\ OwedToAuctions(t)' \in Nat
<1>1. /\ \A r \in ListingRecord \cup {NoRecord} : ListingDebt(r, t) \in Nat
      /\ \A r \in AuctionRecord \cup {NoRecord} : AuctionDebt(r, t) \in Nat
  BY DEF ListingDebt, ListingRecord, AuctionDebt, AuctionRecord, NoRecord
<1>2. OwedToSellers(t)' \in Nat
  <2> DEFINE F == [i \in ListingIds |-> ListingDebt(listings'[i], t)]
  <2>1. \A i \in ListingIds : F[i] \in Nat
    BY <1>1, TypePartsNext DEF ListingsOK
  <2>2. OwedToSellers(t)' = SumOver(ListingIds, F)
    BY DEF OwedToSellers
  <2> HIDE DEF F
  <2> QED BY ONLY <2>1, <2>2, BoundsType, SumType
<1>3. OwedToAuctions(t)' \in Nat
  <2> DEFINE F == [i \in AuctionIds |-> AuctionDebt(auctions'[i], t)]
  <2>1. \A i \in AuctionIds : F[i] \in Nat
    BY <1>1, TypePartsNext DEF AuctionsOK
  <2>2. OwedToAuctions(t)' = SumOver(AuctionIds, F)
    BY DEF OwedToAuctions
  <2> HIDE DEF F
  <2> QED BY ONLY <2>1, <2>2, BoundsType, SumType
<1> QED BY <1>2, <1>3

\* What a bulk call promises to keep for the sellers, it has taken in.
LEMMA BulkStepCustody == ASSUME WellFormed, WellFormed', Custody, BulkStep PROVE Custody'
<1>1. ASSUME NEW seller \in Users, NEW items \in ListingBatches, BulkList(seller, items)
      PROVE  Custody'
  <2> DEFINE run == ListRun(seller, items)
  <2>1. ListingsCovered(run) /\ listings' = run.records /\ balance' = run.balance
    BY <1>1, BulkListEffect
  <2>2. UNCHANGED <<auctions, offers>>
    BY <1>1 DEF BulkList
  <2> HIDE DEF run
  <2> SUFFICES ASSUME NEW t \in Tokens PROVE balance'[t][Market] >= Owed(t)'
    BY DEF Custody
  <2>3. balance[t][Market] + OwedToSellers(t)' <= balance'[t][Market] + OwedToSellers(t)
    BY <2>1 DEF ListingsCovered, OwedToSellers
  <2>4. OwedToAuctions(t)' = OwedToAuctions(t) /\ OwedToOfferers(t)' = OwedToOfferers(t)
    BY <2>2, OwedUnchanged
  <2>5. balance[t][Market] \in Nat /\ balance'[t][Market] \in Nat
    BY DEF WellFormed, Accounts
  <2>6. balance[t][Market] >= OwedToSellers(t) + OwedToAuctions(t) + OwedToOfferers(t)
    BY DEF Custody, Owed
  <2>7. /\ OwedToSellers(t) \in Nat /\ OwedToAuctions(t) \in Nat /\ OwedToOfferers(t) \in Nat
        /\ OwedToSellers(t)' \in Int
    <3>1. OwedToSellers(t)' \in Nat
      BY OwedTypeNext
    <3> QED BY <3>1, OwedType
  <2>8. Owed(t)' = OwedToSellers(t)' + OwedToAuctions(t)' + OwedToOfferers(t)'
    BY DEF Owed
  <2> QED BY ONLY <2>3, <2>4, <2>5, <2>6, <2>7, <2>8
<1>2. ASSUME NEW seller \in Users, NEW items \in AuctionBatches, BulkCreateAuctions(seller, items)
      PROVE  Custody'
  <2> DEFINE run == AuctionRun(seller, items)
  <2>1. AuctionsCovered(run) /\ auctions' = run.records /\ balance' = run.balance
    BY <1>2, BulkAuctionsEffect
  <2>2. UNCHANGED <<listings, offers>>
    BY <1>2 DEF BulkCreateAuctions
  <2> HIDE DEF run
  <2> SUFFICES ASSUME NEW t \in Tokens PROVE balance'[t][Market] >= Owed(t)'
    BY DEF Custody
  <2>3. balance[t][Market] + OwedToAuctions(t)' <= balance'[t][Market] + OwedToAuctions(t)
    BY <2>1 DEF AuctionsCovered, OwedToAuctions
  <2>4. OwedToSellers(t)' = OwedToSellers(t) /\ OwedToOfferers(t)' = OwedToOfferers(t)
    BY <2>2, OwedUnchanged
  <2>5. balance[t][Market] \in Nat /\ balance'[t][Market] \in Nat
    BY DEF WellFormed, Accounts
  <2>6. balance[t][Market] >= OwedToSellers(t) + OwedToAuctions(t) + OwedToOfferers(t)
    BY DEF Custody, Owed
  <2>7. /\ OwedToSellers(t) \in Nat /\ OwedToAuctions(t) \in Nat /\ OwedToOfferers(t) \in Nat
        /\ OwedToAuctions(t)' \in Int
    <3>1. OwedToAuctions(t)' \in Nat
      BY OwedTypeNext
    <3> QED BY <3>1, OwedType
  <2>8. Owed(t)' = OwedToSellers(t)' + OwedToAuctions(t)' + OwedToOfferers(t)'
    BY DEF Owed
  <2> QED BY ONLY <2>3, <2>4, <2>5, <2>6, <2>7, <2>8
<1> QED BY <1>1, <1>2 DEF BulkStep

\* Whatever goes into bulk calls besides, the contract holds every listed NFT,
\* standing bid and pending offer in full: an item that fails takes nothing in
\* and promises nothing, wherever in the batch it stands.  (bulk_list,
\* bulk_create_auctions.)
THEOREM BulkCustodyHolds == ASSUME RoyaltiesLeaveRoom PROVE BulkSpec => []Custody
<1>1. WellFormed /\ WellFormed' /\ Custody /\ [BulkNext]_vars => Custody'
  BY CustodyStep, BulkStepCustody DEF BulkNext
<1> QED BY <1>1, InitCustody, BulkWellFormed, PTL DEF BulkSpec

\* So every cancellation, settlement and refund finds its tokens with the bulk
\* calls too, also of an auction whose floor nobody checked.
THEOREM BulkPayoutsFunded == ASSUME RoyaltiesLeaveRoom PROVE BulkSpec => []PayoutsFunded
<1>1. WellFormed /\ Custody => PayoutsFunded
  BY CustodyFunds
<1> QED BY <1>1, BulkCustodyHolds, BulkWellFormed, PTL

\* Offers swap exactly in the company of bulk calls, which touch none.
\* (accept_offer.)
THEOREM BulkOffersSwap == BulkSpec => OfferIsASwap
<1> DEFINE Step ==
        \A i \in OfferIds :
          LET o == offers[i]
              kept == IF config.fee_recipient = Market THEN PlatformFee(o.offer_amount) ELSE 0
          IN  /\ o.status = "Pending" /\ offers'[i].status = "Accepted"
              /\ o.offerer # o.recipient /\ o.collection # o.currency
              => /\ balance'[o.collection][o.offerer]
                        = balance[o.collection][o.offerer] + o.amount
                 /\ balance'[o.collection][o.recipient]
                        = balance[o.collection][o.recipient] - o.amount
                 /\ balance'[o.currency][Market]
                        = balance[o.currency][Market] - o.offer_amount + kept
<1>1. WellFormed /\ [Next]_vars => [Step]_vars
  BY OfferSwapped
<1>2. BulkStep => Step
  <2> SUFFICES ASSUME BulkStep PROVE Step
    OBVIOUS
  <2>1. offers' = offers
    BY DEF BulkStep, BulkList, BulkCreateAuctions
  <2>2. \A i \in OfferIds : ~(offers[i].status = "Pending" /\ offers'[i].status = "Accepted")
    BY <2>1
  <2> QED BY <2>2
<1>3. WellFormed /\ [BulkNext]_vars => [Step]_vars
  <2> HIDE DEF Step
  <2> QED BY <1>1, <1>2 DEF BulkNext
<1> QED BY <1>3, BulkWellFormed, PTL DEF BulkSpec, OfferIsASwap

\* Whatever items a batch has, however many of them fail and wherever: a bulk
\* call returns the identifiers of exactly the records it opened, one for each
\* success it counts, and takes exactly their NFTs into escrow.  (bulk_list,
\* bulk_create_auctions.)
THEOREM BulkReportsAreTrue == BulkSpec => BulkTakesWhatItReports
<1> DEFINE Step ==
        \A seller \in Users :
          /\ listing_seq' > listing_seq => \A items \in ListingBatches : BulkList(seller, items) =>
                IsTruthful(ListRun(seller, items).result,
                           Opened(ListingIds, listing_seq, listing_seq'), listings')
          /\ auction_seq' > auction_seq => \A items \in AuctionBatches : BulkCreateAuctions(seller, items) =>
                IsTruthful(AuctionRun(seller, items).result,
                           Opened(AuctionIds, auction_seq, auction_seq'), auctions')
<1>1. ASSUME WellFormed, NEW seller \in Users, NEW items \in ListingBatches, BulkList(seller, items)
      PROVE  IsTruthful(ListRun(seller, items).result,
                        Opened(ListingIds, listing_seq, listing_seq'), listings')
  <2> DEFINE run == ListRun(seller, items)
             Recs == ListingRecord \cup {NoRecord}
  <2>1. /\ run \in Runs(Recs, MaxListings) /\ Reported(run, MaxListings, listing_seq)
        /\ listing_seq' = run.seq /\ listings' = run.records /\ balance' = run.balance
    BY <1>1, BulkListEffect
  <2>2. MaxListings \in Nat /\ listing_seq \in Nat
    BY <1>1, BoundsType DEF WellFormed
  <2> HIDE DEF run, Recs
  <2>3. IsTruthful(run.result, Opened(1 .. MaxListings, listing_seq, run.seq), run.records)
    BY ONLY <1>1, <2>1, <2>2, ReportedIsTruthful
  <2> QED BY <2>1, <2>3 DEF run, ListingIds
<1>2. ASSUME WellFormed, NEW seller \in Users, NEW items \in AuctionBatches,
             BulkCreateAuctions(seller, items)
      PROVE  IsTruthful(AuctionRun(seller, items).result,
                        Opened(AuctionIds, auction_seq, auction_seq'), auctions')
  <2> DEFINE run == AuctionRun(seller, items)
             Recs == AuctionRecord \cup {NoRecord}
  <2>1. /\ run \in Runs(Recs, MaxAuctions) /\ Reported(run, MaxAuctions, auction_seq)
        /\ auction_seq' = run.seq /\ auctions' = run.records /\ balance' = run.balance
    BY <1>2, BulkAuctionsEffect
  <2>2. MaxAuctions \in Nat /\ auction_seq \in Nat
    BY <1>2, BoundsType DEF WellFormed
  <2> HIDE DEF run, Recs
  <2>3. IsTruthful(run.result, Opened(1 .. MaxAuctions, auction_seq, run.seq), run.records)
    BY ONLY <1>2, <2>1, <2>2, ReportedIsTruthful
  <2> QED BY <2>1, <2>3 DEF run, AuctionIds
<1>3. WellFormed => Step
  BY <1>1, <1>2
<1>4. WellFormed => [Step]_vars
  <2> HIDE DEF Step
  <2> QED BY <1>3
<1> QED BY <1>4, BulkWellFormed, PTL DEF BulkSpec, BulkTakesWhatItReports

-----------------------------------------------------------------------------
(* The steps that NothingStuck asks for.  ENABLED is out of the prover's   *)
(* reach; what it means is not: there is a next state the action allows.   *)
(* Each definition below is the next state itself, every variable given a  *)
(* value and nothing asked of the present one, so it can always be had;    *)
(* the theorem says that the action allows it.                             *)

ListingTakenBack(i) ==
    LET l == listings[i]
    IN  /\ balance' = [balance EXCEPT ![l.collection] = Transfer(@, Market, l.seller, l.amount)]
        /\ listings' = [listings EXCEPT ![i].status = "Cancelled"]
        /\ collections' = UpdateStats(l.collection, -1, 0)
        /\ UNCHANGED <<now, settings, listing_seq, auction_seq, auctions, offer_seq, offers>>

\* Whatever becomes of the money: the auction is closed with the status.
AuctionClosedAs(i, status) ==
    /\ auctions' = [auctions EXCEPT ![i].status = status]
    /\ collections' = UpdateStats(auctions[i].collection, 0, -1)
    /\ UNCHANGED <<now, settings, listing_seq, listings, auction_seq, offer_seq, offers>>

AuctionTakenBack(i, status) ==
    LET a == auctions[i]
    IN  /\ balance' = [balance EXCEPT ![a.collection] = Transfer(@, Market, a.seller, a.amount)]
        /\ AuctionClosedAs(i, status)

AuctionPaidOut(i) ==
    LET a    == auctions[i]
        pay  == SalePayments(a.current_bid, a.collection, a.seller)
        paid == [balance EXCEPT ![a.currency] = PayAll(@, Market, pay)]
    IN  /\ balance' = [paid EXCEPT ![a.collection] =
                            Transfer(@, Market, a.current_bidder, a.amount)]
        /\ AuctionClosedAs(i, "Settled")

OfferTakenBack(i) ==
    LET o == offers[i]
    IN  /\ balance' = [balance EXCEPT ![o.currency] = Transfer(@, Market, o.offerer, o.offer_amount)]
        /\ offers' = [offers EXCEPT ![i].status = "Cancelled"]
        /\ UNCHANGED <<now, settings, collections, listing_seq, listings,
                       auction_seq, auctions, offer_seq>>

\* The platform's share of a bid that is to be settled is computed without
\* overflow.
SettlementsFit ==
    \A i \in AuctionIds : auctions[i].status = "Active"
        => Fits(auctions[i].current_bid, config.platform_fee_bps)

\* The fees that set_platform_fee and initialize let through, and the first.
Fees == (FeeRates \cap (0 .. MAX_FEE_BPS)) \cup {0}

\* Bids are prices callers passed, the fee is a rate an admin passed.
BidsAndFee ==
    /\ config.platform_fee_bps \in Fees
    /\ \A i \in AuctionIds : auctions[i].status # "None"
            => auctions[i].current_bid \in Prices \cup {0}

\* No fee that can be set overflows on a price that can be bid.
FeesFit == \A price \in Prices, fee \in Fees : Fits(price, fee)

\* The step that closes record i, for each of the ways NothingStuck names.
WaysOut ==
    /\ \A i \in ListingIds :
        listings[i].status = "Active" /\ ListingTakenBack(i) => CancelListing(listings[i].seller, i)
    /\ \A i \in AuctionIds : auctions[i].status = "Active" =>
        /\ now >= auctions[i].end_time =>
            /\ auctions[i].current_bid = 0 /\ AuctionTakenBack(i, "Settled") => SettleWithoutBid(i)
            /\ auctions[i].current_bid # 0 /\ AuctionPaidOut(i) => SettleWithWinner(i)
        /\ auctions[i].auction_type = "Dutch" /\ AuctionTakenBack(i, "Cancelled")
            => CancelDutchAuction(auctions[i].seller, i)
    /\ \A i \in OfferIds :
        offers[i].status = "Pending" /\ OfferTakenBack(i) => CancelOffer(offers[i].offerer, i)

\* A record that is funded, and whose settlement fits, can be closed: the very
\* state after cancel_listing, settle_english_auction, cancel_dutch_auction or
\* cancel_offer is one the action allows.
THEOREM OpenRecordsCanBeClosed == ASSUME PayoutsFunded, SettlementsFit PROVE WaysOut
<1>1. ASSUME NEW i \in ListingIds, listings[i].status = "Active", ListingTakenBack(i)
      PROVE  CancelListing(listings[i].seller, i)
  <2>1. CanTransfer(balance[listings[i].collection], Market, listings[i].amount)
    BY <1>1 DEF PayoutsFunded
  <2> QED BY <1>1, <2>1 DEF CancelListing, ListingTakenBack, Push
<1>2. ASSUME NEW i \in AuctionIds, auctions[i].status = "Active"
      PROVE  LET a    == auctions[i]
                 pay  == SalePayments(a.current_bid, a.collection, a.seller)
                 paid == [balance EXCEPT ![a.currency] = PayAll(@, Market, pay)] IN
             /\ CanTransfer(balance[a.collection], Market, a.amount)
             /\ CanPayAll(balance[a.currency], Market, pay)
             /\ CanTransfer(paid[a.collection], Market, a.amount)
  BY <1>2 DEF PayoutsFunded
<1>3. ASSUME NEW i \in AuctionIds, auctions[i].status = "Active", now >= auctions[i].end_time,
             AuctionClosedAs(i, "Settled")
      PROVE  Settle(i)
  BY <1>3 DEF AuctionClosedAs, Settle, Settleable
<1>4. ASSUME NEW i \in AuctionIds, auctions[i].status = "Active", now >= auctions[i].end_time,
             auctions[i].current_bid = 0, AuctionTakenBack(i, "Settled")
      PROVE  SettleWithoutBid(i)
  BY <1>2, <1>3, <1>4 DEF AuctionTakenBack, SettleWithoutBid, Push
<1>5. ASSUME NEW i \in AuctionIds, auctions[i].status = "Active", now >= auctions[i].end_time,
             auctions[i].current_bid # 0, AuctionPaidOut(i)
      PROVE  SettleWithWinner(i)
  BY <1>2, <1>3, <1>5 DEF SettlementsFit, AuctionPaidOut, SettleWithWinner, Trade
<1>6. ASSUME NEW i \in AuctionIds, auctions[i].status = "Active",
             auctions[i].auction_type = "Dutch", AuctionTakenBack(i, "Cancelled")
      PROVE  CancelDutchAuction(auctions[i].seller, i)
  BY <1>2, <1>6 DEF AuctionTakenBack, AuctionClosedAs, CancelDutchAuction, Push
<1>7. ASSUME NEW i \in OfferIds, offers[i].status = "Pending", OfferTakenBack(i)
      PROVE  CancelOffer(offers[i].offerer, i)
  <2>1. CanTransfer(balance[offers[i].currency], Market, offers[i].offer_amount)
    BY <1>7 DEF PayoutsFunded
  <2> QED BY <1>7, <2>1 DEF CancelOffer, Cancellable, OfferTakenBack, Push
<1> QED BY <1>1, <1>4, <1>5, <1>6, <1>7 DEF WaysOut

\* Bids and fee stay what callers passed.
LEMMA BidsAndFeeStep == WellFormed /\ BidsAndFee /\ [Next]_vars => BidsAndFee'
<1> SUFFICES ASSUME WellFormed, BidsAndFee, [Next]_vars PROVE BidsAndFee'
  OBVIOUS
<1>1. config'.platform_fee_bps \in Fees
  <2>0. config \in ConfigRecord /\ config.platform_fee_bps \in Fees
    BY DEF WellFormed, BidsAndFee
  <2>1. ASSUME NEW admin \in Admins, NEW fee \in FeeRates, NEW recipient \in FeeRecipients,
               NEW increment \in BidIncrements, NEW window \in Windows,
               Initialize(admin, fee, recipient, increment, window)
        PROVE  config'.platform_fee_bps \in Fees
    BY <2>1 DEF Initialize, Fees
  <2>2. ASSUME NEW caller \in Users, NEW fee \in FeeRates, SetPlatformFee(caller, fee)
        PROVE  config'.platform_fee_bps \in Fees
    BY <2>0, <2>2 DEF SetPlatformFee, ConfigRecord, Fees
  <2>3. ASSUME NEW caller \in Users, NEW recipient \in FeeRecipients,
               SetFeeRecipient(caller, recipient)
        PROVE  config'.platform_fee_bps \in Fees
    BY <2>0, <2>3 DEF SetFeeRecipient, ConfigRecord
  <2>4. ASSUME NEW caller \in Users, NEW increment \in BidIncrements,
               SetBidIncrement(caller, increment)
        PROVE  config'.platform_fee_bps \in Fees
    BY <2>0, <2>4 DEF SetBidIncrement, ConfigRecord
  <2>5. ASSUME NEW caller \in Users, NEW window \in Windows, SetAutoExtension(caller, window)
        PROVE  config'.platform_fee_bps \in Fees
    BY <2>0, <2>5 DEF SetAutoExtension, ConfigRecord
  <2>6. ASSUME NEW caller \in Users, NEW currency \in Currencies, NEW whitelisted \in BOOLEAN,
               SetCurrency(caller, currency, whitelisted)
        PROVE  config'.platform_fee_bps \in Fees
    BY <2>0, <2>6 DEF SetCurrency
  <2>7. ASSUME NEW caller \in Users, NEW coll \in Collections, NEW rc \in RoyaltyConfigs,
               RegisterCollection(caller, coll, rc) \/ SetCollectionRoyalties(caller, coll, rc)
        PROVE  config'.platform_fee_bps \in Fees
    BY <2>0, <2>7 DEF RegisterCollection, SetCollectionRoyalties, settings
  <2>8. CASE Tick \/ UNCHANGED vars
    BY <2>0, <2>8 DEF Tick, vars, settings
  <2>9. CASE ListingStep
    BY <2>0, <2>9 DEF ListingStep, ListNft, BuyNft, CancelListing, settings
  <2>10. CASE AuctionStep
    <3>1. ASSUME NEW u \in Users, NEW coll \in Collections, NEW amount \in NftAmounts,
                 NEW start \in Prices, NEW floor \in Prices, NEW currency \in Currencies,
                 NEW duration \in Durations,
                 CreateDutchAuction(u, coll, amount, start, floor, currency, duration)
          PROVE  config' = config
      BY <3>1 DEF CreateDutchAuction, CreateAuction, settings
    <3>2. ASSUME NEW u \in Users, NEW id \in AuctionIds, NEW bid \in Prices, PlaceBid(u, id, bid)
          PROVE  config' = config
      BY <3>2 DEF PlaceBid, settings
    <3>3. ASSUME NEW u \in Users, NEW id \in AuctionIds,
                 BuyDutchAuction(u, id) \/ CancelDutchAuction(u, id)
          PROVE  config' = config
      BY <3>3 DEF BuyDutchAuction, CancelDutchAuction, settings
    <3>4. ASSUME NEW id \in AuctionIds, SettleWithoutBid(id) \/ SettleWithWinner(id)
          PROVE  config' = config
      BY <3>4 DEF SettleWithoutBid, SettleWithWinner, Settle, settings
    <3>5. ASSUME NEW u \in Users, NEW coll \in Collections, NEW amount \in NftAmounts,
                 NEW start \in Prices, NEW currency \in Currencies, NEW duration \in Durations,
                 CreateEnglishAuction(u, coll, amount, start, currency, duration)
          PROVE  config' = config
      BY <3>5 DEF CreateEnglishAuction, CreateAuction, settings
    <3>6. config' = config
      BY <2>10, <3>1, <3>2, <3>3, <3>4, <3>5 DEF AuctionStep
    <3> QED BY <2>0, <3>6
  <2>11. CASE OfferStep
    BY <2>0, <2>11 DEF OfferStep, MakeOffer, AcceptOffer, CancelOffer, settings
  <2>12. CASE AdminStep
    BY <2>1, <2>2, <2>3, <2>4, <2>5, <2>6, <2>7, <2>12 DEF AdminStep
  <2> QED BY <2>8, <2>9, <2>10, <2>11, <2>12 DEF Next
<1> DEFINE Good(a) == a.current_bid \in Prices \cup {0}
<1>2. ASSUME NEW i \in AuctionIds, auctions'[i].status # "None"
      PROVE  Good(auctions'[i])
  <2>0. auctions \in [AuctionIds -> AuctionRecord \cup {NoRecord}]
    BY DEF WellFormed
  <2>1. CASE auctions'[i] = auctions[i]
    BY <1>2, <2>1 DEF BidsAndFee
  <2>2. ASSUME NEW u \in Users, NEW bid \in Prices, PlaceBid(u, i, bid)
        PROVE  Good(auctions'[i])
    <3>1. auctions[i] \in AuctionRecord
      BY <2>2, OpenRecords DEF PlaceBid
    <3>2. PICK e : auctions' = [auctions EXCEPT ![i].current_bid = bid,
                                                ![i].current_bidder = u, ![i].end_time = e]
      BY <2>2 DEF PlaceBid
    <3> QED BY <2>0, <3>1, <3>2 DEF AuctionRecord
  <2>3. ASSUME auctions[i].status = "Active",
               NEW s, auctions' = [auctions EXCEPT ![i].status = s]
        PROVE  Good(auctions'[i])
    <3>1. auctions[i] \in AuctionRecord
      BY <2>3, OpenRecords
    <3>2. auctions'[i].current_bid = auctions[i].current_bid
      BY <2>0, <2>3, <3>1 DEF AuctionRecord
    <3> QED BY <2>3, <3>2 DEF BidsAndFee
  <2>4. ASSUME NEW u \in Users, BuyDutchAuction(u, i) \/ CancelDutchAuction(u, i)
        PROVE  Good(auctions'[i])
    BY <2>3, <2>4 DEF BuyDutchAuction, CancelDutchAuction
  <2>5. ASSUME SettleWithoutBid(i) \/ SettleWithWinner(i)
        PROVE  Good(auctions'[i])
    BY <2>3, <2>5 DEF SettleWithoutBid, SettleWithWinner, Settle, Settleable
  <2>6. auctions'[i].current_bid = 0 => Good(auctions'[i])
    OBVIOUS
  <2> HIDE DEF Good
  <2> QED BY <2>1, <2>2, <2>4, <2>5, <2>6, WhoChangesAnAuction
<1> QED BY <1>1, <1>2 DEF BidsAndFee

\* Bulk calls neither bid nor set the fee.
LEMMA BidsAndFeeInBulk == ASSUME WellFormed, BidsAndFee, BulkStep PROVE BidsAndFee'
<1>1. ASSUME NEW seller \in Users, NEW items \in ListingBatches, BulkList(seller, items)
      PROVE  BidsAndFee'
  BY <1>1 DEF BulkList, settings, BidsAndFee
<1>2. ASSUME NEW seller \in Users, NEW items \in AuctionBatches,
             BulkCreateAuctions(seller, items)
      PROVE  BidsAndFee'
  <2> DEFINE run == AuctionRun(seller, items)
  <2>1. auctions' = run.records /\ BidsKept(run)
    BY <1>2, BulkAuctionsEffect
  <2>2. config' = config
    BY <1>2 DEF BulkCreateAuctions, settings
  <2> HIDE DEF run
  <2> QED BY <2>1, <2>2 DEF BidsAndFee, BidsKept
<1> QED BY <1>1, <1>2 DEF BulkStep

\* Before the first call there are neither bids nor a fee.
LEMMA InitBidsAndFee == Init => BidsAndFee
BY DEF Init, BidsAndFee, Fees, NoRecord

\* So settlements fit.
LEMMA BidsFit == ASSUME FeesFit, WellFormed, BidsAndFee PROVE SettlementsFit
<1> SUFFICES ASSUME NEW i \in AuctionIds, auctions[i].status = "Active"
             PROVE  Fits(auctions[i].current_bid, config.platform_fee_bps)
  BY DEF SettlementsFit
<1> DEFINE b == auctions[i].current_bid
           f == config.platform_fee_bps
<1>1. b \in Prices \cup {0} /\ f \in Fees
  BY DEF BidsAndFee
<1>2. f \in Nat /\ MaxI128 \in Nat
  BY <1>1, MarketAssumption DEF Fees
<1> HIDE DEF b, f
<1>3. ASSUME b = 0 PROVE Fits(b, f)
  BY <1>2, <1>3 DEF Fits
<1>4. ASSUME b \in Prices PROVE Fits(b, f)
  BY <1>1, <1>4 DEF FeesFit
<1>5. Fits(b, f)
  BY <1>1, <1>3, <1>4
<1> QED BY <1>5 DEF b, f

\* What NothingStuck asks of every state but the ENABLED: for each open record the
\* funds are there and the products fit, so that, by OpenRecordsCanBeClosed, the
\* steps that close it are allowed.  (cancel_listing, settle_english_auction,
\* cancel_dutch_auction, cancel_offer.)
THEOREM NothingIsStuck ==
    ASSUME RoyaltiesLeaveRoom, FeesFit
    PROVE  Spec => [](PayoutsFunded /\ SettlementsFit)
<1>1. WellFormed /\ BidsAndFee => SettlementsFit
  BY BidsFit
<1> QED BY <1>1, InitBidsAndFee, BidsAndFeeStep, AlwaysWellFormed, PayoutsAlwaysFunded,
           PTL DEF Spec

\* The same of the records no single call could open.
THEOREM NothingIsStuckInBulk ==
    ASSUME RoyaltiesLeaveRoom, FeesFit
    PROVE  BulkSpec => [](PayoutsFunded /\ SettlementsFit)
<1>1. WellFormed /\ BidsAndFee => SettlementsFit
  BY BidsFit
<1>2. WellFormed /\ BidsAndFee /\ [BulkNext]_vars => BidsAndFee'
  BY BidsAndFeeStep, BidsAndFeeInBulk DEF BulkNext
<1> QED BY <1>1, <1>2, InitBidsAndFee, BulkWellFormed, BulkPayoutsFunded, PTL DEF BulkSpec
-----------------------------------------------------------------------------
(* Records that are closed or bid on, and prices that fall, with bulk calls *)
(* among the steps.                                                         *)

\* A step takes the identifier of an existing record again, as it may after a
\* second initialize.
ListingReopened(i) == inits > 1 /\ i \in Opened(ListingIds, listing_seq, listing_seq')
AuctionReopened(i) == inits > 1 /\ i \in Opened(AuctionIds, auction_seq, auction_seq')

\* A single call that takes an identifier again does so after a second initialize.
LEMMA ReissuedIsReopened ==
    ASSUME WellFormed, CountersInv
    PROVE  /\ \A i \in ListingIds :
                 listings[i].status # "None" /\ ListingReissued(i) => ListingReopened(i)
           /\ \A i \in AuctionIds :
                 auctions[i].status # "None" /\ AuctionReissued(i) => AuctionReopened(i)
<1>0. inits \in Nat /\ ListingIds \subseteq Int /\ AuctionIds \subseteq Int
  BY DEF WellFormed, ListingIds, AuctionIds
<1>1. ASSUME NEW i \in ListingIds, listings[i].status # "None", ListingReissued(i)
      PROVE  ListingReopened(i)
  <2>1. i > listing_seq /\ i \in Opened(ListingIds, listing_seq, listing_seq')
    BY <1>0, <1>1 DEF ListingReissued, Opened
  <2> QED BY <1>0, <1>1, <2>1 DEF ListingReopened, CountersInv, NextIdsAreNew
<1>2. ASSUME NEW i \in AuctionIds, auctions[i].status # "None", AuctionReissued(i)
      PROVE  AuctionReopened(i)
  <2>1. i > auction_seq /\ i \in Opened(AuctionIds, auction_seq, auction_seq')
    BY <1>0, <1>2 DEF AuctionReissued, Opened
  <2> QED BY <1>0, <1>2, <2>1 DEF AuctionReopened, CountersInv, NextIdsAreNew
<1> QED BY <1>1, <1>2

\* A bulk call writes the records it opens, and no other.
LEMMA BulkWritesWhatItOpens ==
    ASSUME WellFormed, CountersInv, BulkStep
    PROVE  /\ now' = now /\ offers' = offers
           /\ \A i \in ListingIds : listings[i].status # "None"
                => listings'[i] = listings[i] \/ ListingReopened(i)
           /\ \A i \in AuctionIds : auctions[i].status # "None"
                => auctions'[i] = auctions[i] \/ AuctionReopened(i)
<1> DEFINE Kept ==
        /\ \A i \in ListingIds : listings[i].status # "None"
                => listings'[i] = listings[i] \/ ListingReopened(i)
        /\ \A i \in AuctionIds : auctions[i].status # "None"
                => auctions'[i] = auctions[i] \/ AuctionReopened(i)
<1>0. /\ inits \in Nat /\ listing_seq \in Int /\ auction_seq \in Int
      /\ DOMAIN listings = ListingIds /\ DOMAIN auctions = AuctionIds
      /\ ListingIds \subseteq Int /\ AuctionIds \subseteq Int
  BY DEF WellFormed, ListingIds, AuctionIds
<1>1. ASSUME NEW seller \in Users, NEW items \in ListingBatches, BulkList(seller, items)
      PROVE  now' = now /\ offers' = offers /\ Kept
  <2> DEFINE run == ListRun(seller, items)
             Recs == ListingRecord \cup {NoRecord}
  <2>1. /\ OthersKept(run, listing_seq, listings) /\ run \in Runs(Recs, MaxListings)
        /\ listing_seq' = run.seq /\ listings' = run.records
    BY <1>1, BulkListEffect
  <2>2. now' = now /\ offers' = offers /\ auctions' = auctions
    BY <1>1 DEF BulkList
  <2>3. run.seq \in Int
    BY <2>1 DEF Runs
  <2> HIDE DEF run, Recs
  <2>4. ASSUME NEW i \in ListingIds, listings[i].status # "None", listings'[i] # listings[i]
        PROVE  ListingReopened(i)
    <3>1. ~(i <= listing_seq) /\ ~(i > run.seq)
      BY <1>0, <2>1, <2>4 DEF OthersKept
    <3>2. i > listing_seq /\ i \in Opened(ListingIds, listing_seq, listing_seq')
      BY <1>0, <2>1, <2>3, <3>1 DEF Opened
    <3> QED BY <1>0, <2>4, <3>2 DEF ListingReopened, CountersInv, NextIdsAreNew
  <2> QED BY <2>2, <2>4
<1>2. ASSUME NEW seller \in Users, NEW items \in AuctionBatches,
             BulkCreateAuctions(seller, items)
      PROVE  now' = now /\ offers' = offers /\ Kept
  <2> DEFINE run == AuctionRun(seller, items)
             Recs == AuctionRecord \cup {NoRecord}
  <2>1. /\ OthersKept(run, auction_seq, auctions) /\ run \in Runs(Recs, MaxAuctions)
        /\ auction_seq' = run.seq /\ auctions' = run.records
    BY <1>2, BulkAuctionsEffect
  <2>2. now' = now /\ offers' = offers /\ listings' = listings
    BY <1>2 DEF BulkCreateAuctions
  <2>3. run.seq \in Int
    BY <2>1 DEF Runs
  <2> HIDE DEF run, Recs
  <2>4. ASSUME NEW i \in AuctionIds, auctions[i].status # "None", auctions'[i] # auctions[i]
        PROVE  AuctionReopened(i)
    <3>1. ~(i <= auction_seq) /\ ~(i > run.seq)
      BY <1>0, <2>1, <2>4 DEF OthersKept
    <3>2. i > auction_seq /\ i \in Opened(AuctionIds, auction_seq, auction_seq')
      BY <1>0, <2>1, <2>3, <3>1 DEF Opened
    <3> QED BY <1>0, <2>4, <3>2 DEF AuctionReopened, CountersInv, NextIdsAreNew
  <2> QED BY <2>2, <2>4
<1> HIDE DEF Kept
<1>3. now' = now /\ offers' = offers /\ Kept
  BY <1>1, <1>2 DEF BulkStep
<1> QED BY <1>3 DEF Kept

\* The counters are right, and identifiers new, in every state.
LEMMA BulkAlwaysCounted == BulkSpec => []CountersInv
<1>1. WellFormed /\ CountersInv /\ [BulkNext]_vars => CountersInv'
  BY CountedStep, BulkStepCounted DEF BulkNext
<1> QED BY <1>1, InitCounted, BulkWellFormed, PTL DEF BulkSpec

\* A closed listing or auction stays as it was closed until, after a second
\* initialize, its identifier is taken again; a closed offer likewise.
BulkClosedIsKept ==
    /\ \A i \in ListingIds : listings[i].status \in {"Sold", "Cancelled"}
        => listings'[i] = listings[i] \/ ListingReopened(i)
    /\ \A i \in AuctionIds : auctions[i].status \in {"Settled", "Cancelled"}
        => auctions'[i] = auctions[i] \/ AuctionReopened(i)
    /\ \A i \in OfferIds : offers[i].status \in {"Accepted", "Cancelled"}
        => offers'[i] = offers[i] \/ OfferReissued(i)

\* Bulk calls, however many items they skip, never write over a closed listing or
\* auction: as long as the contract is initialized once, nothing that was paid out
\* can be paid out again.  (bulk_list, bulk_create_auctions.)
THEOREM BulkClosedForGood == BulkSpec => [][BulkClosedIsKept]_vars
<1>1. WellFormed /\ CountersInv /\ [BulkNext]_vars => [BulkClosedIsKept]_vars
  <2> SUFFICES ASSUME WellFormed, CountersInv, BulkNext PROVE BulkClosedIsKept
    OBVIOUS
  <2>1. ASSUME Next PROVE BulkClosedIsKept
    <3>1. ClosedIsKept
      BY <2>1, ClosedStep
    <3> QED BY <3>1, ReissuedIsReopened DEF ClosedIsKept, BulkClosedIsKept
  <2>2. ASSUME BulkStep PROVE BulkClosedIsKept
    BY <2>2, BulkWritesWhatItOpens DEF BulkClosedIsKept
  <2> QED BY <2>1, <2>2 DEF BulkNext
<1> QED BY <1>1, BulkWellFormed, BulkAlwaysCounted, PTL DEF BulkSpec

\* A bulk call opens auctions without a bid and leaves the others alone.
LEMMA BulkAuctionsAreNew ==
    ASSUME WellFormed, BulkStep, NEW i \in AuctionIds
    PROVE  \/ auctions'[i] = auctions[i]
           \/ auctions'[i].current_bid = 0 /\ StartsAboveFloor(auctions'[i])
<1>1. ASSUME NEW seller \in Users, NEW items \in ListingBatches, BulkList(seller, items)
      PROVE  auctions' = auctions
  BY <1>1 DEF BulkList
<1>2. ASSUME NEW seller \in Users, NEW items \in AuctionBatches,
             BulkCreateAuctions(seller, items)
      PROVE  \/ auctions'[i] = auctions[i]
             \/ auctions'[i].current_bid = 0 /\ StartsAboveFloor(auctions'[i])
  <2> DEFINE run == AuctionRun(seller, items)
  <2>1. auctions' = run.records /\ BidsKept(run)
    BY <1>2, BulkAuctionsEffect
  <2> HIDE DEF run
  <2> QED BY <2>1 DEF BidsKept
<1> QED BY <1>1, <1>2 DEF BulkStep

\* A standing bid is a user's on an English auction in every state.
LEMMA BulkBiddersAreUsers == BulkSpec => []StandingBidders
<1>1. WellFormed /\ StandingBidders /\ [BulkNext]_vars => StandingBidders'
  <2> SUFFICES ASSUME WellFormed, StandingBidders, BulkStep PROVE StandingBidders'
    BY BidderStep DEF BulkNext
  <2> QED BY BulkAuctionsAreNew DEF StandingBidders
<1> QED BY <1>1, InitBidders, BulkWellFormed, PTL DEF BulkSpec

\* Whoever is outbid is repaid in that step; only a second initialize may lose a bid.
BulkOutbidIsRepaid == \A i \in AuctionIds : TopsTheBid(i) /\ ~AuctionReopened(i) => RepaysTheBid(i)

\* Whoever is outbid on an auction, opened alone or in bulk with a floor and a
\* window nobody checked, gets the whole bid back in that step.  (place_bid,
\* bulk_create_auctions.)
THEOREM BulkOutbidMadeWhole == BulkSpec => [][BulkOutbidIsRepaid]_vars
<1>1. WellFormed /\ StandingBidders /\ CountersInv /\ [BulkNext]_vars => [BulkOutbidIsRepaid]_vars
  <2> SUFFICES ASSUME WellFormed, StandingBidders, CountersInv, BulkNext,
                      NEW i \in AuctionIds, TopsTheBid(i), ~AuctionReopened(i)
               PROVE  RepaysTheBid(i)
    BY DEF BulkOutbidIsRepaid
  <2>1. ASSUME Next PROVE RepaysTheBid(i)
    <3>1. ~AuctionReissued(i)
      BY ReissuedIsReopened DEF TopsTheBid
    <3> QED BY <2>1, <3>1, OutbidStep
  <2>2. ASSUME BulkStep PROVE FALSE
    BY <2>2, BulkWritesWhatItOpens DEF TopsTheBid
  <2> QED BY <2>1, <2>2 DEF BulkNext
<1> QED BY <1>1, BulkBiddersAreUsers, BulkWellFormed, BulkAlwaysCounted, PTL DEF BulkSpec

\* The price at time t of an auction that starts at s, falls to f and lasts from b
\* to e: DutchPrice of that auction, when it is t.
PriceAt(s, f, b, e, t) ==
    LET price == s - ((s - f) * (t - b)) \div (e - b)
    IN  IF t >= e THEN f ELSE IF t <= b THEN s ELSE IF price > 0 THEN price ELSE 0

\* It is between floor and start, whatever sign the floor has, and negative only
\* when the auction is over.
LEMMA PriceRange ==
    ASSUME NEW s \in Nat, NEW f \in Int, f < s, NEW b \in Nat, NEW e \in Nat, b < e,
           NEW t \in Nat
    PROVE  /\ PriceAt(s, f, b, e, t) \in Int
           /\ f <= PriceAt(s, f, b, e, t) /\ PriceAt(s, f, b, e, t) <= s
           /\ PriceAt(s, f, b, e, t) < 0 => t >= e
<1>1. CASE b < t /\ t < e
  <2> DEFINE q == ((s - f) * (t - b)) \div (e - b)
  <2>1. /\ s - f \in Nat /\ t - b \in Nat /\ e - b \in Nat \ {0} /\ t - b <= e - b
    BY <1>1
  <2>2. q \in 0 .. (s - f)
    BY ONLY <2>1, DecayBounds
  <2> HIDE DEF q
  <2>3. PriceAt(s, f, b, e, t) = IF s - q > 0 THEN s - q ELSE 0
    BY <1>1 DEF PriceAt, q
  <2> QED BY <2>2, <2>3
<1>2. CASE t >= e
  BY <1>2 DEF PriceAt
<1>3. CASE t <= b
  BY <1>3 DEF PriceAt
<1> QED BY <1>1, <1>2, <1>3

\* From one second to the next it does not rise.
LEMMA PriceFalls ==
    ASSUME NEW s \in Nat, NEW f \in Int, f < s, NEW b \in Nat, NEW e \in Nat, b < e,
           NEW t \in Nat
    PROVE  PriceAt(s, f, b, e, t + 1) <= PriceAt(s, f, b, e, t)
<1> DEFINE p == PriceAt(s, f, b, e, t)
           n == PriceAt(s, f, b, e, t + 1)
<1>0. /\ p \in Int /\ n \in Int /\ f <= p /\ n <= s
  <2>1. t + 1 \in Nat
    OBVIOUS
  <2> QED BY <2>1, PriceRange
<1>1. CASE t + 1 >= e
  <2>1. n = f
    BY <1>1 DEF PriceAt
  <2> QED BY <1>0, <2>1
<1>2. CASE t <= b
  <2>1. p = s
    BY <1>2 DEF PriceAt
  <2> QED BY <1>0, <2>1
<1>3. CASE b < t /\ t + 1 < e
  <2> DEFINE q == ((s - f) * (t - b)) \div (e - b)
             r == ((s - f) * (t + 1 - b)) \div (e - b)
  <2>1. /\ s - f \in Nat /\ t - b \in Nat /\ t + 1 - b \in Nat /\ e - b \in Nat \ {0}
        /\ t - b <= t + 1 - b /\ t - b <= e - b /\ t + 1 - b <= e - b
    BY <1>3
  <2>2. q <= r
    BY ONLY <2>1, DecayGrows
  <2>3. q \in 0 .. (s - f) /\ r \in 0 .. (s - f)
    BY ONLY <2>1, DecayBounds
  <2> HIDE DEF q, r
  <2>4. p = IF s - q > 0 THEN s - q ELSE 0
    BY <1>3 DEF PriceAt, q
  <2>5. n = IF s - r > 0 THEN s - r ELSE 0
    BY <1>3 DEF PriceAt, r
  <2> HIDE DEF p, n
  <2>6. n <= p
    BY <2>2, <2>3, <2>4, <2>5
  <2> QED BY <2>6 DEF p, n
<1> QED BY <1>1, <1>2, <1>3

\* A Dutch auction has room to fall; whether it may fall below nothing, only the
\* calls for one auction check.
DutchTerms == \A i \in AuctionIds : auctions[i].status # "None" => StartsAboveFloor(auctions[i])

\* Before the first call there is no auction.
LEMMA InitDutchTerms == Init => DutchTerms
BY DEF Init, DutchTerms, NoRecord

\* No call changes the prices of an auction.
LEMMA DutchTermsStay == WellFormed /\ DutchTerms /\ [Next]_vars => DutchTerms'
<1> SUFFICES ASSUME WellFormed, DutchTerms, [Next]_vars, NEW i \in AuctionIds,
                    auctions'[i].status # "None"
             PROVE  StartsAboveFloor(auctions'[i])
  BY DEF DutchTerms
<1>0. auctions \in [AuctionIds -> AuctionRecord \cup {NoRecord}]
  BY DEF WellFormed
<1>1. CASE auctions'[i] = auctions[i]
  BY <1>1 DEF DutchTerms
<1>2. CASE auctions'[i].floor_price \in 0 .. (auctions'[i].start_price - 1) /\ AuctionReissued(i)
  <2>1. auctions'[i] \in AuctionRecord
    <3>1. WellFormed'
      BY TypeStep
    <3>2. auctions' \in [AuctionIds -> AuctionRecord \cup {NoRecord}]
      BY <3>1 DEF WellFormed
    <3> QED BY <3>2 DEF NoRecord
  <2>2. auctions'[i].start_price \in Nat /\ auctions'[i].floor_price \in Int
    BY <2>1 DEF AuctionRecord
  <2> QED BY <1>2, <2>2 DEF StartsAboveFloor
<1>3. ASSUME auctions[i].status = "Active",
             /\ auctions'[i].floor_price = auctions[i].floor_price
             /\ auctions'[i].start_price = auctions[i].start_price
             /\ auctions'[i].auction_type = auctions[i].auction_type
      PROVE  StartsAboveFloor(auctions'[i])
  BY <1>3 DEF DutchTerms, StartsAboveFloor
<1>4. ASSUME NEW u \in Users, NEW bid \in Prices, PlaceBid(u, i, bid)
      PROVE  StartsAboveFloor(auctions'[i])
  <2>1. /\ auctions[i].status = "Active"
        /\ \E e : auctions' = [auctions EXCEPT ![i].current_bid = bid,
                               ![i].current_bidder = u, ![i].end_time = e]
    BY <1>4 DEF PlaceBid
  <2>2. PICK e : auctions'[i] = [auctions[i] EXCEPT !.current_bid = bid,
                                  !.current_bidder = u, !.end_time = e]
    BY <1>0, <2>1
  <2>3. auctions[i] \in AuctionRecord
    BY <2>1, OpenRecords
  <2> QED BY <1>3, <2>1, <2>2, <2>3 DEF AuctionRecord
<1>5. ASSUME auctions[i].status = "Active",
             NEW st, auctions' = [auctions EXCEPT ![i].status = st]
      PROVE  StartsAboveFloor(auctions'[i])
  <2>1. auctions[i] \in AuctionRecord /\ auctions'[i] = [auctions[i] EXCEPT !.status = st]
    BY <1>0, <1>5, OpenRecords
  <2> QED BY <1>3, <1>5, <2>1 DEF AuctionRecord
<1> QED BY <1>1, <1>2, <1>4, <1>5, WhoChangesAnAuction
      DEF BuyDutchAuction, CancelDutchAuction, SettleWithoutBid, SettleWithWinner, Settle, Settleable

\* The price of auction i in this state and in the next.
LEMMA PricesOf ==
    ASSUME NEW i \in AuctionIds, auctions'[i] = auctions[i], NEW a, a = auctions[i]
    PROVE  /\ DutchPrice(auctions[i])
                = PriceAt(a.start_price, a.floor_price, a.start_time, a.end_time, now)
           /\ DutchPrice(auctions[i])'
                = PriceAt(a.start_price, a.floor_price, a.start_time, a.end_time, now')
BY DEF DutchPrice, DutchDecay, PriceAt

\* Record i is a Dutch auction that stays open.
DutchStaysOpen(i) ==
    /\ auctions[i].status = "Active" /\ auctions'[i].status = "Active"
    /\ auctions[i].auction_type = "Dutch"

\* Its price does not rise, stays within its bounds, and is negative at most when
\* the auction is over and a negative floor is all that is left of the price.
BulkDutchPriceFalls ==
    \A i \in AuctionIds : DutchStaysOpen(i) /\ ~AuctionReopened(i) =>
        LET a == auctions[i]
        IN  /\ DutchPrice(auctions[i])' <= DutchPrice(a)
            /\ a.floor_price <= DutchPrice(a) /\ DutchPrice(a) <= a.start_price
            /\ DutchPrice(a) < 0 => now >= a.end_time

\* Bulk calls take Dutch auctions of any floor, yet their prices move one way too,
\* and nobody is ever paid to buy before the end.  (bulk_create_auctions,
\* compute_dutch_price.)
THEOREM BulkDutchPricesOnlyFall == BulkSpec => [][BulkDutchPriceFalls]_vars
<1>1. WellFormed /\ DutchTerms /\ [BulkNext]_vars => DutchTerms'
  <2> SUFFICES ASSUME WellFormed, DutchTerms, BulkStep PROVE DutchTerms'
    BY DutchTermsStay DEF BulkNext
  <2> QED BY BulkAuctionsAreNew DEF DutchTerms
<1>2. WellFormed /\ DutchTerms /\ CountersInv /\ [BulkNext]_vars => [BulkDutchPriceFalls]_vars
  <2> SUFFICES ASSUME WellFormed, DutchTerms, CountersInv, BulkNext,
                      NEW i \in AuctionIds, DutchStaysOpen(i), ~AuctionReopened(i)
               PROVE  /\ DutchPrice(auctions[i])' <= DutchPrice(auctions[i])
                      /\ auctions[i].floor_price <= DutchPrice(auctions[i])
                      /\ DutchPrice(auctions[i]) <= auctions[i].start_price
                      /\ DutchPrice(auctions[i]) < 0 => now >= auctions[i].end_time
    BY DEF BulkDutchPriceFalls
  <2>1. auctions'[i] = auctions[i] /\ now \in Nat /\ (now' = now \/ now' = now + 1)
    <3>1. ASSUME Next
          PROVE  auctions'[i] = auctions[i] /\ now \in Nat /\ (now' = now \/ now' = now + 1)
      <4>1. ~AuctionReissued(i)
        BY ReissuedIsReopened DEF DutchStaysOpen
      <4> QED BY <3>1, <4>1, OpenDutchKept, ClockTicks DEF DutchStaysOpen
    <3>2. ASSUME BulkStep PROVE auctions'[i] = auctions[i] /\ now \in Nat /\ now' = now
      BY <3>2, BulkWritesWhatItOpens DEF DutchStaysOpen, WellFormed
    <3> QED BY <3>1, <3>2 DEF BulkNext
  <2>2. PICK a : a = auctions[i]
    OBVIOUS
  <2>3. /\ a.start_price \in Nat /\ a.floor_price \in Int /\ a.floor_price < a.start_price
        /\ a.start_time \in Nat /\ a.end_time \in Nat /\ a.start_time < a.end_time
    <3>1. a \in AuctionRecord
      BY <2>2, OpenRecords DEF DutchStaysOpen
    <3>2. a.floor_price < a.start_price /\ a.start_time < a.end_time
      BY <2>2 DEF DutchStaysOpen, DutchTerms, StartsAboveFloor, WellFormed, AuctionTerms
    <3> QED BY <3>1, <3>2 DEF AuctionRecord
  <2> DEFINE p == PriceAt(a.start_price, a.floor_price, a.start_time, a.end_time, now)
             n == PriceAt(a.start_price, a.floor_price, a.start_time, a.end_time, now')
  <2>4. DutchPrice(auctions[i]) = p /\ DutchPrice(auctions[i])' = n
    BY <2>1, <2>2, PricesOf
  <2>5. /\ p \in Int /\ a.floor_price <= p /\ p <= a.start_price
        /\ p < 0 => now >= a.end_time
    BY <2>1, <2>3, PriceRange
  <2>6. n <= p
    <3>1. CASE now' = now
      BY <2>5, <3>1
    <3>2. CASE now' = now + 1
      BY <2>1, <2>3, <3>2, PriceFalls
    <3> QED BY <2>1, <3>1, <3>2
  <2> HIDE DEF p, n
  <2> QED BY <2>2, <2>4, <2>5, <2>6
<1> QED BY <1>1, <1>2, InitDutchTerms, BulkWellFormed, BulkAlwaysCounted, PTL DEF BulkSpec
\* A bulk call closes no record: those it opens are open.
LEMMA BulkClosesNothing ==
    ASSUME WellFormed, BulkStep
    PROVE  (\A i \in ListingIds : ~SoldNow(i)) /\ (\A i \in AuctionIds : ~SettledNow(i))
<1> DEFINE Closed == \/ \E i \in ListingIds : SoldNow(i)
                     \/ \E i \in AuctionIds : SettledNow(i)
<1>0. listing_seq \in Int /\ auction_seq \in Int
      /\ DOMAIN listings = ListingIds /\ DOMAIN auctions = AuctionIds
      /\ ListingIds = 1 .. MaxListings /\ AuctionIds = 1 .. MaxAuctions
  BY DEF WellFormed, ListingIds, AuctionIds
<1>1. ASSUME NEW seller \in Users, NEW items \in ListingBatches, BulkList(seller, items)
      PROVE  ~Closed
  <2> DEFINE run == ListRun(seller, items)
             Recs == ListingRecord \cup {NoRecord}
  <2>1. /\ OthersKept(run, listing_seq, listings) /\ Reported(run, MaxListings, listing_seq)
        /\ run \in Runs(Recs, MaxListings) /\ listings' = run.records
    BY <1>1, BulkListEffect
  <2>2. auctions' = auctions
    BY <1>1 DEF BulkList
  <2>3. run.seq \in Int
    BY <2>1 DEF Runs
  <2> HIDE DEF run, Recs
  <2>4. ASSUME NEW i \in ListingIds PROVE listings'[i] = listings[i] \/ listings'[i].status = "Active"
    <3>1. (i <= listing_seq \/ i > run.seq) \/ i \in Opened(1 .. MaxListings, listing_seq, run.seq)
      BY <1>0, <2>3 DEF Opened
    <3> QED BY <1>0, <2>1, <3>1 DEF OthersKept, Reported
  <2> QED BY <2>2, <2>4 DEF SoldNow, SettledNow
<1>2. ASSUME NEW seller \in Users, NEW items \in AuctionBatches,
             BulkCreateAuctions(seller, items)
      PROVE  ~Closed
  <2> DEFINE run == AuctionRun(seller, items)
             Recs == AuctionRecord \cup {NoRecord}
  <2>1. /\ OthersKept(run, auction_seq, auctions) /\ Reported(run, MaxAuctions, auction_seq)
        /\ run \in Runs(Recs, MaxAuctions) /\ auctions' = run.records
    BY <1>2, BulkAuctionsEffect
  <2>2. listings' = listings
    BY <1>2 DEF BulkCreateAuctions
  <2>3. run.seq \in Int
    BY <2>1 DEF Runs
  <2> HIDE DEF run, Recs
  <2>4. ASSUME NEW i \in AuctionIds PROVE auctions'[i] = auctions[i] \/ auctions'[i].status = "Active"
    <3>1. (i <= auction_seq \/ i > run.seq) \/ i \in Opened(1 .. MaxAuctions, auction_seq, run.seq)
      BY <1>0, <2>3 DEF Opened
    <3> QED BY <1>0, <2>1, <3>1 DEF OthersKept, Reported
  <2> QED BY <2>2, <2>4 DEF SoldNow, SettledNow
<1> HIDE DEF Closed
<1>3. ~Closed
  BY <1>1, <1>2 DEF BulkStep
<1> QED BY <1>3 DEF Closed

\* SaleCostsThePrice, where a price below nothing counts as nothing.
BulkSaleCostsThePrice ==
    /\ \A i \in ListingIds : SoldNow(i) /\ listings[i].collection # listings[i].currency =>
        \A x \in Accounts : balance[listings[i].currency][x] - listings[i].price
                                <= balance'[listings[i].currency][x]
    /\ \A i \in AuctionIds : SettledNow(i) /\ auctions[i].collection # auctions[i].currency =>
        \A x \in Accounts : balance[auctions[i].currency][x] - Cost(HammerPrice(auctions[i]))
                                <= balance'[auctions[i].currency][x]

\* With floors of either sign among the auctions, a sale still costs nobody more
\* than its price, and one below nothing costs nobody anything, the contract and
\* its other customers included.  (buy_dutch_auction, settle_english_auction,
\* bulk_create_auctions.)
THEOREM BulkSalesCostThePrice ==
    ASSUME RoyaltiesLeaveRoom PROVE BulkSpec => [][BulkSaleCostsThePrice]_vars
<1>1. WellFormed /\ StandingBidders /\ [BulkNext]_vars => [BulkSaleCostsThePrice]_vars
  <2> SUFFICES ASSUME WellFormed, StandingBidders, BulkNext PROVE BulkSaleCostsThePrice
    OBVIOUS
  <2>1. ASSUME Next PROVE BulkSaleCostsThePrice
    BY <2>1, PurchaseCost, SettlementCost DEF BulkSaleCostsThePrice
  <2>2. ASSUME BulkStep PROVE BulkSaleCostsThePrice
    BY <2>2, BulkClosesNothing DEF BulkSaleCostsThePrice
  <2> QED BY <2>1, <2>2 DEF BulkNext
<1> QED BY <1>1, BulkBiddersAreUsers, BulkWellFormed, PTL DEF BulkSpec
=============================================================================
