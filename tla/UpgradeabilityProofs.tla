------------------------ MODULE UpgradeabilityProofs ------------------------
(***************************************************************************)
(* Theorems about Upgradeability, for every set of accounts, contracts,    *)
(* hashes and versions, every finite set of names and every bound on the   *)
(* proposals.                                                              *)
(***************************************************************************)
EXTENDS UpgradeQueries, LedgerProofs

-----------------------------------------------------------------------------
(* The inductive invariant.                                                *)

\* The live proposals and the pending entries are the same.
PendingIsLive ==
    /\ \A id \in Ids : Live(id) => pending[proposals[id].contract] = id
    /\ \A c \in Contracts :
          pending[c] # 0 => Live(pending[c]) /\ proposals[pending[c]].contract = c

CountIsNames == reg_count = Cardinality({n \in Names : by_name[n] # NoContract})

HooksAgree == \A c \in Contracts : Registered(c) /\ EnteredOnce(c) => entries[c].hook = hooks[c]

\* Nothing is proposed or recorded under an id that was not given out.
IdsAreCounted ==
    \A id \in Ids : id > prop_count =>
        /\ proposals[id] = NoProposal
        /\ \A c \in Contracts : history[c][id] = NoRecord

\* A contract without a name is not registered, and has left no trace.
NamelessIsNew ==
    \A c \in Contracts :
        /\ Registered(c) <=> NamesOf(c) # {}
        /\ ~Registered(c) => hooks[c] = NoHook /\ pending[c] = 0 /\ Recorded(c) = {}

\* What is pending is later than what was executed, and is ahead of the entry.
PendingIsAhead ==
    \A c \in Contracts : pending[c] # 0 =>
        /\ \A k \in Recorded(c) : k < pending[c]
        /\ EnteredOnce(c) => /\ proposals[pending[c]].version > entries[c].version
                             /\ proposals[pending[c]].hash # entries[c].hash

UInv ==
    /\ TypeOK
    /\ PendingIsLive
    /\ CountIsNames
    /\ HooksAgree
    /\ IdsAreCounted
    /\ NamelessIsNew
    /\ PendingIsAhead
    /\ HistoryTellsTheVersion

-----------------------------------------------------------------------------
(* Values and their absence.                                               *)

LEMMA ValuesDiffer ==
    /\ \A e \in Entry : e # Unregistered
    /\ \A p \in Proposal : p # NoProposal
    /\ \A r \in Record : r # NoRecord
<1>1. \A e \in Entry : e.registered # Unregistered.registered
  BY DEF Entry, Unregistered
<1>2. \A p \in Proposal : p.proposed # NoProposal.proposed
  BY DEF Proposal, NoProposal
<1>3. \A r \in Record : r.recorded # NoRecord.recorded
  BY DEF Record, NoRecord
<1> QED BY <1>1, <1>2, <1>3

\* What a registered contract and a live proposal are.
LEMMA StoredTypes ==
    ASSUME TypeOK
    PROVE  /\ \A c \in Contracts : Registered(c) => entries[c] \in Entry
           /\ \A id \in Ids : Live(id) => proposals[id] \in Proposal
           /\ \A c \in Contracts, id \in Ids : id \in Recorded(c) => history[c][id] \in Record
BY DEF TypeOK, Registered, Live, Recorded

\* The parts of an entry and a proposal.
LEMMA PartsTyped ==
    /\ \A e \in Entry : e.version \in Versions /\ e.hash \in Hashes /\ e.hook \in Hooks \cup {NoHook}
    /\ \A p \in Proposal : /\ p.version \in Versions /\ p.hash \in Hashes
                           /\ p.contract \in Contracts /\ p.proposer \in Accounts
BY DEF Entry, Proposal

LEMMA InitInv ==
    ASSUME Init
    PROVE  UInv
<1> USE UpgradeAssumption
<1>1. TypeOK
  BY DEF Init, TypeOK, Ids
<1>2. PendingIsLive
  BY DEF Init, PendingIsLive, Live
<1>3. CountIsNames
  <2>1. {n \in Names : by_name[n] # NoContract} = {}
    BY DEF Init
  <2>2. reg_count = 0
    BY DEF Init
  <2> QED BY <2>1, <2>2, FS_EmptySet DEF CountIsNames
<1>4. HooksAgree
  BY DEF Init, HooksAgree, Registered
<1>5. IdsAreCounted
  BY DEF Init, IdsAreCounted
<1>6. \A c \in Contracts : Recorded(c) = {}
  BY DEF Init, Recorded
<1>7. NamelessIsNew
  BY <1>6 DEF Init, NamelessIsNew, Registered, NamesOf
<1>8. PendingIsAhead
  BY DEF Init, PendingIsAhead
<1>9. HistoryTellsTheVersion
  BY <1>6 DEF HistoryTellsTheVersion
<1> QED BY <1>1, <1>2, <1>3, <1>4, <1>5, <1>7, <1>8, <1>9 DEF UInv

-----------------------------------------------------------------------------
(* Registration.                                                           *)

LEMMA RegisterEffect ==
    ASSUME TypeOK, NEW caller \in Accounts, NEW c \in Contracts, NEW name \in Names,
           NEW version \in Versions, NEW hash \in Hashes,
           RegisterContract(caller, c, name, version, hash)
    PROVE  /\ entries' \in [Contracts -> Entry \cup {Unregistered}]
           /\ by_name' \in [Names -> Contracts \cup {NoContract}]
           /\ entries'[c] \in Entry
           /\ entries'[c].hook = NoHook
           /\ \A d \in Contracts : d # c => entries'[d] = entries[d]
           /\ by_name[name] = NoContract
           /\ by_name'[name] = c
           /\ \A n \in Names : n # name => by_name'[n] = by_name[n]
           /\ reg_count' = reg_count + 1
           /\ UNCHANGED <<roles, hooks, prop_count, proposals, pending, history>>
<1> DEFINE e == [registered |-> TRUE, version |-> version, hash |-> hash, hook |-> NoHook]
<1>1. e \in Entry
  BY DEF Entry
<1>2. e.hook = NoHook
  OBVIOUS
<1>3. entries' = [entries EXCEPT ![c] = e]
  BY DEF RegisterContract
<1> HIDE DEF e
<1>4. entries' \in [Contracts -> Entry \cup {Unregistered}] /\ entries'[c] = e
  BY <1>1, <1>3 DEF TypeOK
<1>5. \A d \in Contracts : d # c => entries'[d] = entries[d]
  BY <1>3 DEF TypeOK
<1>6. /\ by_name' = [by_name EXCEPT ![name] = c]
      /\ by_name[name] = NoContract
      /\ reg_count' = reg_count + 1
      /\ UNCHANGED <<roles, hooks, prop_count, proposals, pending, history>>
  BY DEF RegisterContract, proposalVars
<1>7. /\ by_name' \in [Names -> Contracts \cup {NoContract}]
      /\ by_name'[name] = c
      /\ \A n \in Names : n # name => by_name'[n] = by_name[n]
  BY <1>6 DEF TypeOK
<1> QED BY <1>1, <1>2, <1>4, <1>5, <1>6, <1>7

LEMMA RegisterStep ==
    ASSUME UInv, NEW caller \in Accounts, NEW c \in Contracts, NEW name \in Names,
           NEW version \in Versions, NEW hash \in Hashes,
           RegisterContract(caller, c, name, version, hash)
    PROVE  UInv'
<1> USE UpgradeAssumption
<1>0. /\ TypeOK /\ PendingIsLive /\ CountIsNames /\ HooksAgree /\ IdsAreCounted
      /\ NamelessIsNew /\ PendingIsAhead /\ HistoryTellsTheVersion
  BY DEF UInv
<1>1. /\ entries' \in [Contracts -> Entry \cup {Unregistered}]
      /\ by_name' \in [Names -> Contracts \cup {NoContract}]
      /\ entries'[c] \in Entry
      /\ entries'[c].hook = NoHook
      /\ \A d \in Contracts : d # c => entries'[d] = entries[d]
      /\ by_name[name] = NoContract
      /\ by_name'[name] = c
      /\ \A n \in Names : n # name => by_name'[n] = by_name[n]
      /\ reg_count' = reg_count + 1
      /\ UNCHANGED <<roles, hooks, prop_count, proposals, pending, history>>
  BY <1>0, RegisterEffect
<1>2. TypeOK'
  BY <1>0, <1>1 DEF TypeOK
<1>3. PendingIsLive'
  BY <1>0, <1>1 DEF PendingIsLive, Live
<1>4. CountIsNames'
  <2> DEFINE named == {n \in Names : by_name[n] # NoContract}
  <2>1. {n \in Names : by_name'[n] # NoContract} = named \cup {name}
    BY <1>1
  <2>2. name \notin named
    BY <1>1
  <2>3. IsFiniteSet(named)
    BY FS_Subset
  <2> HIDE DEF named
  <2>4. Cardinality(named \cup {name}) = Cardinality(named) + 1
    BY <2>2, <2>3, FS_AddElement
  <2>5. reg_count = Cardinality(named)
    BY <1>0 DEF CountIsNames, named
  <2> QED BY <1>1, <2>1, <2>4, <2>5 DEF CountIsNames
<1>5. \A d \in Contracts : d # c => NamesOf(d)' = NamesOf(d)
  BY <1>1 DEF NamesOf
<1>6. name \in NamesOf(c)'
  BY <1>1 DEF NamesOf
<1>7. \A d \in Contracts : d # c => (EnteredOnce(d)' <=> EnteredOnce(d))
  BY <1>5 DEF EnteredOnce
<1>8. \A d \in Contracts : Recorded(d)' = Recorded(d)
  BY <1>1 DEF Recorded
<1>9. EnteredOnce(c)' => ~Registered(c)
  <2>1. NamesOf(c) \subseteq NamesOf(c)' /\ name \notin NamesOf(c)
    BY <1>1 DEF NamesOf
  <2>2. EnteredOnce(c)' => NamesOf(c) = {}
    BY <1>6, <2>1 DEF EnteredOnce
  <2> QED BY <1>0, <2>2 DEF NamelessIsNew
<1>10. EnteredOnce(c)' => hooks[c] = NoHook /\ pending[c] = 0 /\ Recorded(c) = {}
  BY <1>0, <1>9 DEF NamelessIsNew
<1>11. \A d \in Contracts : Registered(d)' <=> (d = c \/ Registered(d))
  BY <1>1, ValuesDiffer DEF Registered
<1>12. HooksAgree'
  BY <1>0, <1>1, <1>7, <1>10, <1>11 DEF HooksAgree
<1>13. IdsAreCounted'
  BY <1>0, <1>1 DEF IdsAreCounted
<1>14. NamelessIsNew'
  BY <1>0, <1>1, <1>5, <1>6, <1>8, <1>11 DEF NamelessIsNew
<1>15. PendingIsAhead'
  BY <1>0, <1>1, <1>7, <1>8, <1>10 DEF PendingIsAhead
<1>16. HistoryTellsTheVersion'
  BY <1>0, <1>1, <1>7, <1>8, <1>10 DEF HistoryTellsTheVersion
<1> QED BY <1>2, <1>3, <1>4, <1>12, <1>13, <1>14, <1>15, <1>16 DEF UInv

\* A hook changes nothing but the two places that hold it.
LEMMA SetHookStep ==
    ASSUME UInv, NEW caller \in Accounts, NEW c \in Contracts, NEW hook \in Hooks,
           SetMigrationHook(caller, c, hook)
    PROVE  UInv'
<1>0. /\ TypeOK /\ PendingIsLive /\ CountIsNames /\ HooksAgree /\ IdsAreCounted
      /\ NamelessIsNew /\ PendingIsAhead /\ HistoryTellsTheVersion
  BY DEF UInv
<1>1. /\ Registered(c)
      /\ entries' = [entries EXCEPT ![c].hook = hook]
      /\ hooks' = [hooks EXCEPT ![c] = hook]
      /\ UNCHANGED <<roles, by_name, reg_count, prop_count, proposals, pending, history>>
  BY DEF SetMigrationHook, proposalVars
<1>2. entries[c] \in Entry
  BY <1>0, <1>1, StoredTypes
<1>3. /\ entries'[c] = [entries[c] EXCEPT !.hook = hook]
      /\ \A d \in Contracts : d # c => entries'[d] = entries[d]
      /\ DOMAIN entries' = Contracts
  BY <1>0, <1>1 DEF TypeOK
<1>4. /\ entries'[c] \in Entry
      /\ entries'[c].version = entries[c].version
      /\ entries'[c].hash = entries[c].hash
      /\ entries'[c].hook = hook
  <2> DEFINE e == entries[c]
  <2>1. e \in Entry
    BY <1>2
  <2> HIDE DEF e
  <2>2. LET f == [e EXCEPT !.hook = hook]
        IN  f \in Entry /\ f.version = e.version /\ f.hash = e.hash /\ f.hook = hook
    BY <2>1 DEF Entry
  <2> QED BY <1>3, <2>2 DEF e
<1>5. entries' \in [Contracts -> Entry \cup {Unregistered}]
  <2>1. \A d \in Contracts : entries'[d] \in Entry \cup {Unregistered}
    BY <1>0, <1>3, <1>4 DEF TypeOK
  <2>2. entries' = [d \in Contracts |-> entries'[d]]
    BY <1>0, <1>1 DEF TypeOK
  <2> QED BY <2>1, <2>2
<1>6. /\ hooks' \in [Contracts -> Hooks \cup {NoHook}]
      /\ hooks'[c] = hook
      /\ \A d \in Contracts : d # c => hooks'[d] = hooks[d]
  BY <1>0, <1>1 DEF TypeOK
<1>7. \A d \in Contracts : Registered(d)' <=> Registered(d)
  BY <1>1, <1>3, <1>4, ValuesDiffer DEF Registered
<1>8. \A d \in Contracts : /\ NamesOf(d)' = NamesOf(d)
                           /\ EnteredOnce(d)' <=> EnteredOnce(d)
                           /\ Recorded(d)' = Recorded(d)
  BY <1>1 DEF NamesOf, EnteredOnce, Recorded
<1>9. \A d \in Contracts : entries'[d].version = entries[d].version /\ entries'[d].hash = entries[d].hash
  BY <1>3, <1>4
<1>10. TypeOK'
  BY <1>0, <1>1, <1>5, <1>6 DEF TypeOK
<1>11. PendingIsLive' /\ IdsAreCounted'
  BY <1>0, <1>1 DEF PendingIsLive, Live, IdsAreCounted
<1>12. CountIsNames'
  BY <1>0, <1>1 DEF CountIsNames
<1>13. HooksAgree'
  BY <1>0, <1>3, <1>4, <1>6, <1>7, <1>8 DEF HooksAgree
<1>14. NamelessIsNew'
  BY <1>0, <1>1, <1>6, <1>7, <1>8 DEF NamelessIsNew
<1>15. PendingIsAhead'
  BY <1>0, <1>1, <1>8, <1>9 DEF PendingIsAhead
<1>16. HistoryTellsTheVersion'
  BY <1>0, <1>1, <1>8, <1>9 DEF HistoryTellsTheVersion
<1> QED BY <1>10, <1>11, <1>12, <1>13, <1>14, <1>15, <1>16 DEF UInv

-----------------------------------------------------------------------------
(* Proposals.                                                              *)

\* Contracts, names and hooks stay what they were.
LEMMA SameRegistry ==
    ASSUME UNCHANGED <<by_name, reg_count, hooks>>,
           \A c \in Contracts : Registered(c)' <=> Registered(c)
    PROVE  /\ CountIsNames => CountIsNames'
           /\ \A c \in Contracts : NamesOf(c)' = NamesOf(c) /\ (EnteredOnce(c)' <=> EnteredOnce(c))
BY DEF CountIsNames, NamesOf, EnteredOnce

LEMMA ProposeEffect ==
    ASSUME TypeOK, NEW caller \in Accounts, NEW c \in Contracts,
           NEW hash \in Hashes, NEW version \in Versions,
           ProposeUpgrade(caller, c, hash, version)
    PROVE  /\ Registered(c)
           /\ version > entries[c].version /\ hash # entries[c].hash
           /\ pending[c] = 0
           /\ prop_count + 1 \in Ids /\ prop_count' = prop_count + 1
           /\ proposals' \in [Ids -> Proposal \cup {NoProposal}]
           /\ proposals'[prop_count + 1] # NoProposal /\ ~proposals'[prop_count + 1].executed
           /\ proposals'[prop_count + 1].contract = c
           /\ proposals'[prop_count + 1].version = version
           /\ proposals'[prop_count + 1].hash = hash
           /\ \A id \in Ids : id # prop_count + 1 => proposals'[id] = proposals[id]
           /\ pending' \in [Contracts -> 0 .. MaxProposals]
           /\ pending'[c] = prop_count + 1
           /\ \A d \in Contracts : d # c => pending'[d] = pending[d]
           /\ UNCHANGED <<roles, entries, by_name, reg_count, hooks, history>>
<1> USE UpgradeAssumption
<1> DEFINE p == [proposed |-> TRUE, contract |-> c, hash |-> hash, version |-> version,
                 proposer |-> caller, executed |-> FALSE]
<1>1. p \in Proposal
  BY DEF Proposal
<1>2. p.contract = c /\ p.version = version /\ p.hash = hash /\ ~p.executed
  OBVIOUS
<1>3. proposals' = [proposals EXCEPT ![prop_count + 1] = p]
  BY DEF ProposeUpgrade
<1> HIDE DEF p
<1>4. /\ Registered(c) /\ pending[c] = 0
      /\ version > entries[c].version /\ hash # entries[c].hash
      /\ prop_count < MaxProposals /\ prop_count' = prop_count + 1
      /\ pending' = [pending EXCEPT ![c] = prop_count + 1]
      /\ UNCHANGED <<roles, entries, by_name, reg_count, hooks, history>>
  BY DEF ProposeUpgrade, Changes, registryVars
<1>5. prop_count + 1 \in Ids /\ prop_count + 1 \in 0 .. MaxProposals
  BY <1>4 DEF TypeOK, Ids
<1>6. /\ proposals' \in [Ids -> Proposal \cup {NoProposal}]
      /\ proposals'[prop_count + 1] = p
      /\ \A id \in Ids : id # prop_count + 1 => proposals'[id] = proposals[id]
  BY <1>1, <1>3, <1>5 DEF TypeOK
<1>7. /\ pending' \in [Contracts -> 0 .. MaxProposals]
      /\ pending'[c] = prop_count + 1
      /\ \A d \in Contracts : d # c => pending'[d] = pending[d]
  BY <1>4, <1>5 DEF TypeOK
<1>8. p # NoProposal
  BY <1>1, ValuesDiffer
<1>9. proposals'[prop_count + 1] # NoProposal /\ ~proposals'[prop_count + 1].executed
  BY <1>2, <1>6, <1>8
<1> QED BY <1>2, <1>4, <1>5, <1>6, <1>7, <1>9

LEMMA ProposeStep ==
    ASSUME UInv, NEW caller \in Accounts, NEW c \in Contracts,
           NEW hash \in Hashes, NEW version \in Versions,
           ProposeUpgrade(caller, c, hash, version)
    PROVE  UInv'
<1> DEFINE new == prop_count + 1
<1>0. /\ TypeOK /\ PendingIsLive /\ CountIsNames /\ HooksAgree /\ IdsAreCounted
      /\ NamelessIsNew /\ PendingIsAhead /\ HistoryTellsTheVersion
  BY DEF UInv
<1>1. /\ Registered(c)
      /\ version > entries[c].version /\ hash # entries[c].hash
      /\ pending[c] = 0
      /\ new \in Ids /\ prop_count' = new
      /\ proposals' \in [Ids -> Proposal \cup {NoProposal}]
      /\ proposals'[new] # NoProposal /\ ~proposals'[new].executed
      /\ proposals'[new].contract = c
      /\ proposals'[new].version = version
      /\ proposals'[new].hash = hash
      /\ \A id \in Ids : id # new => proposals'[id] = proposals[id]
      /\ pending' \in [Contracts -> 0 .. MaxProposals]
      /\ pending'[c] = new
      /\ \A d \in Contracts : d # c => pending'[d] = pending[d]
      /\ UNCHANGED <<roles, entries, by_name, reg_count, hooks, history>>
  BY <1>0, ProposeEffect
<1>2. /\ MaxProposals \in Nat /\ Ids = 1 .. MaxProposals
      /\ prop_count \in 0 .. MaxProposals
      /\ pending \in [Contracts -> 0 .. MaxProposals]
  BY <1>0, UpgradeAssumption DEF TypeOK, Ids
<1>3. new > prop_count /\ new # 0
  BY <1>2
<1> HIDE DEF new
<1>4. \A d \in Contracts : d # c /\ pending[d] # 0 => pending[d] # new
  <2>1. ASSUME NEW d \in Contracts, d # c, pending[d] = new PROVE FALSE
    <3>1. proposals[new].contract = d /\ Live(new)
      BY <1>0, <1>3, <2>1 DEF PendingIsLive
    <3>2. proposals[new] = NoProposal
      BY <1>0, <1>1, <1>3 DEF IdsAreCounted
    <3> QED BY <3>1, <3>2 DEF Live
  <2> QED BY <2>1
<1>5. /\ \A d \in Contracts : Registered(d)' <=> Registered(d)
      /\ \A d \in Contracts : Recorded(d)' = Recorded(d)
  BY <1>1 DEF Registered, Recorded
<1>6. /\ CountIsNames'
      /\ \A d \in Contracts : NamesOf(d)' = NamesOf(d) /\ (EnteredOnce(d)' <=> EnteredOnce(d))
  BY <1>0, <1>1, <1>5, SameRegistry
<1>7. TypeOK'
  <2>1. new \in 0 .. MaxProposals
    BY <1>1, <1>2
  <2> QED BY <1>0, <1>1, <2>1 DEF TypeOK
<1>8. PendingIsLive'
  <2>1. ASSUME NEW id \in Ids, proposals'[id] # NoProposal, ~proposals'[id].executed
        PROVE  pending'[proposals'[id].contract] = id
    <3>1. CASE id = new
      BY <1>1, <3>1
    <3>2. CASE id # new
      <4>1. proposals'[id] = proposals[id] /\ Live(id)
        BY <1>1, <2>1, <3>2 DEF Live
      <4>2. pending[proposals[id].contract] = id
        BY <1>0, <4>1 DEF PendingIsLive
      <4>3. proposals[id].contract \in Contracts
        BY <1>0, <4>1, StoredTypes, PartsTyped
      <4>4. id # 0
        BY <1>2
      <4>5. proposals[id].contract # c
        BY <1>1, <4>2, <4>4
      <4> QED BY <1>1, <4>1, <4>2, <4>3, <4>5
    <3> QED BY <3>1, <3>2
  <2>2. ASSUME NEW d \in Contracts, pending'[d] # 0
        PROVE  /\ proposals'[pending'[d]] # NoProposal
               /\ ~proposals'[pending'[d]].executed
               /\ proposals'[pending'[d]].contract = d
    <3>1. CASE d = c
      BY <1>1, <3>1
    <3>2. CASE d # c
      <4>1. pending'[d] = pending[d] /\ pending[d] \in Ids /\ pending[d] # new
        BY <1>1, <1>2, <1>4, <2>2, <3>2
      <4>2. proposals'[pending[d]] = proposals[pending[d]]
        BY <1>1, <4>1
      <4>3. Live(pending[d]) /\ proposals[pending[d]].contract = d
        BY <1>0, <2>2, <4>1 DEF PendingIsLive
      <4> QED BY <4>1, <4>2, <4>3 DEF Live
    <3> QED BY <3>1, <3>2
  <2> QED BY <2>1, <2>2 DEF PendingIsLive, Live
<1>9. HooksAgree'
  BY <1>0, <1>1, <1>5, <1>6 DEF HooksAgree
<1>10. IdsAreCounted'
  <2>1. ASSUME NEW id \in Ids, id > new
        PROVE  proposals'[id] = NoProposal /\ \A d \in Contracts : history'[d][id] = NoRecord
    <3>1. id > prop_count /\ id # new
      BY <1>1, <1>2, <1>3, <2>1
    <3> QED BY <1>0, <1>1, <3>1 DEF IdsAreCounted
  <2> QED BY <1>1, <2>1 DEF IdsAreCounted
<1>11. NamelessIsNew'
  BY <1>0, <1>1, <1>5, <1>6 DEF NamelessIsNew
<1>12. PendingIsAhead'
  <2>1. ASSUME NEW d \in Contracts, pending'[d] # 0
        PROVE  /\ \A k \in Recorded(d) : k < pending'[d]
               /\ EnteredOnce(d) => /\ proposals'[pending'[d]].version > entries[d].version
                                    /\ proposals'[pending'[d]].hash # entries[d].hash
    <3>1. CASE d = c
      <4>1. ASSUME NEW k \in Recorded(c) PROVE k < new
        <5>1. k \in Ids /\ ~(k > prop_count)
          BY <1>0 DEF Recorded, IdsAreCounted
        <5> QED BY <1>2, <1>3, <5>1 DEF new
      <4> QED BY <1>1, <3>1, <4>1
    <3>2. CASE d # c
      <4>1. pending'[d] = pending[d] /\ pending[d] \in Ids /\ pending[d] # new
        BY <1>1, <1>2, <1>4, <2>1, <3>2
      <4>2. proposals'[pending[d]] = proposals[pending[d]]
        BY <1>1, <4>1
      <4> QED BY <1>0, <2>1, <4>1, <4>2 DEF PendingIsAhead
    <3> QED BY <3>1, <3>2
  <2> QED BY <1>1, <1>5, <1>6, <2>1 DEF PendingIsAhead
<1>13. HistoryTellsTheVersion'
  BY <1>0, <1>1, <1>5, <1>6 DEF HistoryTellsTheVersion
<1> QED BY <1>6, <1>7, <1>8, <1>9, <1>10, <1>11, <1>12, <1>13 DEF UInv

LEMMA CancelStep ==
    ASSUME UInv, NEW named \in Accounts, NEW id \in Ids, CancelProposal(named, id)
    PROVE  UInv'
<1> DEFINE c == proposals[id].contract
<1>0. /\ TypeOK /\ PendingIsLive /\ CountIsNames /\ HooksAgree /\ IdsAreCounted
      /\ NamelessIsNew /\ PendingIsAhead /\ HistoryTellsTheVersion
  BY DEF UInv
<1>1. /\ Live(id)
      /\ pending' = [pending EXCEPT ![c] = 0]
      /\ proposals' = [proposals EXCEPT ![id] = NoProposal]
      /\ UNCHANGED <<roles, entries, by_name, reg_count, hooks, prop_count, history>>
  BY DEF CancelProposal, registryVars
<1>2. c \in Contracts /\ pending[c] = id
  BY <1>0, <1>1, StoredTypes, PartsTyped DEF PendingIsLive
<1> HIDE DEF c
<1>3. /\ MaxProposals \in Nat /\ Ids = 1 .. MaxProposals
      /\ pending \in [Contracts -> 0 .. MaxProposals]
  BY <1>0, UpgradeAssumption DEF TypeOK, Ids
<1>4. /\ pending' \in [Contracts -> 0 .. MaxProposals]
      /\ pending'[c] = 0
      /\ \A d \in Contracts : d # c => pending'[d] = pending[d]
  BY <1>1, <1>2, <1>3
<1>5. /\ proposals' \in [Ids -> Proposal \cup {NoProposal}]
      /\ proposals'[id] = NoProposal
      /\ \A k \in Ids : k # id => proposals'[k] = proposals[k]
  BY <1>0, <1>1 DEF TypeOK
<1>6. \A d \in Contracts : pending'[d] # 0 =>
        d # c /\ pending'[d] = pending[d] /\ pending[d] \in Ids /\ pending[d] # id
  <2>1. ASSUME NEW d \in Contracts, pending'[d] # 0
        PROVE  d # c /\ pending'[d] = pending[d] /\ pending[d] \in Ids /\ pending[d] # id
    <3>1. d # c /\ pending'[d] = pending[d] /\ pending[d] \in Ids
      BY <1>3, <1>4, <2>1
    <3>2. proposals[pending[d]].contract = d
      BY <1>0, <2>1, <3>1 DEF PendingIsLive
    <3> QED BY <3>1, <3>2 DEF c
  <2> QED BY <2>1
<1>7. /\ \A d \in Contracts : Registered(d)' <=> Registered(d)
      /\ \A d \in Contracts : Recorded(d)' = Recorded(d)
  BY <1>1 DEF Registered, Recorded
<1>8. /\ CountIsNames'
      /\ \A d \in Contracts : NamesOf(d)' = NamesOf(d) /\ (EnteredOnce(d)' <=> EnteredOnce(d))
  BY <1>0, <1>1, <1>7, SameRegistry
<1>9. TypeOK'
  BY <1>0, <1>1, <1>4, <1>5 DEF TypeOK
<1>10. PendingIsLive'
  <2>1. ASSUME NEW k \in Ids, proposals'[k] # NoProposal, ~proposals'[k].executed
        PROVE  pending'[proposals'[k].contract] = k
    <3>1. k # id /\ proposals'[k] = proposals[k] /\ Live(k)
      BY <1>5, <2>1 DEF Live
    <3>2. pending[proposals[k].contract] = k /\ proposals[k].contract \in Contracts
      BY <1>0, <3>1, StoredTypes, PartsTyped DEF PendingIsLive
    <3> QED BY <1>2, <1>4, <3>1, <3>2
  <2>2. ASSUME NEW d \in Contracts, pending'[d] # 0
        PROVE  /\ proposals'[pending'[d]] # NoProposal
               /\ ~proposals'[pending'[d]].executed
               /\ proposals'[pending'[d]].contract = d
    <3>1. pending'[d] = pending[d] /\ proposals'[pending[d]] = proposals[pending[d]]
      BY <1>5, <1>6, <2>2
    <3> QED BY <1>0, <2>2, <3>1 DEF PendingIsLive, Live
  <2> QED BY <2>1, <2>2 DEF PendingIsLive, Live
<1>11. HooksAgree'
  BY <1>0, <1>1, <1>7, <1>8 DEF HooksAgree
<1>12. IdsAreCounted'
  BY <1>0, <1>1, <1>5 DEF IdsAreCounted
<1>13. NamelessIsNew'
  BY <1>0, <1>1, <1>4, <1>7, <1>8 DEF NamelessIsNew
<1>14. PendingIsAhead'
  <2>1. ASSUME NEW d \in Contracts, pending'[d] # 0
        PROVE  pending'[d] = pending[d] /\ proposals'[pending[d]] = proposals[pending[d]]
    BY <1>5, <1>6, <2>1
  <2> QED BY <1>0, <1>1, <1>7, <1>8, <2>1 DEF PendingIsAhead
<1>15. HistoryTellsTheVersion'
  BY <1>0, <1>1, <1>7, <1>8 DEF HistoryTellsTheVersion
<1> QED BY <1>8, <1>9, <1>10, <1>11, <1>12, <1>13, <1>14, <1>15 DEF UInv

LEMMA ExecuteEffect ==
    ASSUME UInv, NEW caller \in Accounts, NEW id \in Ids,
           NEW pre_ok \in BOOLEAN, NEW post_ok \in BOOLEAN,
           ExecuteUpgrade(caller, id, pre_ok, post_ok)
    PROVE  \E c \in Contracts, p \in Proposal :
              /\ p = proposals[id] /\ c = p.contract /\ Live(id) /\ pending[c] = id
              /\ Registered(c)
              /\ entries' \in [Contracts -> Entry \cup {Unregistered}]
              /\ entries'[c] \in Entry
              /\ entries'[c].version = p.version
              /\ entries'[c].hash = p.hash
              /\ entries'[c].hook = entries[c].hook
              /\ \A d \in Contracts : d # c => entries'[d] = entries[d]
              /\ proposals' \in [Ids -> Proposal \cup {NoProposal}]
              /\ proposals'[id].executed
              /\ \A k \in Ids : k # id => proposals'[k] = proposals[k]
              /\ pending' \in [Contracts -> 0 .. MaxProposals]
              /\ pending'[c] = 0
              /\ \A d \in Contracts : d # c => pending'[d] = pending[d]
              /\ history' \in [Contracts -> [Ids -> Record \cup {NoRecord}]]
              /\ history'[c][id] \in Record
              /\ history'[c][id].old_version = entries[c].version
              /\ history'[c][id].old_hash = entries[c].hash
              /\ history'[c][id].new_version = p.version
              /\ history'[c][id].new_hash = p.hash
              /\ \A k \in Ids : k # id => history'[c][k] = history[c][k]
              /\ \A d \in Contracts : d # c => history'[d] = history[d]
              /\ UNCHANGED <<roles, by_name, reg_count, hooks, prop_count>>
<1> DEFINE p == proposals[id]
           c == p.contract
           r == RecordOf(c, p)
<1>0. TypeOK /\ PendingIsLive /\ UpgradeAssumption
  BY UpgradeAssumption DEF UInv, UpgradeAssumption
<1>1. /\ Live(id) /\ Registered(c)
      /\ entries' = [entries EXCEPT ![c].version = p.version, ![c].hash = p.hash]
      /\ proposals' = [proposals EXCEPT ![id].executed = TRUE]
      /\ pending' = [pending EXCEPT ![c] = 0]
      /\ history' = [history EXCEPT ![c][id] = r]
      /\ UNCHANGED <<roles, by_name, reg_count, hooks, prop_count>>
  BY DEF ExecuteUpgrade
<1>2. p \in Proposal /\ c \in Contracts /\ p.version \in Versions /\ p.hash \in Hashes
  BY <1>0, <1>1, StoredTypes, PartsTyped
<1>3. pending[c] = id
  BY <1>0, <1>1 DEF PendingIsLive
<1>4. entries[c] \in Entry
  BY <1>0, <1>1, <1>2, StoredTypes
<1>5. /\ r \in Record
      /\ r.old_version = entries[c].version /\ r.old_hash = entries[c].hash
      /\ r.new_version = p.version /\ r.new_hash = p.hash
  <2>1. entries[c].version \in Versions /\ entries[c].hash \in Hashes
    BY <1>4, PartsTyped
  <2> HIDE DEF p, c
  <2> QED BY <1>2, <2>1 DEF RecordOf, Record
<1>6. /\ proposals' \in [Ids -> Proposal \cup {NoProposal}]
      /\ proposals'[id].executed
      /\ \A k \in Ids : k # id => proposals'[k] = proposals[k]
  <2>1. [p EXCEPT !.executed = TRUE] \in Proposal /\ [p EXCEPT !.executed = TRUE].executed
    <3> HIDE DEF p
    <3> QED BY <1>2 DEF Proposal
  <2>2. /\ proposals'[id] = [p EXCEPT !.executed = TRUE]
        /\ \A k \in Ids : k # id => proposals'[k] = proposals[k]
        /\ proposals' = [k \in Ids |-> proposals'[k]]
    BY <1>0, <1>1 DEF TypeOK
  <2>3. \A k \in Ids : proposals'[k] \in Proposal \cup {NoProposal}
    BY <1>0, <2>1, <2>2 DEF TypeOK
  <2> QED BY <2>1, <2>2, <2>3
<1>7. /\ entries' \in [Contracts -> Entry \cup {Unregistered}]
      /\ entries'[c] \in Entry
      /\ entries'[c].version = p.version
      /\ entries'[c].hash = p.hash
      /\ entries'[c].hook = entries[c].hook
      /\ \A d \in Contracts : d # c => entries'[d] = entries[d]
  <2> DEFINE e == entries[c]
             v == p.version
             h == p.hash
             f == [[e EXCEPT !.version = v] EXCEPT !.hash = h]
  <2>1. entries' = [entries EXCEPT ![c] = f]
    <3> HIDE DEF v, h, c
    <3> QED BY <1>0, <1>1, <1>2 DEF v, h, c, TypeOK
  <2>2. f \in Entry /\ f.version = v /\ f.hash = h /\ f.hook = e.hook
    <3>1. e \in Entry /\ v \in Versions /\ h \in Hashes
      BY <1>2, <1>4
    <3> HIDE DEF e, v, h
    <3> QED BY <3>1 DEF Entry
  <2> HIDE DEF f, c, p
  <2> QED BY <1>0, <1>2, <2>1, <2>2 DEF TypeOK
<1> HIDE DEF r, p, c
<1>8. /\ pending' \in [Contracts -> 0 .. MaxProposals]
      /\ pending'[c] = 0
      /\ \A d \in Contracts : d # c => pending'[d] = pending[d]
  <2>1. 0 \in 0 .. MaxProposals
    BY <1>0 DEF UpgradeAssumption
  <2> QED BY <1>0, <1>1, <1>2, <2>1 DEF TypeOK
<1>9. /\ history' \in [Contracts -> [Ids -> Record \cup {NoRecord}]]
      /\ history'[c][id] = r
      /\ \A k \in Ids : k # id => history'[c][k] = history[c][k]
      /\ \A d \in Contracts : d # c => history'[d] = history[d]
  <2>1. history[c] \in [Ids -> Record \cup {NoRecord}]
    BY <1>0, <1>2 DEF TypeOK
  <2> DEFINE g == [history[c] EXCEPT ![id] = r]
  <2>2. g \in [Ids -> Record \cup {NoRecord}] /\ g[id] = r /\ \A k \in Ids : k # id => g[k] = history[c][k]
    BY <1>5, <2>1
  <2>3. history' = [history EXCEPT ![c] = g]
    BY <1>1
  <2> HIDE DEF g
  <2> QED BY <1>0, <1>2, <2>2, <2>3 DEF TypeOK
<1>10. p = proposals[id] /\ c = p.contract
  BY DEF p, c
<1>11. /\ history'[c][id] \in Record
       /\ history'[c][id].old_version = entries[c].version
       /\ history'[c][id].old_hash = entries[c].hash
       /\ history'[c][id].new_version = p.version
       /\ history'[c][id].new_hash = p.hash
  BY <1>5, <1>9
<1>12. c \in Contracts /\ p \in Proposal
  BY <1>2
<1> USE <1>12
<1> WITNESS c \in Contracts, p \in Proposal
<1> QED BY <1>1, <1>3, <1>6, <1>7, <1>8, <1>9, <1>10, <1>11

LEMMA ExecuteStep ==
    ASSUME UInv, NEW caller \in Accounts, NEW id \in Ids,
           NEW pre_ok \in BOOLEAN, NEW post_ok \in BOOLEAN,
           ExecuteUpgrade(caller, id, pre_ok, post_ok)
    PROVE  UInv'
<1>0. /\ TypeOK /\ PendingIsLive /\ CountIsNames /\ HooksAgree /\ IdsAreCounted
      /\ NamelessIsNew /\ PendingIsAhead /\ HistoryTellsTheVersion
  BY DEF UInv
<1>1. PICK c \in Contracts, p \in Proposal :
              /\ p = proposals[id] /\ c = p.contract /\ Live(id) /\ pending[c] = id
              /\ Registered(c)
              /\ entries' \in [Contracts -> Entry \cup {Unregistered}]
              /\ entries'[c] \in Entry
              /\ entries'[c].version = p.version
              /\ entries'[c].hash = p.hash
              /\ entries'[c].hook = entries[c].hook
              /\ \A d \in Contracts : d # c => entries'[d] = entries[d]
              /\ proposals' \in [Ids -> Proposal \cup {NoProposal}]
              /\ proposals'[id].executed
              /\ \A k \in Ids : k # id => proposals'[k] = proposals[k]
              /\ pending' \in [Contracts -> 0 .. MaxProposals]
              /\ pending'[c] = 0
              /\ \A d \in Contracts : d # c => pending'[d] = pending[d]
              /\ history' \in [Contracts -> [Ids -> Record \cup {NoRecord}]]
              /\ history'[c][id] \in Record
              /\ history'[c][id].old_version = entries[c].version
              /\ history'[c][id].old_hash = entries[c].hash
              /\ history'[c][id].new_version = p.version
              /\ history'[c][id].new_hash = p.hash
              /\ \A k \in Ids : k # id => history'[c][k] = history[c][k]
              /\ \A d \in Contracts : d # c => history'[d] = history[d]
              /\ UNCHANGED <<roles, by_name, reg_count, hooks, prop_count>>
  BY ExecuteEffect
<1>2. /\ MaxProposals \in Nat /\ Ids = 1 .. MaxProposals
      /\ pending \in [Contracts -> 0 .. MaxProposals]
      /\ prop_count \in 0 .. MaxProposals
      /\ id # 0
  BY <1>0, UpgradeAssumption DEF TypeOK, Ids
<1>3. \A d \in Contracts : Registered(d)' <=> Registered(d)
  BY <1>1, ValuesDiffer DEF Registered
<1>4. /\ CountIsNames'
      /\ \A d \in Contracts : NamesOf(d)' = NamesOf(d) /\ (EnteredOnce(d)' <=> EnteredOnce(d))
  BY <1>0, <1>1, <1>3, SameRegistry
<1>5. /\ Recorded(c)' = Recorded(c) \cup {id}
      /\ \A d \in Contracts : d # c => Recorded(d)' = Recorded(d)
  BY <1>1, ValuesDiffer DEF Recorded
<1>6. \A k \in Recorded(c) : k < id /\ k # id
  <2>1. \A k \in Recorded(c) : k < id /\ k \in Ids
    BY <1>0, <1>1, <1>2 DEF PendingIsAhead, Recorded
  <2> QED BY <1>2, <2>1
<1>7. \A d \in Contracts : d # c /\ pending[d] # 0 =>
          pending[d] \in Ids /\ proposals'[pending[d]] = proposals[pending[d]]
  <2>1. ASSUME NEW d \in Contracts, d # c, pending[d] # 0
        PROVE  pending[d] \in Ids /\ pending[d] # id
    <3>1. pending[d] \in Ids
      BY <1>2, <2>1
    <3>2. proposals[pending[d]].contract = d
      BY <1>0, <2>1 DEF PendingIsLive
    <3> QED BY <1>1, <2>1, <3>1, <3>2
  <2> QED BY <1>1, <2>1
<1>8. TypeOK'
  BY <1>0, <1>1 DEF TypeOK
<1>9. PendingIsLive'
  <2>1. ASSUME NEW k \in Ids, proposals'[k] # NoProposal, ~proposals'[k].executed
        PROVE  pending'[proposals'[k].contract] = k
    <3>1. k # id /\ proposals'[k] = proposals[k] /\ Live(k)
      BY <1>1, <2>1 DEF Live
    <3>2. pending[proposals[k].contract] = k /\ proposals[k].contract \in Contracts
      BY <1>0, <3>1, StoredTypes, PartsTyped DEF PendingIsLive
    <3> QED BY <1>1, <3>1, <3>2
  <2>2. ASSUME NEW d \in Contracts, pending'[d] # 0
        PROVE  /\ proposals'[pending'[d]] # NoProposal
               /\ ~proposals'[pending'[d]].executed
               /\ proposals'[pending'[d]].contract = d
    <3>1. d # c /\ pending'[d] = pending[d]
      BY <1>1, <2>2
    <3>2. proposals'[pending[d]] = proposals[pending[d]]
      BY <1>7, <2>2, <3>1
    <3> QED BY <1>0, <2>2, <3>1, <3>2 DEF PendingIsLive, Live
  <2> QED BY <2>1, <2>2 DEF PendingIsLive, Live
<1>10. HooksAgree'
  BY <1>0, <1>1, <1>3, <1>4 DEF HooksAgree
<1>11. IdsAreCounted'
  <2>1. ~(id > prop_count)
    BY <1>0, <1>1 DEF IdsAreCounted, Live
  <2>2. ASSUME NEW k \in Ids, k > prop_count
        PROVE  proposals'[k] = NoProposal /\ \A d \in Contracts : history'[d][k] = NoRecord
    <3>1. k # id
      BY <2>1, <2>2
    <3>2. \A d \in Contracts : history'[d][k] = history[d][k]
      BY <1>1, <3>1
    <3> QED BY <1>0, <1>1, <2>2, <3>1, <3>2 DEF IdsAreCounted
  <2> QED BY <1>1, <2>2 DEF IdsAreCounted
<1>12. NamelessIsNew'
  <2>1. \A d \in Contracts : ~Registered(d) => d # c
    BY <1>1
  <2> QED BY <1>0, <1>1, <1>3, <1>4, <1>5, <2>1 DEF NamelessIsNew
<1>13. PendingIsAhead'
  <2>1. ASSUME NEW d \in Contracts, pending'[d] # 0
        PROVE  /\ d # c /\ pending'[d] = pending[d] /\ entries'[d] = entries[d]
               /\ proposals'[pending[d]] = proposals[pending[d]]
    BY <1>1, <1>7, <2>1
  <2> QED BY <1>0, <1>4, <1>5, <2>1 DEF PendingIsAhead
<1>14. HistoryTellsTheVersion'
  <2>1. ASSUME NEW d \in Contracts, d # c
        PROVE  /\ entries'[d] = entries[d] /\ history'[d] = history[d]
               /\ Recorded(d)' = Recorded(d)
    BY <1>1, <1>5, <2>1
  <2>2. ASSUME EnteredOnce(c)
        PROVE  /\ \A i \in Recorded(c)' : history'[c][i].new_version > history'[c][i].old_version
               /\ \A i, j \in Recorded(c)' :
                     i < j /\ (\A k \in Recorded(c)' : k <= i \/ k >= j) =>
                         /\ history'[c][j].old_version = history'[c][i].new_version
                         /\ history'[c][j].old_hash = history'[c][i].new_hash
               /\ \A i \in Recorded(c)' : (\A k \in Recorded(c)' : k <= i) =>
                     /\ entries'[c].version = history'[c][i].new_version
                     /\ entries'[c].hash = history'[c][i].new_hash
    <3>1. \A k \in Recorded(c) : k \in Ids /\ history'[c][k] = history[c][k]
      BY <1>1, <1>6 DEF Recorded
    <3>2. p.version > entries[c].version
      BY <1>0, <1>1, <1>2, <2>2 DEF PendingIsAhead
    <3>3. \A i \in Recorded(c)' : history'[c][i].new_version > history'[c][i].old_version
      BY <1>0, <1>1, <1>5, <2>2, <3>1, <3>2 DEF HistoryTellsTheVersion
    <3>4. ASSUME NEW i \in Recorded(c)', NEW j \in Recorded(c)', i < j,
                 \A k \in Recorded(c)' : k <= i \/ k >= j
          PROVE  /\ history'[c][j].old_version = history'[c][i].new_version
                 /\ history'[c][j].old_hash = history'[c][i].new_hash
      <4>1. i \in Recorded(c) /\ i \in Ids
        <5>1. ASSUME i = id PROVE FALSE
          <6>1. j = id \/ j < id
            BY <1>5, <1>6, <3>4
          <6> QED BY <1>2, <3>4, <5>1, <6>1
        <5> QED BY <1>5, <3>1, <3>4, <5>1
      <4>2. CASE j = id
        <5>1. \A k \in Recorded(c) : k <= i
          BY <1>2, <1>5, <1>6, <3>1, <3>4, <4>2
        <5>2. /\ entries[c].version = history[c][i].new_version
              /\ entries[c].hash = history[c][i].new_hash
          BY <1>0, <2>2, <4>1, <5>1 DEF HistoryTellsTheVersion
        <5> QED BY <1>1, <3>1, <4>1, <4>2, <5>2
      <4>3. CASE j # id
        <5>1. j \in Recorded(c) /\ \A k \in Recorded(c) : k <= i \/ k >= j
          BY <1>5, <3>4, <4>3
        <5>2. /\ history[c][j].old_version = history[c][i].new_version
              /\ history[c][j].old_hash = history[c][i].new_hash
          BY <1>0, <2>2, <3>4, <4>1, <5>1 DEF HistoryTellsTheVersion
        <5> QED BY <3>1, <4>1, <5>1, <5>2
      <4> QED BY <4>2, <4>3
    <3>5. ASSUME NEW i \in Recorded(c)', \A k \in Recorded(c)' : k <= i
          PROVE  /\ entries'[c].version = history'[c][i].new_version
                 /\ entries'[c].hash = history'[c][i].new_hash
      <4>1. i = id
        <5>1. id <= i
          BY <1>5, <3>5
        <5>2. i = id \/ i \in Recorded(c)
          BY <1>5, <3>5
        <5> QED BY <1>2, <1>6, <3>1, <5>1, <5>2
      <4> QED BY <1>1, <4>1
    <3> QED BY <3>3, <3>4, <3>5
  <2> QED BY <1>0, <1>4, <2>1, <2>2 DEF HistoryTellsTheVersion
<1> QED BY <1>4, <1>8, <1>9, <1>10, <1>11, <1>12, <1>13, <1>14 DEF UInv

\* Granting roles to one more admin.
LEMMA InitializeStep ==
    ASSUME UInv, roles' \subseteq Accounts \X {"Admin", "Upgrader"},
           UNCHANGED <<registryVars, proposalVars>>
    PROVE  UInv'
<1>1. UNCHANGED <<entries, by_name, reg_count, hooks, prop_count, proposals, pending, history>>
  BY DEF registryVars, proposalVars
<1>2. TypeOK'
  BY <1>1 DEF UInv, TypeOK
<1>3. /\ \A c \in Contracts : /\ Registered(c)' <=> Registered(c)
                              /\ Recorded(c)' = Recorded(c)
                              /\ NamesOf(c)' = NamesOf(c)
                              /\ EnteredOnce(c)' <=> EnteredOnce(c)
      /\ \A id \in Ids : Live(id)' <=> Live(id)
  BY <1>1 DEF Registered, Recorded, NamesOf, EnteredOnce, Live
<1>4. PendingIsLive' /\ CountIsNames'
  BY <1>1 DEF UInv, PendingIsLive, CountIsNames, Live
<1>5. HooksAgree' /\ IdsAreCounted' /\ NamelessIsNew'
  BY <1>1, <1>3 DEF UInv, HooksAgree, IdsAreCounted, NamelessIsNew
<1>6. PendingIsAhead' /\ HistoryTellsTheVersion'
  BY <1>1, <1>3 DEF UInv, PendingIsAhead, HistoryTellsTheVersion
<1> QED BY <1>2, <1>4, <1>5, <1>6 DEF UInv

-----------------------------------------------------------------------------
(* The theorems.                                                           *)

LEMMA UInvStep ==
    ASSUME UInv, [Next]_vars
    PROVE  UInv'
<1>1. ASSUME NEW admin \in Accounts, Initialize(admin) PROVE UInv'
  <2>1. roles' \subseteq Accounts \X {"Admin", "Upgrader"}
    BY <1>1 DEF UInv, TypeOK, Initialize
  <2> QED BY <1>1, <2>1, InitializeStep DEF Initialize
<1>2. CASE UNCHANGED vars
  <2>1. roles' \subseteq Accounts \X {"Admin", "Upgrader"}
    BY <1>2 DEF UInv, TypeOK, vars
  <2>2. UNCHANGED <<registryVars, proposalVars>>
    BY <1>2 DEF vars, registryVars, proposalVars
  <2> QED BY <2>1, <2>2, InitializeStep
<1> QED BY <1>1, <1>2, RegisterStep, SetHookStep, ProposeStep, ExecuteStep, CancelStep DEF Next

LEMMA UInvAlways == Spec => []UInv
<1>1. Init => UInv
  BY InitInv
<1>2. UInv /\ [Next]_vars => UInv'
  BY UInvStep
<1> QED BY <1>1, <1>2, PTL DEF Spec

\* The upgrade registry's state is typed, whatever the order of its calls.
THEOREM UpgradesTyped == Spec => []TypeOK
<1>1. UInv => TypeOK
  BY DEF UInv
<1> QED BY <1>1, UInvAlways, PTL

\* What the upgrade registry stores twice agrees in every state.
THEOREM CopiesAlwaysAgree == Spec => []CopiesAgree
<1>1. UInv => CopiesAgree
  BY DEF UInv, PendingIsLive, CountIsNames, HooksAgree, CopiesAgree
<1> QED BY <1>1, UInvAlways, PTL

\* No hash is authorised that the registry already has, or for a version
\* that is not higher, as long as contracts are entered once.
THEOREM AuthorizationIsAhead == Spec => []AuthorizedIsAhead
<1>1. UInv => AuthorizedIsAhead
  BY DEF UInv, PendingIsAhead, AuthorizedIsAhead, VerifyUpgradeAuthorization
<1> QED BY <1>1, UInvAlways, PTL

\* The history of a contract that was entered once is a chain of upgrades
\* that ends in what the registry has.
THEOREM HistoryIsAChain == Spec => []HistoryTellsTheVersion
<1>1. UInv => HistoryTellsTheVersion
  BY DEF UInv
<1> QED BY <1>1, UInvAlways, PTL

\* Nobody who asks verify_upgrade_authorization for what execute_upgrade last
\* recorded of a contract is authorised, whatever was registered, proposed,
\* executed or cancelled before: the target's own upgrade cannot follow the
\* execution, as UPGRADEABILITY.md (sections 3 and 4) has it.
THEOREM TargetCannotFollowExecution == Spec => []ExecutedIsRefused
<1>1. TypeOK /\ AuthorizedIsAhead /\ HistoryTellsTheVersion => ExecutedIsRefused
  <2> SUFFICES ASSUME TypeOK, AuthorizedIsAhead, HistoryTellsTheVersion,
                      NEW c \in Contracts, NEW caller \in Accounts, NEW id \in Ids,
                      EnteredOnce(c), id \in Recorded(c), \A k \in Recorded(c) : k <= id,
                      VerifyUpgradeAuthorization(c, caller, history[c][id].new_hash)
               PROVE  FALSE
    BY DEF ExecutedIsRefused
  <2>1. entries[c].hash = history[c][id].new_hash
    BY DEF HistoryTellsTheVersion
  <2>2. history[c][id].new_hash \in Hashes
    BY DEF TypeOK, Recorded, Record
  <2> QED BY <2>1, <2>2 DEF AuthorizedIsAhead
<1> QED BY <1>1, UpgradesTyped, AuthorizationIsAhead, HistoryIsAChain, PTL

-----------------------------------------------------------------------------
(* What off-chain readers are told.                                        *)

\* The loop does what its recursion says, for every id and every limit.
LEMMA WalkUnfolds ==
    ASSUME TypeOK, NEW c \in Contracts, NEW pid \in 0 .. MaxProposals, NEW max \in 0 .. MaxResults
    PROVE  /\ walk_back(c)[pid][max] \in Seq(Record)
           /\ walk_back(c)[pid][max] =
                IF pid = 0 \/ max = 0 THEN << >>
                ELSE IF history[c][pid] = NoRecord THEN walk_back(c)[pid - 1][max]
                ELSE <<history[c][pid]>> \o walk_back(c)[pid - 1][max - 1]
<1> DEFINE S == [0 .. MaxResults -> Seq(Record)]
           Row(prev, k) == [m \in 0 .. MaxResults |->
                              IF k = 0 \/ m = 0 THEN << >>
                              ELSE IF history[c][k] = NoRecord THEN prev[m]
                              ELSE <<history[c][k]>> \o prev[m - 1]]
           base == [m \in 0 .. MaxResults |-> << >>]
           step == [p \in (1 .. MaxProposals) \X S |-> Row(p[2], p[1])]
           IsIt(g) == g = [k \in 0 .. MaxProposals |->
                             [m \in 0 .. MaxResults |->
                                IF k = 0 \/ m = 0 THEN << >>
                                ELSE IF history[c][k] = NoRecord THEN g[k - 1][m]
                                ELSE <<history[c][k]>> \o g[k - 1][m - 1]]]
           it == CHOOSE g : IsIt(g)
<1>1. MaxProposals \in Nat /\ MaxResults \in Nat
  BY UpgradeAssumption DEF MaxResults
<1>2. \A k \in 1 .. MaxProposals : history[c][k] \in Record \cup {NoRecord}
  BY DEF TypeOK, Ids
<1>3. ASSUME NEW k \in 1 .. MaxProposals, NEW prev \in S PROVE Row(prev, k) \in S
  <2>1. ASSUME NEW m \in 0 .. MaxResults, m # 0, history[c][k] # NoRecord
        PROVE  <<history[c][k]>> \o prev[m - 1] \in Seq(Record)
    <3>1. m - 1 \in 0 .. MaxResults
      BY <1>1, <2>1
    <3>2. history[c][k] \in Record /\ prev[m - 1] \in Seq(Record)
      BY <1>2, <2>1, <3>1
    <3> DEFINE s == prev[m - 1]
               a == history[c][k]
    <3> HIDE DEF s, a
    <3>3. a \in Record /\ s \in Seq(Record) => <<a>> \o s \in Seq(Record)
      OBVIOUS
    <3> QED BY <3>2, <3>3 DEF s, a
  <2>2. << >> \in Seq(Record)
    OBVIOUS
  <2>3. \A m \in 0 .. MaxResults : prev[m] \in Seq(Record)
    OBVIOUS
  <2> QED BY <2>1, <2>2, <2>3
<1>4. base \in S /\ step \in [(1 .. MaxProposals) \X S -> S]
  <2>1. base \in S
    OBVIOUS
  <2> HIDE DEF S, Row
  <2> QED BY <1>3, <2>1
<1>5. PICK g : Iterates(g, MaxProposals, S, base, step)
  <2> HIDE DEF S, base, step
  <2> QED BY ONLY <1>1, <1>4, IterationExists
<1>6. ASSUME NEW k \in 0 .. MaxProposals PROVE g[k] = Row(g[k - 1], k)
  <2>1. CASE k = 0
    BY <1>5, <2>1 DEF Iterates
  <2>2. CASE k # 0
    <3>1. k \in 1 .. MaxProposals /\ k - 1 \in 0 .. MaxProposals
      BY <1>1, <2>2
    <3>2. <<k, g[k - 1]>> \in (1 .. MaxProposals) \X S
      <4> HIDE DEF S
      <4> QED BY <1>5, <3>1 DEF Iterates
    <3> HIDE DEF S, Row
    <3>3. step[<<k, g[k - 1]>>] = Row(g[k - 1], k)
      BY <3>2
    <3> HIDE DEF step
    <3> QED BY <1>5, <3>1, <3>3 DEF Iterates
  <2> QED BY <2>1, <2>2
<1>7. IsIt(g)
  <2>1. g = [k \in 0 .. MaxProposals |-> g[k]]
    <3> HIDE DEF S
    <3> QED BY <1>5 DEF Iterates
  <2> HIDE DEF S
  <2> QED BY <1>6, <2>1
<1>8. IsIt(it)
  <2> HIDE DEF IsIt
  <2> QED BY <1>7
<1>9. walk_back(c) = it
  BY DEF walk_back
<1>10. \A k \in 0 .. MaxProposals : it[k] = Row(it[k - 1], k)
  <2> HIDE DEF it
  <2> QED BY <1>8
<1> HIDE DEF it, IsIt
<1>11. \A k \in 0 .. MaxProposals : it[k] = g[k]
  <2> DEFINE Bad == {k \in 0 .. MaxProposals : it[k] # g[k]}
  <2> SUFFICES ASSUME Bad # {} PROVE FALSE
    OBVIOUS
  <2>1. PICK k \in Bad : \A j \in Bad : k <= j
    <3>1. Bad \in SUBSET Nat
      OBVIOUS
    <3> HIDE DEF Bad
    <3> QED BY <3>1, LeastExists
  <2>2. k \in 0 .. MaxProposals /\ it[k] # g[k]
    BY <2>1
  <2>3. k # 0 => it[k - 1] = g[k - 1]
    <3>1. ASSUME k # 0 PROVE k - 1 \in 0 .. MaxProposals /\ ~(k <= k - 1)
      BY <1>1, <2>2, <3>1
    <3>2. \A j \in 0 .. MaxProposals : j \notin Bad => it[j] = g[j]
      OBVIOUS
    <3> HIDE DEF Bad
    <3> QED BY <2>1, <3>1, <3>2
  <2>4. Row(it[k - 1], k) = Row(g[k - 1], k)
    <3>1. CASE k = 0
      BY <3>1
    <3>2. CASE it[k - 1] = g[k - 1]
      BY <3>2
    <3> QED BY <2>3, <3>1, <3>2
  <2>5. it[k] = Row(it[k - 1], k) /\ g[k] = Row(g[k - 1], k)
    BY <1>6, <1>10, <2>2
  <2> HIDE DEF Row
  <2> QED BY <2>2, <2>4, <2>5
<1>12. it[pid][max] \in Seq(Record)
  <2>1. g[pid] \in S
    BY <1>5 DEF Iterates
  <2> QED BY <1>11, <2>1
<1>13. it[pid][max] = IF pid = 0 \/ max = 0 THEN << >>
                      ELSE IF history[c][pid] = NoRecord THEN it[pid - 1][max]
                      ELSE <<history[c][pid]>> \o it[pid - 1][max - 1]
  BY ONLY <1>10, pid \in 0 .. MaxProposals, max \in 0 .. MaxResults
<1> QED BY <1>9, <1>12, <1>13

\* The records of a contract up to an id.
RecordedTo(c, pid) == {id \in Recorded(c) : id <= pid}

\* What a reader has been told of the records up to an id: as many as there are
\* or were asked for, the newest of them first, each from where the next one
\* led, and the beginning of what a larger limit gives.
ToldRight(c, pid, max) ==
    LET told == walk_back(c)[pid][max]
        n    == Cardinality(RecordedTo(c, pid))
    IN  /\ Len(told) = IF n < max THEN n ELSE max
        /\ \A id \in RecordedTo(c, pid) :
              (\A k \in RecordedTo(c, pid) : k <= id) /\ max > 0 => told[1] = history[c][id]
        /\ \A k \in 1 .. Len(told) - 1 : told[k].old_version = told[k + 1].new_version
        /\ \A m \in max .. MaxResults :
              LET more == walk_back(c)[pid][m]
              IN  Len(told) <= Len(more) /\ \A k \in 1 .. Len(told) : told[k] = more[k]

\* The records up to an id are finitely many, and the last one joins those before.
LEMMA RecordedOneMore ==
    ASSUME TypeOK, NEW c \in Contracts, NEW pid \in Ids
    PROVE  /\ IsFiniteSet(RecordedTo(c, pid - 1)) /\ IsFiniteSet(RecordedTo(c, pid))
           /\ Cardinality(RecordedTo(c, pid - 1)) \in Nat
           /\ history[c][pid] = NoRecord => RecordedTo(c, pid) = RecordedTo(c, pid - 1)
           /\ history[c][pid] # NoRecord =>
                /\ RecordedTo(c, pid) = RecordedTo(c, pid - 1) \cup {pid}
                /\ Cardinality(RecordedTo(c, pid)) = Cardinality(RecordedTo(c, pid - 1)) + 1
<1> DEFINE before == RecordedTo(c, pid - 1)
<1>1. MaxProposals \in Nat /\ IsFiniteSet(Ids) /\ Ids \subseteq Nat
  BY UpgradeAssumption, FS_Interval DEF Ids
<1>2. Recorded(c) \subseteq Ids
  BY DEF Recorded
<1>3. IsFiniteSet(before) /\ IsFiniteSet(RecordedTo(c, pid)) /\ Cardinality(before) \in Nat
  <2>1. before \subseteq Ids /\ RecordedTo(c, pid) \subseteq Ids
    BY <1>2 DEF RecordedTo
  <2> HIDE DEF before
  <2> QED BY <1>1, <2>1, FS_Subset, FS_CardinalityType
<1>4. ASSUME NEW id \in Recorded(c) PROVE id <= pid <=> id <= pid - 1 \/ id = pid
  <2>1. id \in Nat /\ pid \in Nat
    BY <1>1, <1>2
  <2> QED BY ONLY <2>1
<1>5. pid \notin before
  BY <1>1 DEF RecordedTo
<1>6. pid \in Recorded(c) <=> history[c][pid] # NoRecord
  BY DEF Recorded
<1>7. RecordedTo(c, pid) = IF pid \in Recorded(c) THEN before \cup {pid} ELSE before
  BY <1>4 DEF RecordedTo
<1>8. Cardinality(before \cup {pid}) = Cardinality(before) + 1
  <2> HIDE DEF before
  <2> QED BY <1>3, <1>5, FS_AddElement
<1> HIDE DEF before
<1> QED BY <1>3, <1>6, <1>7, <1>8 DEF before

\* A set of records that is not empty has a last one.
LEMMA LastRecorded ==
    ASSUME NEW S \in SUBSET Ids, S # {}
    PROVE  \E last \in S : \A k \in S : k <= last
<1> DEFINE Left == {MaxProposals - k : k \in S}
<1>1. MaxProposals \in Nat /\ \A k \in S : k \in Int /\ 1 <= k /\ k <= MaxProposals
  BY UpgradeAssumption DEF Ids
<1>2. Left \in SUBSET Nat /\ Left # {}
  BY <1>1
<1>3. PICK m \in Left : \A j \in Left : m <= j
  <2> HIDE DEF Left
  <2> QED BY <1>2, LeastExists
<1>4. PICK last \in S : m = MaxProposals - last
  BY <1>3
<1>5. ASSUME NEW k \in S PROVE k <= last
  <2>1. MaxProposals - last <= MaxProposals - k
    BY <1>3, <1>4
  <2> QED BY <1>1, <2>1
<1> QED BY <1>5

\* One id more.
LEMMA ToldOneMore ==
    ASSUME TypeOK, HistoryTellsTheVersion, NEW c \in Contracts, EnteredOnce(c),
           NEW pid \in Ids, \A max \in 0 .. MaxResults : ToldRight(c, pid - 1, max),
           NEW max \in 0 .. MaxResults
    PROVE  ToldRight(c, pid, max)
<1> DEFINE t == walk_back(c)[pid][max]
           n == Cardinality(RecordedTo(c, pid - 1))
<1>1. /\ MaxProposals \in Nat /\ MaxResults \in Nat /\ pid \in Nat
      /\ pid \in 0 .. MaxProposals /\ pid - 1 \in 0 .. MaxProposals /\ pid # 0
  BY UpgradeAssumption DEF Ids, MaxResults
<1>2. n \in Nat
  BY RecordedOneMore
<1>3. CASE history[c][pid] = NoRecord
  <2>1. RecordedTo(c, pid) = RecordedTo(c, pid - 1)
    BY <1>3, RecordedOneMore
  <2>2. ASSUME NEW m \in 0 .. MaxResults PROVE walk_back(c)[pid][m] = walk_back(c)[pid - 1][m]
    <3>1. walk_back(c)[pid][m] = IF m = 0 THEN << >> ELSE walk_back(c)[pid - 1][m]
      BY <1>1, <1>3, WalkUnfolds
    <3>2. m = 0 => walk_back(c)[pid - 1][m] = << >>
      BY <1>1, WalkUnfolds
    <3> QED BY <3>1, <3>2
  <2>3. \A m \in max .. MaxResults : m \in 0 .. MaxResults
    BY <1>1
  <2>4. ToldRight(c, pid - 1, max)
    OBVIOUS
  <2> DEFINE b == walk_back(c)[pid - 1]
             a == walk_back(c)[pid]
             R == RecordedTo(c, pid - 1)
  <2>5. /\ Len(b[max]) = IF Cardinality(R) < max THEN Cardinality(R) ELSE max
        /\ \A id \in R : (\A k \in R : k <= id) /\ max > 0 => b[max][1] = history[c][id]
        /\ \A k \in 1 .. Len(b[max]) - 1 : b[max][k].old_version = b[max][k + 1].new_version
        /\ \A m \in max .. MaxResults :
              Len(b[max]) <= Len(b[m]) /\ \A k \in 1 .. Len(b[max]) : b[max][k] = b[m][k]
    BY <2>4 DEF ToldRight
  <2>6. a[max] = b[max] /\ \A m \in max .. MaxResults : a[m] = b[m]
    BY <2>2, <2>3
  <2>7. ToldRight(c, pid, max) <=>
          /\ Len(a[max]) = IF Cardinality(R) < max THEN Cardinality(R) ELSE max
          /\ \A id \in R : (\A k \in R : k <= id) /\ max > 0 => a[max][1] = history[c][id]
          /\ \A k \in 1 .. Len(a[max]) - 1 : a[max][k].old_version = a[max][k + 1].new_version
          /\ \A m \in max .. MaxResults :
                Len(a[max]) <= Len(a[m]) /\ \A k \in 1 .. Len(a[max]) : a[max][k] = a[m][k]
    BY <2>1 DEF ToldRight
  <2> HIDE DEF a, b, R
  <2>8. \A m \in max .. MaxResults : Len(a[max]) <= Len(a[m]) /\ \A k \in 1 .. Len(a[max]) : a[max][k] = a[m][k]
    BY ONLY <2>5, <2>6
  <2> QED BY ONLY <2>5, <2>6, <2>7, <2>8
<1>4. CASE history[c][pid] # NoRecord /\ max = 0
  <2>1. t = << >>
    BY <1>1, <1>4, WalkUnfolds
  <2>2. Cardinality(RecordedTo(c, pid)) \in Nat
    BY RecordedOneMore, FS_CardinalityType
  <2>3. ASSUME NEW m \in 0 .. MaxResults PROVE 0 <= Len(walk_back(c)[pid][m])
    <3>1. walk_back(c)[pid][m] \in Seq(Record)
      BY <1>1, WalkUnfolds
    <3> QED BY <3>1
  <2>4. \A m \in max .. MaxResults : m \in 0 .. MaxResults
    BY <1>1
  <2> HIDE DEF t
  <2>5. Len(t) = 0
    BY <2>1
  <2> QED BY <1>4, <2>2, <2>3, <2>4, <2>5 DEF ToldRight, t
<1>5. CASE history[c][pid] # NoRecord /\ max # 0
  <2> DEFINE r == history[c][pid]
             s == walk_back(c)[pid - 1][max - 1]
  <2>1. r \in Record
    BY <1>5 DEF TypeOK
  <2>2. max - 1 \in 0 .. MaxResults
    BY <1>1, <1>5
  <2>3. s \in Seq(Record) /\ t = <<r>> \o s
    BY <1>1, <1>5, <2>2, WalkUnfolds
  <2>4. ToldRight(c, pid - 1, max - 1)
    BY <2>2
  <2>5. Cardinality(RecordedTo(c, pid)) = n + 1 /\ RecordedTo(c, pid) = RecordedTo(c, pid - 1) \cup {pid}
    BY <1>5, RecordedOneMore
  <2> HIDE DEF t, s, r, n
  <2>6. Len(t) = Len(s) + 1 /\ t[1] = r /\ Len(s) \in Nat /\ \A k \in 1 .. Len(s) : t[k + 1] = s[k]
    BY <2>1, <2>3
  <2>7. Len(s) = IF n < max - 1 THEN n ELSE max - 1
    BY <2>4 DEF ToldRight, s, n
  <2>8. Len(t) = IF n + 1 < max THEN n + 1 ELSE max
    BY <1>1, <1>2, <2>6, <2>7
  <2>9. ASSUME NEW id \in RecordedTo(c, pid), \A k \in RecordedTo(c, pid) : k <= id
        PROVE  t[1] = history[c][id]
    <3>1. pid <= id /\ id <= pid /\ id \in Int
      BY <1>1, <2>5, <2>9 DEF RecordedTo, Recorded, Ids
    <3>2. id = pid
      BY <1>1, <3>1
    <3> QED BY <2>6, <3>2 DEF r
  <2>10. ASSUME Len(s) > 0 PROVE r.old_version = s[1].new_version
    <3>1. n > 0 /\ max - 1 > 0
      BY <1>1, <1>2, <2>2, <2>6, <2>7, <2>10
    <3>2. RecordedTo(c, pid - 1) # {}
      BY <3>1, FS_EmptySet DEF n
    <3>3. RecordedTo(c, pid - 1) \in SUBSET Ids
      BY DEF RecordedTo, Recorded
    <3>4. PICK j \in RecordedTo(c, pid - 1) : \A k \in RecordedTo(c, pid - 1) : k <= j
      BY <3>2, <3>3, LastRecorded
    <3>5. s[1] = history[c][j]
      BY <2>4, <3>1, <3>4 DEF ToldRight, s
    <3>6. j \in Recorded(c) /\ pid \in Recorded(c) /\ j < pid
      BY <1>1, <1>5, <3>4 DEF RecordedTo, Recorded, Ids
    <3>7. ASSUME NEW k \in Recorded(c) PROVE k <= j \/ k >= pid
      <4>1. k \in Int
        BY DEF Recorded, Ids
      <4>2. k <= pid - 1 => k <= j
        BY <3>4 DEF RecordedTo
      <4> QED BY <1>1, <4>1, <4>2
    <3>8. history[c][pid].old_version = history[c][j].new_version
      BY <3>6, <3>7 DEF HistoryTellsTheVersion
    <3> QED BY <3>5, <3>8 DEF r
  <2>11. ASSUME NEW k \in 1 .. Len(t) - 1 PROVE t[k].old_version = t[k + 1].new_version
    <3>1. k \in 1 .. Len(s) /\ t[k + 1] = s[k]
      BY <2>6
    <3>2. CASE k = 1
      BY <2>6, <2>10, <3>1, <3>2
    <3>3. CASE k # 1
      <4>1. k - 1 \in 1 .. Len(s) - 1 /\ k - 1 \in 1 .. Len(s) /\ (k - 1) + 1 = k
        BY <2>6, <3>1, <3>3
      <4>2. s[k - 1].old_version = s[k].new_version
        <5>1. \A i \in 1 .. Len(s) - 1 : s[i].old_version = s[i + 1].new_version
          BY <2>4 DEF ToldRight, s
        <5> QED BY <4>1, <5>1
      <4>3. t[k] = s[k - 1]
        BY <2>6, <4>1
      <4> QED BY <3>1, <4>2, <4>3
    <3> QED BY <3>2, <3>3
  <2>12. ASSUME NEW m \in max .. MaxResults
         PROVE  LET more == walk_back(c)[pid][m]
                IN  Len(t) <= Len(more) /\ \A k \in 1 .. Len(t) : t[k] = more[k]
    <3> DEFINE more == walk_back(c)[pid][m]
               u == walk_back(c)[pid - 1][m - 1]
    <3>1. m \in 0 .. MaxResults /\ m # 0 /\ m - 1 \in 0 .. MaxResults /\ m - 1 \in max - 1 .. MaxResults
      BY <1>1, <1>5
    <3>2. u \in Seq(Record) /\ more = <<r>> \o u
      BY <1>1, <1>5, <3>1, WalkUnfolds DEF r
    <3>3. Len(s) <= Len(u) /\ \A k \in 1 .. Len(s) : s[k] = u[k]
      BY <2>4, <3>1 DEF ToldRight, s
    <3> HIDE DEF more, u
    <3>4. Len(more) = Len(u) + 1 /\ more[1] = r /\ Len(u) \in Nat /\ \A k \in 1 .. Len(u) : more[k + 1] = u[k]
      BY <2>1, <3>2
    <3>5. ASSUME NEW k \in 1 .. Len(t) PROVE t[k] = more[k]
      <4>1. CASE k = 1
        BY <2>6, <3>4, <4>1
      <4>2. CASE k # 1
        <5>1. k - 1 \in 1 .. Len(s) /\ k - 1 \in 1 .. Len(u) /\ (k - 1) + 1 = k
          BY <2>6, <3>3, <3>4, <4>2
        <5> QED BY <2>6, <3>3, <3>4, <5>1
      <4> QED BY <4>1, <4>2
    <3>6. Len(t) <= Len(more)
      BY <2>6, <3>3, <3>4
    <3> QED BY <3>5, <3>6 DEF more
  <2> QED BY <2>5, <2>8, <2>9, <2>11, <2>12 DEF ToldRight, t
<1> QED BY <1>3, <1>4, <1>5

\* All ids.
LEMMA AlwaysToldRight ==
    ASSUME TypeOK, HistoryTellsTheVersion, NEW c \in Contracts, EnteredOnce(c),
           NEW pid \in 0 .. MaxProposals, NEW max \in 0 .. MaxResults
    PROVE  ToldRight(c, pid, max)
<1> DEFINE Right(p) == \A m \in 0 .. MaxResults : ToldRight(c, p, m)
           Bad == {p \in 0 .. MaxProposals : ~Right(p)}
<1>1. MaxProposals \in Nat /\ MaxResults \in Nat
  BY UpgradeAssumption DEF MaxResults
<1>2. Right(0)
  <2> SUFFICES ASSUME NEW m \in 0 .. MaxResults PROVE ToldRight(c, 0, m)
    OBVIOUS
  <2>1. RecordedTo(c, 0) = {}
    BY <1>1 DEF RecordedTo, Recorded, Ids
  <2>2. Cardinality(RecordedTo(c, 0)) = 0
    BY <2>1, FS_EmptySet
  <2>3. \A k \in m .. MaxResults : k \in 0 .. MaxResults
    BY <1>1
  <2>4. 0 \in 0 .. MaxProposals
    BY <1>1
  <2>5. \A k \in 0 .. MaxResults : walk_back(c)[0][k] = << >>
    BY <2>4, WalkUnfolds
  <2>6. Len(walk_back(c)[0][m]) = 0
    BY <2>5
  <2>7. \A k \in m .. MaxResults : Len(walk_back(c)[0][k]) = 0
    BY <2>3, <2>5
  <2> QED BY <1>1, <2>1, <2>2, <2>6, <2>7 DEF ToldRight
<1>3. Bad = {}
  <2> SUFFICES ASSUME Bad # {} PROVE FALSE
    OBVIOUS
  <2>1. PICK p \in Bad : \A j \in Bad : p <= j
    <3>1. Bad \in SUBSET Nat
      BY <1>1
    <3> HIDE DEF Bad
    <3> QED BY <3>1, LeastExists
  <2>2. p \in 0 .. MaxProposals /\ ~Right(p)
    BY <2>1
  <2>3. p # 0
    BY <1>2, <2>2
  <2>4. p \in Ids /\ p - 1 \in 0 .. MaxProposals /\ ~(p <= p - 1)
    BY <1>1, <2>2, <2>3 DEF Ids
  <2>5. Right(p - 1)
    <3>1. p - 1 \notin Bad
      <4> HIDE DEF Bad
      <4> QED BY <2>1, <2>4
    <3> HIDE DEF Right
    <3> QED BY <2>4, <3>1
  <2>6. Right(p)
    BY <2>4, <2>5, ToldOneMore
  <2> QED BY <2>2, <2>6
<1> QED BY <1>3

\* What readers are told of a contract that was entered once.
LEMMA AnswerIsRight ==
    ASSUME UInv, NEW c \in Contracts, Registered(c), EnteredOnce(c), NEW max \in 0 .. MaxResults
    PROVE  LET told == get_upgrade_history(c, max)
               n    == Cardinality(Recorded(c))
           IN  /\ Len(told) = IF n < max THEN n ELSE max
               /\ IsPrefix(told, get_upgrade_history(c, MaxResults))
               /\ told # << >> => told[1].new_version = get_version(c)
               /\ \A k \in 1 .. Len(told) - 1 : told[k].old_version = told[k + 1].new_version
<1> DEFINE told == walk_back(c)[prop_count][max]
           all == walk_back(c)[prop_count][MaxResults]
           n == Cardinality(Recorded(c))
<1>1. /\ MaxProposals \in Nat /\ MaxResults \in Nat /\ MaxResults \in max .. MaxResults
      /\ MaxResults \in 0 .. MaxResults
  BY UpgradeAssumption DEF MaxResults
<1>2. TypeOK /\ IdsAreCounted /\ HistoryTellsTheVersion /\ prop_count \in 0 .. MaxProposals
  BY DEF UInv, TypeOK
<1>3. get_upgrade_history(c, max) = told /\ get_upgrade_history(c, MaxResults) = all
  BY DEF get_upgrade_history
<1>4. ToldRight(c, prop_count, max)
  BY <1>2, AlwaysToldRight
<1>5. RecordedTo(c, prop_count) = Recorded(c)
  <2>1. \A id \in Recorded(c) : id \in Nat /\ prop_count \in Nat /\ ~(id > prop_count)
    BY <1>1, <1>2 DEF Recorded, IdsAreCounted, Ids
  <2>2. \A id \in Recorded(c) : id <= prop_count
    BY <2>1
  <2> QED BY <2>2 DEF RecordedTo
<1>6. told \in Seq(Record) /\ all \in Seq(Record)
  BY <1>1, <1>2, WalkUnfolds
<1>7. n \in Nat
  <2>1. IsFiniteSet(Ids) /\ Recorded(c) \subseteq Ids
    BY <1>1, FS_Interval DEF Ids, Recorded
  <2> QED BY <2>1, FS_Subset, FS_CardinalityType
<1>8. /\ Len(told) = IF n < max THEN n ELSE max
      /\ \A id \in Recorded(c) : (\A k \in Recorded(c) : k <= id) /\ max > 0 => told[1] = history[c][id]
      /\ \A k \in 1 .. Len(told) - 1 : told[k].old_version = told[k + 1].new_version
      /\ Len(told) <= Len(all) /\ \A k \in 1 .. Len(told) : told[k] = all[k]
  BY <1>1, <1>4, <1>5 DEF ToldRight
<1> HIDE DEF told, all, n
<1>9. IsPrefix(told, all)
  <2>1. Len(told) \in Nat /\ Len(all) \in Nat
    BY <1>6
  <2>2. SubSeq(told, 1, Len(told)) = SubSeq(all, 1, Len(told))
    BY <1>6, <1>8, <2>1
  <2> QED BY <1>8, <2>2 DEF IsPrefix
<1>10. ASSUME told # << >> PROVE told[1].new_version = entries[c].version
  <2>1. Len(told) # 0
    BY <1>6, <1>10
  <2>2. n > 0 /\ max > 0
    BY <1>7, <1>8, <2>1
  <2>3. Recorded(c) \in SUBSET Ids /\ Recorded(c) # {}
    BY <2>2, FS_EmptySet DEF Recorded, n
  <2>4. PICK last \in Recorded(c) : \A k \in Recorded(c) : k <= last
    BY <2>3, LastRecorded
  <2>5. told[1] = history[c][last]
    BY <1>8, <2>2, <2>4
  <2>6. entries[c].version = history[c][last].new_version
    BY <1>2, <2>4 DEF HistoryTellsTheVersion
  <2> QED BY <2>5, <2>6
<1> QED BY <1>3, <1>8, <1>9, <1>10 DEF n, get_version

\* The status of a contract is that of the one proposal of it that is live.
LEMMA StatusIsRight ==
    ASSUME TypeOK, PendingIsLive, NEW c \in Contracts
    PROVE  {id \in Ids : Live(id) /\ get_proposal(id).contract = c}
             = LET s == get_upgrade_status(c)
               IN  IF s.status = "Pending" THEN {s.id} ELSE {}
<1> DEFINE live == {id \in Ids : Live(id) /\ proposals[id].contract = c}
<1>1. CASE pending[c] = 0
  <2>1. live = {}
    <3>1. \A id \in Ids : id # 0
      BY UpgradeAssumption DEF Ids
    <3> QED BY <1>1, <3>1 DEF PendingIsLive
  <2>2. get_upgrade_status(c).status = "Current"
    BY <1>1 DEF get_upgrade_status
  <2> QED BY <2>1, <2>2 DEF get_proposal
<1>2. CASE pending[c] # 0
  <2>1. pending[c] \in Ids
    BY <1>2, UpgradeAssumption DEF TypeOK, Ids
  <2>2. live = {pending[c]}
    BY <1>2, <2>1 DEF PendingIsLive
  <2>3. get_upgrade_status(c).status = "Pending" /\ get_upgrade_status(c).id = pending[c]
    BY <1>2 DEF get_upgrade_status
  <2> QED BY <2>2, <2>3 DEF get_proposal
<1> QED BY <1>1, <1>2

\* The answers of the registry fit together, in every state it can reach: the
\* status names the one proposal that can still be executed, and the history a
\* reader is given is complete, newest first, without a gap and up to the
\* version that get_version answers.
THEOREM AnswersAlwaysAgree == Spec => []AnswersAgree
<1>1. UInv => AnswersAgree
  <2> SUFFICES ASSUME UInv, NEW c \in Contracts
               PROVE  /\ Registered(c) =>
                           {id \in Ids : Live(id) /\ get_proposal(id).contract = c}
                             = LET s == get_upgrade_status(c)
                               IN  IF s.status = "Pending" THEN {s.id} ELSE {}
                      /\ \A max \in 0 .. MaxResults : Registered(c) /\ EnteredOnce(c) =>
                           LET told == get_upgrade_history(c, max)
                           IN  /\ Len(told) = LET n == Cardinality(Recorded(c))
                                              IN  IF n < max THEN n ELSE max
                               /\ IsPrefix(told, get_upgrade_history(c, MaxResults))
                               /\ told # << >> => told[1].new_version = get_version(c)
                               /\ \A k \in 1 .. Len(told) - 1 :
                                     told[k].old_version = told[k + 1].new_version
                               /\ \A n \in NamesOf(c) : get_registry_entry_by_name(n) = entries[c]
    BY ZenonT(30) DEF AnswersAgree
  <2>1. {id \in Ids : Live(id) /\ get_proposal(id).contract = c}
          = LET s == get_upgrade_status(c)
            IN  IF s.status = "Pending" THEN {s.id} ELSE {}
    BY StatusIsRight DEF UInv
  <2>2. \A n \in NamesOf(c) : get_registry_entry_by_name(n) = entries[c]
    BY DEF NamesOf, get_registry_entry_by_name
  <2>3. ASSUME NEW max \in 0 .. MaxResults, Registered(c), EnteredOnce(c)
        PROVE  LET told == get_upgrade_history(c, max)
                   n    == Cardinality(Recorded(c))
               IN  /\ Len(told) = IF n < max THEN n ELSE max
                   /\ IsPrefix(told, get_upgrade_history(c, MaxResults))
                   /\ told # << >> => told[1].new_version = get_version(c)
                   /\ \A k \in 1 .. Len(told) - 1 : told[k].old_version = told[k + 1].new_version
    BY <2>3, AnswerIsRight
  <2> QED BY <2>1, <2>2, <2>3, ZenonT(30)
<1> QED BY <1>1, UInvAlways, PTL
=============================================================================
