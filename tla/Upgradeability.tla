--------------------------- MODULE Upgradeability ---------------------------
(***************************************************************************)
(* contracts/upgradeability: the registry of the versions that contracts   *)
(* run, the proposals to upgrade them, and the history of upgrades.        *)
(*                                                                         *)
(* A call that returns an error leaves nothing behind: what a hook refuses *)
(* after the registry was written is rolled back with it.  Notes, times,   *)
(* executors and descriptions are left out, no check reads them.           *)
(***************************************************************************)
EXTENDS Integers, FiniteSets

CONSTANTS
    Accounts,      \* the addresses that sign calls
    Contracts,     \* addresses of contracts that may be registered
    NoContract,    \* a name that is not registered
    Names,         \* logical names
    Hashes,        \* WASM hashes
    Hooks,         \* addresses of migration hooks, which are not in the repository
    NoHook,        \* None
    Versions,      \* version numbers that callers pass
    MaxProposals   \* bound: proposals ever made

ASSUME UpgradeAssumption ==
    /\ NoContract \notin Contracts
    /\ NoHook \notin Hooks
    /\ Versions \subseteq Nat
    /\ IsFiniteSet(Names)
    /\ MaxProposals \in Nat

Ids == 1 .. MaxProposals

VARIABLES
    roles,       \* pairs <<account, role>>
    entries,     \* contract -> its RegistryEntry
    by_name,     \* name -> contract, the KEY_CONTRACT_BY_NAME entries
    reg_count,   \* KEY_REG_CNT
    hooks,       \* contract -> hook, the second copy under KEY_HOOK
    prop_count,  \* KEY_PROP_CNT, the last id
    proposals,   \* id -> its UpgradeProposal
    pending,     \* contract -> id, the KEY_PENDING entries; 0 is none
    history      \* contract -> id -> its UpgradeRecord

vars == <<roles, entries, by_name, reg_count, hooks, prop_count, proposals, pending, history>>
registryVars == <<entries, by_name, reg_count, hooks>>
proposalVars == <<prop_count, proposals, pending, history>>

Unregistered == [registered |-> FALSE]
Entry == [registered : {TRUE}, version : Versions, hash : Hashes, hook : Hooks \cup {NoHook}]

NoProposal == [proposed |-> FALSE]
Proposal == [proposed : {TRUE}, contract : Contracts, hash : Hashes, version : Versions,
             proposer : Accounts, executed : BOOLEAN]

NoRecord == [recorded |-> FALSE]
Record == [recorded : {TRUE}, old_version : Versions, new_version : Versions,
           old_hash : Hashes, new_hash : Hashes]

TypeOK ==
    /\ roles \subseteq Accounts \X {"Admin", "Upgrader"}
    /\ entries \in [Contracts -> Entry \cup {Unregistered}]
    /\ by_name \in [Names -> Contracts \cup {NoContract}]
    /\ reg_count \in Nat
    /\ hooks \in [Contracts -> Hooks \cup {NoHook}]
    /\ prop_count \in 0 .. MaxProposals
    /\ proposals \in [Ids -> Proposal \cup {NoProposal}]
    /\ pending \in [Contracts -> 0 .. MaxProposals]
    /\ history \in [Contracts -> [Ids -> Record \cup {NoRecord}]]

Init ==
    /\ roles = {}
    /\ entries = [c \in Contracts |-> Unregistered]
    /\ by_name = [n \in Names |-> NoContract]
    /\ reg_count = 0
    /\ hooks = [c \in Contracts |-> NoHook]
    /\ prop_count = 0
    /\ proposals = [id \in Ids |-> NoProposal]
    /\ pending = [c \in Contracts |-> 0]
    /\ history = [c \in Contracts |-> [id \in Ids |-> NoRecord]]

-----------------------------------------------------------------------------

Registered(c) == entries[c] # Unregistered

\* The proposal is stored and was not executed.
Live(id) == proposals[id] # NoProposal /\ ~proposals[id].executed

\* Unguarded: whoever was admin before keeps both roles.
Initialize(admin) ==
    /\ roles' = roles \cup {<<admin, "Admin">>, <<admin, "Upgrader">>}
    /\ UNCHANGED <<registryVars, proposalVars>>

\* Mutant: registration drops the pending proposal, but not the proposal.
RegisterContractAnew(caller, c, name, version, hash) ==
    /\ <<caller, "Admin">> \in roles
    /\ version >= 1
    /\ by_name[name] = NoContract
    /\ entries' = [entries EXCEPT ![c] = [registered |-> TRUE, version |-> version,
                                          hash |-> hash, hook |-> NoHook]]
    /\ by_name' = [by_name EXCEPT ![name] = c]
    /\ reg_count' = reg_count + 1
    /\ pending' = [pending EXCEPT ![c] = 0]
    /\ UNCHANGED <<roles, hooks, prop_count, proposals, history>>

(***************************************************************************)
(* The name must be new, the contract need not be: under a second name a   *)
(* contract is entered again, with any version and without its hook; its   *)
(* pending proposal, its history and the copy of the hook stay.            *)
(***************************************************************************)
RegisterContract(caller, c, name, version, hash) ==
    /\ <<caller, "Admin">> \in roles
    /\ version >= 1
    /\ by_name[name] = NoContract
    /\ entries' = [entries EXCEPT ![c] = [registered |-> TRUE, version |-> version,
                                          hash |-> hash, hook |-> NoHook]]
    /\ by_name' = [by_name EXCEPT ![name] = c]
    /\ reg_count' = reg_count + 1
    /\ UNCHANGED <<roles, hooks, proposalVars>>

SetMigrationHook(caller, c, hook) ==
    /\ <<caller, "Admin">> \in roles
    /\ Registered(c)
    /\ entries' = [entries EXCEPT ![c].hook = hook]
    /\ hooks' = [hooks EXCEPT ![c] = hook]
    /\ UNCHANGED <<roles, by_name, reg_count, proposalVars>>

\* Mutant: the hash is not compared.
HigherVersion(c, hash, version) == version > entries[c].version

\* A proposal must bring a higher version and another hash.
Changes(c, hash, version) ==
    /\ version > entries[c].version
    /\ hash # entries[c].hash

ProposeUpgrade(caller, c, hash, version) ==
    /\ <<caller, "Upgrader">> \in roles
    /\ Registered(c)
    /\ Changes(c, hash, version)
    /\ pending[c] = 0
    /\ prop_count < MaxProposals
    /\ prop_count' = prop_count + 1
    /\ proposals' = [proposals EXCEPT ![prop_count + 1] =
                        [proposed |-> TRUE, contract |-> c, hash |-> hash, version |-> version,
                         proposer |-> caller, executed |-> FALSE]]
    /\ pending' = [pending EXCEPT ![c] = prop_count + 1]
    /\ UNCHANGED <<roles, registryVars, history>>

\* Mutant: the record is made from the entry that was just written.
RecordAfter(c, p) ==
    [recorded |-> TRUE, old_version |-> p.version, new_version |-> p.version,
     old_hash |-> p.hash, new_hash |-> p.hash]

\* What is recorded when the proposal p of c is executed.
RecordOf(c, p) ==
    [recorded |-> TRUE, old_version |-> entries[c].version, new_version |-> p.version,
     old_hash |-> entries[c].hash, new_hash |-> p.hash]

\* The hook of c, if there is one, approves the upgrade (pre_ok) and later
\* returns from the second call (post_ok).
HookPasses(c, pre_ok, post_ok) == entries[c].hook # NoHook => pre_ok /\ post_ok

\* The version is not compared again.
ExecuteUpgrade(caller, id, pre_ok, post_ok) ==
    LET p == proposals[id]
        c == p.contract
    IN  /\ <<caller, "Upgrader">> \in roles
        /\ Live(id)
        /\ Registered(c)
        /\ HookPasses(c, pre_ok, post_ok)
        /\ entries' = [entries EXCEPT ![c].version = p.version, ![c].hash = p.hash]
        /\ proposals' = [proposals EXCEPT ![id].executed = TRUE]
        /\ pending' = [pending EXCEPT ![c] = 0]
        /\ history' = [history EXCEPT ![c][id] = RecordOf(c, p)]
        /\ UNCHANGED <<roles, by_name, reg_count, hooks, prop_count>>

\* The caller is named, not asked to sign: whoever names the proposer cancels.
CancelProposal(named, id) ==
    /\ Live(id)
    /\ named = proposals[id].proposer \/ <<named, "Admin">> \in roles
    /\ pending' = [pending EXCEPT ![proposals[id].contract] = 0]
    /\ proposals' = [proposals EXCEPT ![id] = NoProposal]
    /\ UNCHANGED <<roles, registryVars, prop_count, history>>

Next ==
    \/ \E admin \in Accounts : Initialize(admin)
    \/ \E caller \in Accounts, c \in Contracts, name \in Names, version \in Versions, hash \in Hashes :
            RegisterContract(caller, c, name, version, hash)
    \/ \E caller \in Accounts, c \in Contracts, hook \in Hooks : SetMigrationHook(caller, c, hook)
    \/ \E caller \in Accounts, c \in Contracts, hash \in Hashes, version \in Versions :
            ProposeUpgrade(caller, c, hash, version)
    \/ \E caller \in Accounts, id \in Ids, pre_ok, post_ok \in BOOLEAN :
            ExecuteUpgrade(caller, id, pre_ok, post_ok)
    \/ \E named \in Accounts, id \in Ids : CancelProposal(named, id)

Spec == Init /\ [][Next]_vars

-----------------------------------------------------------------------------
(* What the target's own upgrade function asks.                            *)

VerifyUpgradeAuthorization(c, caller, hash) ==
    /\ <<caller, "Upgrader">> \in roles
    /\ pending[c] # 0
    /\ proposals[pending[c]] # NoProposal
    /\ proposals[pending[c]].hash = hash

\* The contract was entered under one name only.
NamesOf(c) == {n \in Names : by_name[n] = c}
EnteredOnce(c) == \A m, n \in NamesOf(c) : m = n

Recorded(c) == {id \in Ids : history[c][id] # NoRecord}

-----------------------------------------------------------------------------

(***************************************************************************)
(* What is stored twice agrees, in whatever order contracts are entered,   *)
(* proposals made, executed and cancelled: a contract has at most one live *)
(* proposal and the pending entry is its id, so that an upgrade that is    *)
(* under way can neither be hidden nor blocked by a stale entry; the count *)
(* of registrations is the number of names; and the hook that              *)
(* get_migration_hook returns is the one execution calls, as long as the   *)
(* contract was not entered again.                                         *)
(***************************************************************************)
CopiesAgree ==
    /\ \A id \in Ids : Live(id) => pending[proposals[id].contract] = id
    /\ \A c \in Contracts :
          pending[c] # 0 => Live(pending[c]) /\ proposals[pending[c]].contract = c
    /\ reg_count = Cardinality({n \in Names : by_name[n] # NoContract})
    /\ \A c \in Contracts : Registered(c) /\ EnteredOnce(c) => entries[c].hook = hooks[c]

(***************************************************************************)
(* For a contract that was entered once, the hash that the registry        *)
(* authorises is always another than the registered one and brings a       *)
(* higher version.  That is what the code does and not what the procedure  *)
(* around it needs: there the target asks after the execution, when the    *)
(* registered hash is the one it is to install (ExecutedIsRefused).        *)
(***************************************************************************)
AuthorizedIsAhead ==
    \A c \in Contracts, caller \in Accounts, hash \in Hashes :
        EnteredOnce(c) /\ VerifyUpgradeAuthorization(c, caller, hash) =>
            /\ hash # entries[c].hash
            /\ proposals[pending[c]].version > entries[c].version

(***************************************************************************)
(* verify_upgrade_authorization refuses what was executed last: from the   *)
(* first execution on, no caller gets leave to install what the last one   *)
(* recorded of a contract entered once.  UPGRADEABILITY.md and             *)
(* scripts/upgrade.sh have the target ask exactly then.                    *)
(***************************************************************************)
ExecutedIsRefused ==
    \A c \in Contracts, caller \in Accounts, id \in Ids :
        /\ EnteredOnce(c)
        /\ id \in Recorded(c) /\ \A k \in Recorded(c) : k <= id
        => ~VerifyUpgradeAuthorization(c, caller, history[c][id].new_hash)

(***************************************************************************)
(* The history of a contract that was entered once is a chain of upgrades: *)
(* every record leads to a higher version, each starts with the version    *)
(* and the hash that the record before it ended with, and the registry has *)
(* what the last one ended with.  No upgrade is missing or told twice.     *)
(***************************************************************************)
HistoryTellsTheVersion ==
    \A c \in Contracts : EnteredOnce(c) =>
        /\ \A id \in Recorded(c) : history[c][id].new_version > history[c][id].old_version
        /\ \A i, j \in Recorded(c) :
              i < j /\ (\A k \in Recorded(c) : k <= i \/ k >= j) =>
                  /\ history[c][j].old_version = history[c][i].new_version
                  /\ history[c][j].old_hash = history[c][i].new_hash
        /\ \A id \in Recorded(c) : (\A k \in Recorded(c) : k <= id) =>
              /\ entries[c].version = history[c][id].new_version
              /\ entries[c].hash = history[c][id].new_hash
=============================================================================
