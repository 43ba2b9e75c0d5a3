------------------------------ MODULE Registry ------------------------------
(***************************************************************************)
(* contracts/registry-contract: the admin says at which address, in which  *)
(* version, a name is deployed; other contracts ask for it with            *)
(* get_contract.  Beside that it keeps metadata of names: where a document *)
(* is found, its hash, and whether that may be replaced.  The schema       *)
(* version and the time of an entry, which nothing reads, are left out.    *)
(***************************************************************************)
EXTENDS Integers, Sequences, SequencesExt

CONSTANTS
    Accounts,   \* the addresses that sign calls
    NoAddress,  \* not set
    Admins,     \* admins a caller may install
    Names,
    Addresses,  \* addresses the admin may register
    Versions,
    Documents   \* metadata the admin may set: [hash_len, uri_len], of which no byte is read

VARIABLES
    admin,
    contracts,  \* name -> where it is deployed
    metadata,   \* name -> its document, and whether it is immutable
    history     \* name -> the versions it ever had, in the order of their first use

vars == <<admin, contracts, metadata, history>>

Unregistered == [registered |-> FALSE]
Registration == [registered : {TRUE}, address : Addresses, version : Versions]

NoMetadata == [present |-> FALSE]
MetadataEntry == [present : {TRUE}, document : Documents, immutable : BOOLEAN]

TypeOK ==
    /\ admin \in Accounts \cup {NoAddress}
    /\ contracts \in [Names -> Registration \cup {Unregistered}]
    /\ metadata \in [Names -> MetadataEntry \cup {NoMetadata}]
    /\ history \in [Names -> Seq(Versions)]

Init ==
    /\ admin = NoAddress
    /\ contracts = [n \in Names |-> Unregistered]
    /\ metadata = [n \in Names |-> NoMetadata]
    /\ history = [n \in Names |-> << >>]

\* Unguarded, like every initialize.
Initialize(new_admin) ==
    /\ admin' = new_admin
    /\ UNCHANGED <<contracts, metadata, history>>

\* Mutant: only the latest version is looked at.
RecordedIfNew(versions, version) ==
    IF versions # << >> /\ Last(versions) = version THEN versions ELSE Append(versions, version)

\* A version that was there before, in any place, is not recorded again.
Recorded(versions, version) ==
    IF Contains(versions, version) THEN versions ELSE Append(versions, version)

\* The version may be an older one: the history tells versions, not what is deployed.
SetContract(caller, name, address, version) ==
    /\ caller = admin
    /\ contracts' = [contracts EXCEPT ![name] =
                        [registered |-> TRUE, address |-> address, version |-> version]]
    /\ history' = [history EXCEPT ![name] = Recorded(@, version)]
    /\ UNCHANGED <<admin, metadata>>

\* Mutant: the flag is not looked at.
NeverImmutable(entry) == FALSE

Immutable(entry) == entry # NoMetadata /\ entry.immutable

\* The hash is judged by its length, 32 bytes, the URI by not being empty.  The
\* name need not be registered, and an entry may become immutable later.
SetMetadata(caller, name, document, immutable) ==
    /\ caller = admin
    /\ ~Immutable(metadata[name])
    /\ document.hash_len = 32
    /\ document.uri_len > 0
    /\ metadata' = [metadata EXCEPT ![name] =
                        [present |-> TRUE, document |-> document, immutable |-> immutable]]
    /\ UNCHANGED <<admin, contracts, history>>

\* get_registry_entry answers for a name that has both.
HasRegistryEntry(name) == contracts[name] # Unregistered /\ metadata[name] # NoMetadata

Step ==
    \/ \E new_admin \in Admins : Initialize(new_admin)
    \/ \E caller \in Accounts, name \in Names, address \in Addresses, version \in Versions :
            SetContract(caller, name, address, version)
    \/ \E caller \in Accounts, name \in Names, document \in Documents, immutable \in BOOLEAN :
            SetMetadata(caller, name, document, immutable)

-----------------------------------------------------------------------------

\* The history of a name has each version it ever had once, and what is
\* deployed is one of them, also when an older version is deployed again.
HistoryIsComplete ==
    \A n \in Names :
        /\ IsInjective(history[n])
        /\ contracts[n] # Unregistered => Contains(history[n], contracts[n].version)

\* Whatever is deployed under a name and whoever becomes the admin, metadata set
\* as immutable stays as it is, and a name that has a full entry keeps one.
ImmutableIsForGood ==
    [][\A n \in Names :
        /\ metadata[n] # NoMetadata /\ metadata[n].immutable => metadata'[n] = metadata[n]
        /\ HasRegistryEntry(n) => HasRegistryEntry(n)']_vars
=============================================================================
