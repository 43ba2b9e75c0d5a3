--------------------------- MODULE UpgradeQueries ---------------------------
(***************************************************************************)
(* What off-chain readers of contracts/upgradeability are told: the status *)
(* of a contract, its version by address and by name, and its history, by  *)
(* a loop that walks the proposal ids backwards.                           *)
(***************************************************************************)
EXTENDS Upgradeability, SequencesExt

MaxResults == MaxProposals + 1

\* Mutant: the walk stops at the first id that has no record of c.
walk_back_unbroken(c) ==
    LET told[pid \in 0 .. MaxProposals] ==
          [max_results \in 0 .. MaxResults |->
              IF pid = 0 \/ max_results = 0 \/ history[c][pid] = NoRecord
              THEN << >>
              ELSE <<history[c][pid]>> \o told[pid - 1][max_results - 1]]
    IN  told

\* What the loop collects from id pid on, if max_results are still missing.
walk_back(c) ==
    LET told[pid \in 0 .. MaxProposals] ==
          [max_results \in 0 .. MaxResults |->
              IF pid = 0 \/ max_results = 0 THEN << >>
              ELSE IF history[c][pid] = NoRecord THEN told[pid - 1][max_results]
              ELSE <<history[c][pid]>> \o told[pid - 1][max_results - 1]]
    IN  told

get_upgrade_history(c, max_results) ==
    IF Registered(c) THEN walk_back(c)[prop_count][max_results] ELSE << >>

get_version(c) == entries[c].version

get_upgrade_status(c) ==
    IF pending[c] # 0 THEN [status |-> "Pending", id |-> pending[c]] ELSE [status |-> "Current"]

get_proposal(id) == proposals[id]

get_registry_entry_by_name(n) == entries[by_name[n]]

(***************************************************************************)
(* The answers of the registry fit together.  A contract is Current if no  *)
(* proposal of it can still be executed, or else Pending with the id of    *)
(* the one that can.  A reader who asks for the last upgrades of a         *)
(* contract that was entered once gets as many as there are, up to the     *)
(* limit, newest first, without a gap: the first ends at the version       *)
(* get_version answers, by address as by name, and each one starts where   *)
(* the next one ends.  A smaller limit gives a prefix of the same answer.  *)
(***************************************************************************)
AnswersAgree ==
    \A c \in Contracts :
        /\ Registered(c) =>
              {id \in Ids : Live(id) /\ get_proposal(id).contract = c}
                  = LET s == get_upgrade_status(c)
                    IN  IF s.status = "Pending" THEN {s.id} ELSE {}
        /\ \A max_results \in 0 .. MaxResults : Registered(c) /\ EnteredOnce(c) =>
              LET told == get_upgrade_history(c, max_results)
              IN  /\ Len(told) = LET n == Cardinality(Recorded(c))
                                 IN  IF n < max_results THEN n ELSE max_results
                  /\ IsPrefix(told, get_upgrade_history(c, MaxResults))
                  /\ told # << >> => told[1].new_version = get_version(c)
                  /\ \A k \in 1 .. Len(told) - 1 : told[k].old_version = told[k + 1].new_version
                  /\ \A n \in NamesOf(c) : get_registry_entry_by_name(n) = entries[c]
=============================================================================
