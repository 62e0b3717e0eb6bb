------------------------------ MODULE EventLedger -----------------------------
(***************************************************************************)
(* What the event pipeline promises to everything that reads a budget,      *)
(* whatever the order, duplication or failure of its tasks: the ledger of   *)
(* charges only grows, entry by entry, except that a build failure may be   *)
(* excused, once and for all, by becoming a flaky test.  No entry is ever   *)
(* dropped and no other entry ever changes its type.                        *)
(***************************************************************************)
CONSTANT Accounts      \* <<installation, repository, sha, owner>>

VARIABLE ledger        \* the entries <<account, kind>>

Kinds == {"build_failure", "revert", "flaky_test", "incident"}

Init == ledger = {}

Charge ==
    \E a \in Accounts, k \in Kinds \ {"flaky_test"} :
        ledger' = ledger \cup {<<a, k>>}

Excuse ==
    \E a \in Accounts :
        /\ <<a, "build_failure">> \in ledger
        /\ <<a, "flaky_test">> \notin ledger
        /\ ledger' = (ledger \ {<<a, "build_failure">>}) \cup {<<a, "flaky_test">>}

Next == Charge \/ Excuse

Spec == Init /\ [][Next]_ledger

===============================================================================
