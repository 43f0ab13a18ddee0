---------------------------- MODULE SupplyChain ----------------------------
(***************************************************************************)
(* The links of one buyer to its suppliers, and what the emissions of its  *)
(* verified suppliers add to the buyer's scope 3.                          *)
(*                                                                         *)
(* A link that is removed leaves its row, and the row its place under the  *)
(* unique key.  Spend and emissions are whole numbers; shares are rounded  *)
(* down, where the code rounds the sum.                                    *)
(***************************************************************************)
EXTENDS Integers, FiniteSets, FiniteSetsExt, Functions

CONSTANTS
    Clerks,        \* the requests that may be in progress at once
    Suppliers,
    SpendChoices,  \* what a buyer may say it spends, with NoSpend for nothing
    EmissionSets,  \* a few [Suppliers -> scope 1 and 2 of the latest report, or NoReport]
    NoLink, NoSpend, NoReport

LinkStatus == {"pending", "verified", "rejected"}
LinkRows == [status : LinkStatus, spend : SpendChoices, deleted : BOOLEAN]

ASSUME SupplyAssumption ==
    /\ IsFiniteSet(Suppliers)
    /\ NoLink \notin LinkRows
    /\ SpendChoices \subseteq Nat \cup {NoSpend}
    /\ EmissionSets \subseteq [Suppliers -> Nat \cup {NoReport}]

VARIABLES
    links,    \* [Suppliers -> the row, or NoLink]
    emissions, \* what the suppliers have reported, one of the EmissionSets
    clerk     \* what each request has loaded, or Free

supplyVars == <<links, emissions, clerk>>

Free == [op |-> "idle"]

SupplyInit ==
    /\ links = [s \in Suppliers |-> NoLink]
    /\ emissions \in EmissionSets
    /\ clerk = [k \in Clerks |-> Free]

Linked == {s \in Suppliers : links[s] # NoLink /\ ~ links[s].deleted}

Opens(k, request) ==
    /\ clerk[k] = Free
    /\ clerk' = [clerk EXCEPT ![k] = request]
    /\ UNCHANGED <<links, emissions>>

Closes(k) == clerk' = [clerk EXCEPT ![k] = Free]

\* Removed links are not looked at ...
LinkChecks(k, s, spend) == s \notin Linked /\ Opens(k, [op |-> "create", of |-> s, spend |-> spend])

\* ... but by the unique key, which refuses the row.
LinkCommits(k) ==
    /\ clerk[k].op = "create"
    /\ links[clerk[k].of] = NoLink
    /\ links' = [links EXCEPT ![clerk[k].of] = [status |-> "pending", spend |-> clerk[k].spend, deleted |-> FALSE]]
    /\ Closes(k)
    /\ UNCHANGED emissions

StatusLoads(k, s, status) ==
    /\ s \in Linked
    /\ Opens(k, [op |-> "status", of |-> s, status |-> status, changed |-> status # links[s].status])

\* The link may have been removed in the meantime.
StatusCommits(k) ==
    /\ clerk[k].op = "status"
    /\ links' = IF clerk[k].changed THEN [links EXCEPT ![clerk[k].of].status = clerk[k].status] ELSE links
    /\ Closes(k)
    /\ UNCHANGED emissions

RemoveLoads(k, s) == s \in Linked /\ Opens(k, [op |-> "remove", of |-> s])

LinkRemoved(k) ==
    /\ clerk[k].op = "remove"
    /\ links' = [links EXCEPT ![clerk[k].of].deleted = TRUE]
    /\ Closes(k)
    /\ UNCHANGED emissions

LinkFails(k) ==
    /\ clerk[k] # Free
    /\ Closes(k)
    /\ UNCHANGED <<links, emissions>>

-----------------------------------------------------------------------------
\* calc_supplier_scope3

Verified == {s \in Linked : links[s].status = "verified"}
Spent == [s \in Verified |-> IF links[s].spend = NoSpend THEN 0 ELSE links[s].spend]
TotalSpend == SumFunction(Spent)
Reported == [s \in Suppliers |-> IF emissions[s] = NoReport THEN 0 ELSE emissions[s]]

\* Wrong on purpose: a supplier is attributed all it emits
AttributedWhole == [s \in Verified |-> Reported[s]]

\* By the share in what is spent on verified suppliers; all of it, if the
\* spend is not known.
Attributed ==
    [s \in Verified |-> IF Spent[s] > 0 /\ TotalSpend > 0 THEN (Reported[s] * Spent[s]) \div TotalSpend
                        ELSE Reported[s]]

Scope3FromSuppliers == SumFunction(Attributed)

SupplyNext ==
    \E k \in Clerks :
       \/ \E s \in Suppliers, spend \in SpendChoices : LinkChecks(k, s, spend)
       \/ \E s \in Suppliers, status \in LinkStatus : StatusLoads(k, s, status)
       \/ \E s \in Suppliers : RemoveLoads(k, s)
       \/ LinkCommits(k) \/ StatusCommits(k) \/ LinkRemoved(k) \/ LinkFails(k)

SupplySpec == SupplyInit /\ [][SupplyNext]_supplyVars

-----------------------------------------------------------------------------
SupplyTypeOK ==
    /\ links \in [Suppliers -> LinkRows \cup {NoLink}]
    /\ emissions \in EmissionSets
    /\ \A k \in Clerks :
          \/ clerk[k] \in {Free} \cup [op : {"create"}, of : Suppliers, spend : SpendChoices]
          \/ clerk[k] \in [op : {"status"}, of : Suppliers, status : LinkStatus, changed : BOOLEAN]
          \/ clerk[k] \in [op : {"remove"}, of : Suppliers]

\* The buyer is attributed no more than its suppliers emit: an average of
\* those that it has told its spend on, at most as much as the largest of
\* them, and all of the others.  Whoever is not verified adds nothing.
SharesAddUp ==
    LET known == {s \in Verified : Spent[s] > 0}
    IN  Scope3FromSuppliers <= Max({0} \cup {Reported[s] : s \in known}) + SumFunctionOnSet(Reported, Verified \ known)
=============================================================================
