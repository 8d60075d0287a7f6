------------------------------ MODULE OperatorHub ------------------------------
(***************************************************************************)
(* The registry of companion operators (src/controllers/operator_hub.rs):  *)
(* an in-memory map of installed operators behind a RwLock, used by        *)
(* concurrent callers.  Every action is one critical section; install has  *)
(* two, a check under the read lock and an insert under the write lock.    *)
(*                                                                         *)
(* The operators on offer are seeded once and never change.  The texts of  *)
(* refusals are left out, and so are calls that only list or search.       *)
(***************************************************************************)
EXTENDS Integers, FiniteSets

CONSTANTS
    Callers,            \* tasks that call the hub
    BUNDLED_OPERATORS,  \* BUNDLED_OPERATORS[n]: the version, as a number, of n
    max_installed,      \* the configured capacity
    require_verified    \* whether the configuration asks for verified operators

Names == DOMAIN BUNDLED_OPERATORS

ASSUME OperatorHubAssumption ==
    /\ IsFiniteSet(Callers) /\ Callers # {}
    /\ IsFiniteSet(Names)
    /\ BUNDLED_OPERATORS \in [Names -> Nat \ {0}]
    /\ max_installed \in Nat /\ require_verified \in BOOLEAN

VARIABLES
    installed,  \* installed[n]: the version of operator n, 0 when not installed
    pc,         \* pc[c]: the critical section of install that c enters next
    target,     \* target[c]: the operators that c is installing, at most one
    overtaken   \* history: since c's check, another call installed the target

vars == <<installed, pc, target, overtaken>>

-------------------------------------------------------------------------------
\* What new() seeds for each of the bundled operators.
HubOperator(n) == [version |-> BUNDLED_OPERATORS[n], verified |-> TRUE]

Installed == {n \in Names : installed[n] # 0}

\* check_updates, whose number of answers stats reports.
check_updates == {n \in Installed : installed[n] # HubOperator(n).version}

\* Types; and what is installed has the version of the hub, which never changes,
\* so that there is never an update to report and upgrade has nothing to do.
TypeOK ==
    /\ installed \in [Names -> Nat] /\ check_updates = {}
    /\ pc \in [Callers -> {"idle", "check", "insert"}]
    /\ target \in [Callers -> SUBSET Names]
    /\ overtaken \in [Callers -> BOOLEAN]

Init ==
    /\ installed = [n \in Names |-> 0]
    /\ pc = [c \in Callers |-> "idle"]
    /\ target = [c \in Callers |-> {}]
    /\ overtaken = [c \in Callers |-> FALSE]

-------------------------------------------------------------------------------
Goto(c, p, names) ==
    /\ pc' = [pc EXCEPT ![c] = p]
    /\ target' = [target EXCEPT ![c] = names]

\* install finds the operator in the hub and acceptable; otherwise it refuses
\* and nothing changes.
Install(c, n) ==
    /\ pc[c] = "idle"
    /\ require_verified => HubOperator(n).verified
    /\ Goto(c, "check", {n})
    /\ UNCHANGED <<installed, overtaken>>

\* Mutant of HasRoom: one operator too many.
HasRoomAtCapacity == Cardinality(Installed) <= max_installed

HasRoom == Cardinality(Installed) < max_installed

\* Mutant of CheckInstalled: only the capacity is checked.
CheckRoomOnly(c) ==
    /\ pc[c] = "check"
    /\ IF HasRoom THEN Goto(c, "insert", target[c]) ELSE Goto(c, "idle", {})
    /\ UNCHANGED <<installed, overtaken>>

\* Capacity and name are checked under the read lock, which is then given up.
CheckInstalled(c) ==
    /\ pc[c] = "check"
    /\ IF HasRoom /\ target[c] \cap Installed = {}
       THEN Goto(c, "insert", target[c])
       ELSE Goto(c, "idle", {})
    /\ UNCHANGED <<installed, overtaken>>

\* The insertion does not look again: it may replace an entry.
Insert(c) ==
    /\ pc[c] = "insert"
    /\ installed' = [n \in Names |->
          IF n \in target[c] THEN HubOperator(n).version ELSE installed[n]]
    /\ overtaken' = [d \in Callers |->
          IF d = c THEN FALSE
          ELSE overtaken[d] \/ (pc[d] = "insert" /\ target[d] = target[c])]
    /\ Goto(c, "idle", {})

Uninstall(c, n) ==
    /\ pc[c] = "idle" /\ n \in Installed
    /\ installed' = [installed EXCEPT ![n] = 0]
    /\ UNCHANGED <<pc, target, overtaken>>

\* upgrade refuses what is not installed, or already at the hub's version.
Upgrade(c, n) ==
    /\ pc[c] = "idle" /\ n \in Installed
    /\ installed' = [installed EXCEPT ![n] = HubOperator(n).version]
    /\ UNCHANGED <<pc, target, overtaken>>

Next ==
    \E c \in Callers :
        \/ CheckInstalled(c) \/ Insert(c)
        \/ \E n \in Names : Install(c, n) \/ Uninstall(c, n) \/ Upgrade(c, n)

Spec == Init /\ [][Next]_vars

-------------------------------------------------------------------------------
(***************************************************************************)
(* Properties.                                                             *)
(***************************************************************************)
\* "maximum installed operators reached" is the answer for a sequential caller.
\* Concurrent ones that pass the check together exceed the capacity, each other
\* caller by one at most.
CapacityExceededByOthersOnly ==
    Cardinality(Installed) <= max_installed + Cardinality(Callers) - 1

\* Two installs of an operator succeed without an uninstall between them only
\* when they overlap: otherwise the second is "already installed".
SecondInstallOverlaps ==
    \A c \in Callers :
        pc[c] = "insert" /\ target[c] \cap Installed # {} => overtaken[c]

\* Why it works: what is installed and what is about to be inserted fit the
\* extended capacity together, as the last check saw room for one more.
Pending == UNION {target[c] : c \in {d \in Callers : pc[d] = "insert"}}

IInv ==
    /\ TypeOK
    /\ \A c \in Callers :
          /\ pc[c] # "idle" => \E n \in Names : target[c] = {n}
          /\ pc[c] # "insert" => ~overtaken[c]
    /\ Cardinality(Installed \cup Pending) <= max_installed + Cardinality(Callers) - 1
    /\ SecondInstallOverlaps
================================================================================
