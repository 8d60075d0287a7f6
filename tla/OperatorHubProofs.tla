--------------------------- MODULE OperatorHubProofs ---------------------------
(***************************************************************************)
(* Proofs about OperatorHub, for any finite set of callers and operators   *)
(* and any capacity.                                                       *)
(***************************************************************************)
EXTENDS OperatorHub, FiniteSetTheorems, TLAPS

Bound == max_installed + Cardinality(Callers) - 1

LEMMA BoundType == Cardinality(Callers) \in Nat \ {0} /\ Bound \in Nat
  <1>1. Cardinality(Callers) \in Nat
    BY OperatorHubAssumption, FS_CardinalityType
  <1>2. Cardinality(Callers) # 0
    BY OperatorHubAssumption, FS_EmptySet
  <1> QED  BY <1>1, <1>2, OperatorHubAssumption DEF Bound

\* A part of a set of operators is finite and not larger than the set.
LEMMA PartFits ==
    ASSUME NEW S \in SUBSET Names, NEW T \in SUBSET S
    PROVE  /\ Cardinality(S) \in Nat /\ Cardinality(T) \in Nat
           /\ Cardinality(T) <= Cardinality(S)
  <1>1. IsFiniteSet(S)
    BY OperatorHubAssumption, FS_Subset
  <1>2. IsFiniteSet(T) /\ Cardinality(T) <= Cardinality(S)
    BY <1>1, FS_Subset
  <1> QED  BY <1>1, <1>2, FS_CardinalityType

\* Callers with one operator each have no more operators than there are callers.
LEMMA TargetsFit ==
    ASSUME NEW D \in SUBSET Callers, NEW t \in [Callers -> SUBSET Names],
           \A c \in D : \E n \in Names : t[c] = {n}
    PROVE  LET P == UNION {t[c] : c \in D} IN
           P \in SUBSET Names /\ Cardinality(P) <= Cardinality(Callers)
  <1> DEFINE P == UNION {t[c] : c \in D}
             owner == [n \in P |-> CHOOSE c \in D : n \in t[c]]
  <1>1. P \in SUBSET Names
    OBVIOUS
  <1>2. ASSUME NEW n \in P
        PROVE  owner[n] \in Callers /\ t[owner[n]] = {n}
    <2>1. \E c \in D : n \in t[c]
      OBVIOUS
    <2>2. owner[n] \in D /\ n \in t[owner[n]]
      BY <2>1
    <2> QED  BY <2>2
  <1>3. owner \in Injection(P, Callers)
    <2>1. owner \in [P -> Callers]
      BY <1>2
    <2> HIDE DEF owner, P
    <2>2. \A m, n \in P : owner[m] = owner[n] => m = n
      BY <1>2
    <2> QED  BY <2>1, <2>2 DEF Injection, IsInjective
  <1>4. Cardinality(P) <= Cardinality(Callers)
    BY <1>3, OperatorHubAssumption, FS_Injection
  <1> QED  BY <1>1, <1>4

\* Two sets of operators together have at most as many as both.
LEMMA TogetherFit ==
    ASSUME NEW S \in SUBSET Names, NEW T \in SUBSET Names
    PROVE  Cardinality(S \cup T) <= Cardinality(S) + Cardinality(T)
  <1>1. IsFiniteSet(S) /\ IsFiniteSet(T)
    BY OperatorHubAssumption, FS_Subset
  <1>2. Cardinality(S \cap T) \in Nat
    BY PartFits
  <1>3. Cardinality(S) \in Nat /\ Cardinality(T) \in Nat
    BY <1>1, FS_CardinalityType
  <1>4. Cardinality(S \cup T) = Cardinality(S) + Cardinality(T) - Cardinality(S \cap T)
    BY <1>1, FS_Union
  <1> QED  BY <1>2, <1>3, <1>4

\* What is left of a set that fits, fits.
LEMMA StillFits ==
    ASSUME IInv, TypeOK', Installed' \cup Pending' \subseteq Installed \cup Pending
    PROVE  Cardinality((Installed \cup Pending)') <= Bound
  <1>1. Installed \cup Pending \in SUBSET Names
    BY DEF IInv, TypeOK, Installed, Pending
  <1>2. Cardinality(Installed \cup Pending) <= Bound
    BY DEF IInv, Bound
  <1> QED  BY <1>1, <1>2, PartFits, BoundType

LEMMA InitInv == Init => IInv
  <1> SUFFICES ASSUME Init PROVE IInv
    OBVIOUS
  <1>1. TypeOK
    BY DEF Init, TypeOK, Installed, check_updates
  <1>2. Installed \cup Pending = {}
    BY DEF Init, Installed, Pending
  <1>3. Cardinality(Installed \cup Pending) <= Bound
    BY <1>2, FS_EmptySet, BoundType
  <1> QED  BY <1>1, <1>3 DEF IInv, Init, SecondInstallOverlaps, Bound

\* The calls of one caller leave the records of the others alone.
LEMMA StepType ==
    ASSUME IInv, Next
    PROVE  TypeOK'
  <1> USE OperatorHubAssumption DEF IInv, TypeOK, Installed, Goto, HubOperator,
         check_updates
  <1>1. ASSUME NEW c \in Callers, CheckInstalled(c)
        PROVE  TypeOK'
    BY <1>1 DEF CheckInstalled
  <1>2. ASSUME NEW c \in Callers, Insert(c)
        PROVE  TypeOK'
    BY <1>2 DEF Insert
  <1>3. ASSUME NEW c \in Callers, NEW n \in Names, Install(c, n)
        PROVE  TypeOK'
    BY <1>3 DEF Install
  <1>4. ASSUME NEW c \in Callers, NEW n \in Names, Uninstall(c, n) \/ Upgrade(c, n)
        PROVE  TypeOK'
    BY <1>4 DEF Uninstall, Upgrade
  <1> QED  BY <1>1, <1>2, <1>3, <1>4 DEF Next

\* A check saw room for one more, and nobody else has more than one to insert.
LEMMA StepCheck ==
    ASSUME IInv, TypeOK', NEW c \in Callers, CheckInstalled(c)
    PROVE  IInv'
  <1>1. /\ Installed' = Installed
        /\ \A d \in Callers \ {c} : pc'[d] = pc[d] /\ target'[d] = target[d]
        /\ overtaken' = overtaken /\ ~overtaken[c]
        /\ \/ pc'[c] = "idle" /\ target'[c] = {}
           \/ /\ pc'[c] = "insert" /\ target'[c] = target[c]
              /\ HasRoom /\ target[c] \cap Installed = {}
    BY DEF CheckInstalled, Goto, Installed, IInv, TypeOK
  <1>2. /\ \A d \in Callers : /\ pc'[d] # "idle" => \E n \in Names : target'[d] = {n}
                              /\ pc'[d] # "insert" => ~overtaken'[d]
        /\ SecondInstallOverlaps'
    <2>1. pc[c] = "check"
      BY DEF CheckInstalled
    <2> QED  BY <1>1, <2>1 DEF IInv, SecondInstallOverlaps
  <1>3. Cardinality((Installed \cup Pending)') <= Bound
    <2>1. CASE pc'[c] = "idle"
      <3>1. Pending' \subseteq Pending
        BY <1>1, <2>1 DEF Pending
      <3> QED  BY <1>1, <3>1, StillFits
    <2>2. CASE HasRoom
      <3>1. Pending' \in SUBSET Names /\ Cardinality(Pending') <= Cardinality(Callers)
        <4>1. \A d \in {e \in Callers : pc'[e] = "insert"} : \E n \in Names : target'[d] = {n}
          BY <1>2
        <4> QED  BY <4>1, TargetsFit DEF TypeOK, Pending
      <3>2. Installed' \in SUBSET Names /\ Cardinality(Installed') <= max_installed - 1
        BY <1>1, <2>2, PartFits, OperatorHubAssumption DEF HasRoom, Installed
      <3>3. Cardinality((Installed \cup Pending)')
               <= Cardinality(Installed') + Cardinality(Pending')
        BY <3>1, <3>2, TogetherFit
      <3> QED
        BY <3>1, <3>2, <3>3, PartFits, BoundType, OperatorHubAssumption DEF Bound
    <2> QED  BY <1>1, <2>1, <2>2
  <1> QED  BY <1>2, <1>3 DEF IInv, Bound

\* What was to be inserted is now installed; callers that are about to insert
\* the same operator have been overtaken.
LEMMA StepInsert ==
    ASSUME IInv, TypeOK', NEW c \in Callers, Insert(c)
    PROVE  IInv'
  <1>1. /\ pc[c] = "insert" /\ pc'[c] = "idle" /\ target'[c] = {} /\ ~overtaken'[c]
        /\ \A d \in Callers \ {c} :
              /\ pc'[d] = pc[d] /\ target'[d] = target[d]
              /\ overtaken'[d] = (overtaken[d] \/ (pc[d] = "insert" /\ target[d] = target[c]))
    BY DEF Insert, Goto, IInv, TypeOK
  <1>2. Installed' = Installed \cup target[c]
    BY OperatorHubAssumption DEF Insert, Installed, HubOperator, IInv, TypeOK
  <1>3. \A d \in Callers : /\ pc'[d] # "idle" => \E n \in Names : target'[d] = {n}
                           /\ pc'[d] # "insert" => ~overtaken'[d]
    BY <1>1 DEF IInv
  <1>4. SecondInstallOverlaps'
    <2> SUFFICES ASSUME NEW d \in Callers, pc'[d] = "insert",
                        target'[d] \cap Installed' # {}
                 PROVE  overtaken'[d]
      BY DEF SecondInstallOverlaps
    <2>1. d # c /\ pc[d] = "insert" /\ target'[d] = target[d]
      BY <1>1
    <2>2. CASE target[d] \cap Installed # {}
      BY <1>1, <2>1, <2>2 DEF IInv, SecondInstallOverlaps
    <2>3. CASE target[d] \cap target[c] # {}
      <3>1. target[d] = target[c]
        BY <1>1, <2>1, <2>3 DEF IInv
      <3> QED  BY <1>1, <2>1, <3>1
    <2> QED  BY <1>2, <2>1, <2>2, <2>3
  <1>5. Cardinality((Installed \cup Pending)') <= Bound
    <2>1. Pending' \subseteq Pending /\ target[c] \subseteq Pending
      BY <1>1 DEF Pending
    <2> QED  BY <1>2, <2>1, StillFits
  <1> QED  BY <1>3, <1>4, <1>5 DEF IInv, Bound

\* The other calls leave the decided insertions alone and install nothing.
LEMMA StepOther ==
    ASSUME IInv, TypeOK', NEW c \in Callers, NEW n \in Names,
           Install(c, n) \/ Uninstall(c, n) \/ Upgrade(c, n)
    PROVE  IInv'
  <1>1. /\ pc[c] = "idle" /\ pc'[c] # "insert" /\ overtaken' = overtaken
        /\ pc'[c] # "idle" => target'[c] = {n}
        /\ \A d \in Callers \ {c} : pc'[d] = pc[d] /\ target'[d] = target[d]
    BY DEF Install, Uninstall, Upgrade, Goto, IInv, TypeOK
  <1>2. Installed' \subseteq Installed
    BY DEF Install, Uninstall, Upgrade, Installed, IInv, TypeOK
  <1>3. Pending' \subseteq Pending
    BY <1>1 DEF Pending
  <1>4. Cardinality((Installed \cup Pending)') <= Bound
    BY <1>2, <1>3, StillFits
  <1>5. /\ \A d \in Callers : /\ pc'[d] # "idle" => \E m \in Names : target'[d] = {m}
                              /\ pc'[d] # "insert" => ~overtaken'[d]
        /\ SecondInstallOverlaps'
    BY <1>1, <1>2 DEF IInv, SecondInstallOverlaps
  <1> QED  BY <1>4, <1>5 DEF IInv, Bound

LEMMA StepInv == IInv /\ [Next]_vars => IInv'
  <1> SUFFICES ASSUME IInv, [Next]_vars PROVE IInv'
    OBVIOUS
  <1>1. CASE Next
    BY <1>1, StepType, StepCheck, StepInsert, StepOther DEF Next
  <1>2. CASE UNCHANGED vars
    BY <1>2 DEF vars, IInv, TypeOK, Installed, check_updates, Pending,
       SecondInstallOverlaps
  <1> QED  BY <1>1, <1>2

\* The inductive invariant holds for any finite sets of callers and operators.
THEOREM Invariance == Spec => []IInv
  BY InitInv, StepInv, PTL DEF Spec

\* Types, and that installed operators are always at the version of the hub.
THEOREM TypeCorrect == Spec => []TypeOK
  <1>1. IInv => TypeOK
    BY DEF IInv
  <1> QED  BY <1>1, Invariance, PTL

\* The capacity is exceeded by one operator per concurrent caller at most.
THEOREM CapacityBound == Spec => []CapacityExceededByOthersOnly
  <1>1. ASSUME IInv
        PROVE  CapacityExceededByOthersOnly
    <2>1. Installed \cup Pending \in SUBSET Names
      BY <1>1 DEF IInv, TypeOK, Installed, Pending
    <2>2. Cardinality(Installed \cup Pending) <= Bound
      BY <1>1 DEF IInv, Bound
    <2>3. Cardinality(Installed) <= Bound
      BY <2>1, <2>2, PartFits, BoundType
    <2> QED  BY <2>3 DEF CapacityExceededByOthersOnly, Bound
  <1> QED  BY <1>1, Invariance, PTL

\* Installs of the same operator only succeed together when they overlap.
THEOREM OverlapOnly == Spec => []SecondInstallOverlaps
  <1>1. IInv => SecondInstallOverlaps
    BY DEF IInv
  <1> QED  BY <1>1, Invariance, PTL
================================================================================
