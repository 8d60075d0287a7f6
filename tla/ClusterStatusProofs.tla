-------------------------- MODULE ClusterStatusProofs --------------------------
(***************************************************************************)
(* Proofs about ClusterStatus and ClusterStatusUpdates, for any specs and  *)
(* any bounds: whatever was published before, the next status has its four *)
(* conditions in their places, its parts tell one story, and its           *)
(* timestamps move exactly when what they stamp does.                      *)
(***************************************************************************)
EXTENDS ClusterStatusUpdates, FiniteSetTheorems, SequenceTheorems, TLAPS

-------------------------------------------------------------------------------
(***************************************************************************)
(* Shapes.                                                                 *)
(***************************************************************************)
Reasons == {"InvalidSpec", "AllBrokersReady", "BrokersNotReady", "MinimumAvailable",
            "NoBrokersAvailable", "ScalingUp", "ScalingDown", "UpToDate", "Healthy",
            "NoBrokersReady", "PartiallyReady", "TooManyReadyBrokers"}

Values == {"True", "False"}

Messages == Int \X Int

Condition == [type : Types, status : Values, reason : Reasons,
              message : Messages, lastTransitionTime : Int]

\* The order in which the builders set the conditions.
Place(i) == IF i = 1 THEN "Ready" ELSE IF i = 2 THEN "Available"
            ELSE IF i = 3 THEN "Progressing" ELSE "Degraded"

\* A list with the four conditions in their places.
FourConditions == {cs \in [1..4 -> Condition] : \A i \in 1..4 : cs[i].type = Place(i)}

Lists == FourConditions \cup {<<>>}

Phases == {"none", "Failed", "Running", "Scaling", "Pending"}

Statuses == [phase : Phases,
             readyReplicas : Int, replicas : Int, endpoints : Int,
             conditions : Lists, observedGeneration : Int, lastUpdated : Int]

Objects == [generation : Int, replicas : Int, errors : Nat]

\* What set_condition leaves in the place of a condition it finds.
Merged(old, new) ==
    [type |-> new.type, status |-> new.status, reason |-> new.reason,
     message |-> new.message,
     lastTransitionTime |-> IF old.status # new.status
                            THEN new.lastTransitionTime ELSE old.lastTransitionTime]

-------------------------------------------------------------------------------
(***************************************************************************)
(* set_condition.                                                          *)
(***************************************************************************)
\* Replacing a condition: the new data, and the old transition time as long as
\* the status stays.
LEMMA MergedIs ==
    ASSUME NEW old \in Condition, NEW new \in Condition, old.type = new.type
    PROVE  /\ Merged(old, new) \in Condition
           /\ (IF old.status # new.status THEN new
               ELSE [old EXCEPT !.reason = new.reason, !.message = new.message])
              = Merged(old, new)
<1>1. Merged(old, new) \in Condition
  BY DEF Merged, Condition
<1>2. CASE old.status # new.status
  BY <1>2 DEF Merged, Condition
<1>3. CASE old.status = new.status
  BY <1>3 DEF Merged, Condition
<1> QED  BY <1>1, <1>2, <1>3

\* Places have different types.
LEMMA PlaceType ==
    ASSUME NEW i \in 1..4
    PROVE  Place(i) \in Types /\ (\A j \in 1..4 : Place(i) = Place(j) => i = j)
BY DEF Place, Types

\* In a full list, set_condition changes the condition in its place.
LEMMA SetInPlace ==
    ASSUME NEW cs \in FourConditions, NEW i \in 1..4, NEW new \in Condition,
           new.type = Place(i)
    PROVE  /\ set_condition(cs, new) = [cs EXCEPT ![i] = Merged(cs[i], new)]
           /\ set_condition(cs, new) \in FourConditions
<1> DEFINE same == {k \in DOMAIN cs : cs[k].type = new.type}
<1>1. same = {i}
  BY PlaceType DEF FourConditions
<1>2. \A k \in same : (\A j \in same : k <= j) <=> k = i
  BY <1>1
<1>3. (CHOOSE k \in same : \A j \in same : k <= j) = i
  BY <1>1, <1>2
<1>4. cs[i] \in Condition /\ cs[i].type = new.type
  BY DEF FourConditions
<1>5. set_condition(cs, new) = [cs EXCEPT ![i] = Merged(cs[i], new)]
  BY <1>1, <1>3, <1>4, MergedIs DEF set_condition
<1>6. [cs EXCEPT ![i] = Merged(cs[i], new)] \in FourConditions
  BY <1>4, MergedIs DEF FourConditions, Merged
<1> QED  BY <1>5, <1>6

\* Whatever the list, no type gets a second condition, none is lost, and the
\* one that is set has the data given.
LEMMA SetKeepsTypesApart ==
    ASSUME NEW cs \in Seq(Condition), NEW new \in Condition,
           \A i, j \in DOMAIN cs : cs[i].type = cs[j].type => i = j
    PROVE  LET r == set_condition(cs, new) IN
           /\ r \in Seq(Condition)
           /\ \A i, j \in DOMAIN r : r[i].type = r[j].type => i = j
           /\ \A i \in DOMAIN cs : i \in DOMAIN r /\ r[i].type = cs[i].type
           /\ \E i \in DOMAIN r : /\ r[i].type = new.type
                                  /\ r[i].status = new.status
                                  /\ r[i].reason = new.reason
                                  /\ r[i].message = new.message
<1> DEFINE r == set_condition(cs, new)
           same == {k \in DOMAIN cs : cs[k].type = new.type}
           first == CHOOSE k \in same : \A j \in same : k <= j
<1>1. CASE same = {}
  <2>1. r = Append(cs, new)
    BY <1>1 DEF set_condition
  <2>2. /\ r \in Seq(Condition) /\ Len(r) = Len(cs) + 1
        /\ DOMAIN r = 1..(Len(cs) + 1) /\ DOMAIN cs = 1..Len(cs)
        /\ r[Len(cs) + 1] = new /\ \A i \in DOMAIN cs : r[i] = cs[i]
    BY <2>1
  <2>3. \A i \in DOMAIN cs : cs[i].type # new.type
    BY <1>1
  <2>4. Len(cs) \in Nat
    OBVIOUS
  <2> HIDE DEF r, same
  <2> QED  BY <2>2, <2>3, <2>4 DEF r
<1>2. CASE same # {}
  <2>1. PICK i \in same : TRUE
    BY <1>2
  <2>2. same = {i}
    BY <2>1
  <2>3. first = i
    BY <2>2
  <2>4. i \in DOMAIN cs /\ cs[i] \in Condition /\ cs[i].type = new.type
    BY <2>1
  <2>5. r = [cs EXCEPT ![i] = Merged(cs[i], new)]
    BY <2>2, <2>3, <2>4, MergedIs DEF set_condition
  <2>6. Merged(cs[i], new) \in Condition /\ Merged(cs[i], new).type = cs[i].type
    BY <2>4, MergedIs DEF Merged
  <2> DEFINE m == Merged(cs[i], new)
  <2>7. m.status = new.status /\ m.reason = new.reason /\ m.message = new.message
    BY DEF Merged
  <2> HIDE DEF m, r
  <2>8. /\ r = [cs EXCEPT ![i] = m] /\ m \in Condition /\ m.type = cs[i].type
    BY <2>5, <2>6 DEF m
  <2>9. DOMAIN r = DOMAIN cs /\ r[i] = m /\ r \in Seq(Condition)
    BY <2>4, <2>8
  <2>10. \A j \in DOMAIN cs : r[j].type = cs[j].type
    BY <2>4, <2>8
  <2> QED  BY <2>4, <2>7, <2>8, <2>9, <2>10 DEF r
<1> QED  BY <1>1, <1>2

-------------------------------------------------------------------------------
(***************************************************************************)
(* The list of a status.                                                   *)
(***************************************************************************)
\* Four conditions as the builders make them, at the time tm.
Built(a, b, c, d, tm) ==
    /\ a \in Condition /\ b \in Condition /\ c \in Condition /\ d \in Condition
    /\ a.type = "Ready" /\ b.type = "Available"
    /\ c.type = "Progressing" /\ d.type = "Degraded"
    /\ a.lastTransitionTime = tm /\ b.lastTransitionTime = tm
    /\ c.lastTransitionTime = tm /\ d.lastTransitionTime = tm

\* A condition of the list carries the data that was set.
Carries(condition, new) ==
    /\ condition.status = new.status
    /\ condition.reason = new.reason
    /\ condition.message = new.message

\* The transition times of the list new, which followed old at the time tm.
FreshTimes(old, new, tm) ==
    \A i \in DOMAIN old :
        new[i].lastTransitionTime =
            IF new[i].status # old[i].status THEN tm ELSE old[i].lastTransitionTime

\* Appending to a tuple.
LEMMA AppendIsTuple ==
    ASSUME NEW S, NEW a \in S, NEW b \in S, NEW c \in S
    PROVE  /\ Append(<<a>>, b) = <<a, b>>
           /\ Append(<<a, b>>, c) = <<a, b, c>>
<1>1. /\ <<a>> \in Seq(S) /\ <<a, b>> \in Seq(S)
      /\ <<a, b, c>> \in Seq(S)
  OBVIOUS
<1>2. Append(<<a>>, b) = <<a, b>>
  <2> DEFINE l == Append(<<a>>, b)
  <2>1. l \in Seq(S) /\ Len(l) = 2 /\ l[1] = a /\ l[2] = b
    BY <1>1, AppendProperties
  <2> DEFINE t == <<a, b>>
  <2>2. t \in Seq(S) /\ Len(t) = 2 /\ t[1] = a /\ t[2] = b
    BY <1>1
  <2> HIDE DEF l, t
  <2>3. \A i \in 1..Len(l) : l[i] = t[i]
    BY <2>1, <2>2
  <2>4. l = t
    BY <2>1, <2>2, <2>3, SeqEqual
  <2> QED  BY <2>4 DEF l, t
<1>3. Append(<<a, b>>, c) = <<a, b, c>>
  <2> DEFINE l == Append(<<a, b>>, c)
  <2>1. l \in Seq(S) /\ Len(l) = 3 /\ l[1] = a /\ l[2] = b /\ l[3] = c
    BY <1>1, AppendProperties
  <2> DEFINE t == <<a, b, c>>
  <2>2. t \in Seq(S) /\ Len(t) = 3 /\ t[1] = a /\ t[2] = b /\ t[3] = c
    BY <1>1
  <2> HIDE DEF l, t
  <2>3. \A i \in 1..Len(l) : l[i] = t[i]
    BY <2>1, <2>2
  <2>4. l = t
    BY <2>1, <2>2, <2>3, SeqEqual
  <2> QED  BY <2>4 DEF l, t
<1> QED  BY <1>2, <1>3

\* A list of four is the list of three with the fourth appended.
LEMMA AppendFourth ==
    ASSUME NEW S, NEW a \in S, NEW b \in S, NEW c \in S, NEW d \in S
    PROVE  Append(<<a, b, c>>, d) = <<a, b, c, d>>
<1>1. <<a, b, c>> \in Seq(S) /\ <<a, b, c, d>> \in Seq(S)
  OBVIOUS
<1> DEFINE l == Append(<<a, b, c>>, d)
<1>2. l \in Seq(S) /\ Len(l) = 4 /\ l[1] = a /\ l[2] = b /\ l[3] = c /\ l[4] = d
  BY <1>1, AppendProperties
<1> DEFINE t == <<a, b, c, d>>
<1>3. t \in Seq(S) /\ Len(t) = 4 /\ t[1] = a /\ t[2] = b /\ t[3] = c /\ t[4] = d
  BY <1>1
<1> HIDE DEF l, t
<1>4. \A i \in 1..Len(l) : l[i] = t[i]
  BY <1>2, <1>3
<1>5. l = t
  BY <1>2, <1>3, <1>4, SeqEqual
<1> QED  BY <1>5 DEF l, t

\* The first status: the conditions are appended in order.
LEMMA SeededEmpty ==
    ASSUME NEW current, current.conditions = <<>>, NEW tm \in Int,
           NEW a, NEW b, NEW c, NEW d, Built(a, b, c, d, tm)
    PROVE  seeded_conditions(current, a, b, c, d) = <<a, b, c, d>>
<1>0. a.type = "Ready" /\ b.type = "Available" /\ c.type = "Progressing" /\ d.type = "Degraded"
  BY DEF Built
<1>1. set_condition(<<>>, a) = <<a>>
  BY DEF set_condition
<1>2. set_condition(<<a>>, b) = <<a, b>>
  <2>1. \A k \in DOMAIN <<a>> : <<a>>[k].type \in {"Ready"}
    BY <1>0
  <2>2. {k \in DOMAIN <<a>> : <<a>>[k].type = b.type} = {}
    BY <1>0, <2>1
  <2>3. Append(<<a>>, b) = <<a, b>>
    <3>1. a \in Condition /\ b \in Condition /\ c \in Condition /\ d \in Condition
      BY DEF Built
    <3> QED  BY <3>1, AppendIsTuple
  <2> QED  BY <2>2, <2>3 DEF set_condition
<1>3. set_condition(<<a, b>>, c) = <<a, b, c>>
  <2>1. \A k \in DOMAIN <<a, b>> : <<a, b>>[k].type \in {"Ready", "Available"}
    BY <1>0
  <2>2. {k \in DOMAIN <<a, b>> : <<a, b>>[k].type = c.type} = {}
    BY <1>0, <2>1
  <2>3. Append(<<a, b>>, c) = <<a, b, c>>
    <3>1. a \in Condition /\ b \in Condition /\ c \in Condition /\ d \in Condition
      BY DEF Built
    <3> QED  BY <3>1, AppendIsTuple
  <2> QED  BY <2>2, <2>3 DEF set_condition
<1>4. set_condition(<<a, b, c>>, d) = <<a, b, c, d>>
  <2>1. \A k \in DOMAIN <<a, b, c>> : <<a, b, c>>[k].type \in {"Ready", "Available", "Progressing"}
    BY <1>0
  <2>2. {k \in DOMAIN <<a, b, c>> : <<a, b, c>>[k].type = d.type} = {}
    BY <1>0, <2>1
  <2>3. Append(<<a, b, c>>, d) = <<a, b, c, d>>
    <3>1. a \in Condition /\ b \in Condition /\ c \in Condition /\ d \in Condition
      BY DEF Built
    <3> QED  BY <3>1, AppendFourth
  <2> QED  BY <2>2, <2>3 DEF set_condition
<1> QED  BY <1>1, <1>2, <1>3, <1>4 DEF seeded_conditions

\* Every later status: each condition changes in its place.
LEMMA SeededFull ==
    ASSUME NEW current, current.conditions \in FourConditions, NEW tm \in Int,
           NEW a, NEW b, NEW c, NEW d, Built(a, b, c, d, tm)
    PROVE  LET old == current.conditions
               r == seeded_conditions(current, a, b, c, d)
           IN  /\ r \in FourConditions
               /\ r[1] = Merged(old[1], a) /\ r[2] = Merged(old[2], b)
               /\ r[3] = Merged(old[3], c) /\ r[4] = Merged(old[4], d)
<1> DEFINE o == current.conditions
           s1 == set_condition(o, a)
           s2 == set_condition(s1, b)
           s3 == set_condition(s2, c)
           s4 == set_condition(s3, d)
<1>0. seeded_conditions(current, a, b, c, d) = s4
  BY DEF seeded_conditions
<1>1. o \in FourConditions
  OBVIOUS
<1> HIDE DEF o, s1, s2, s3, s4
<1>2. s1 = [o EXCEPT ![1] = Merged(o[1], a)] /\ s1 \in FourConditions
  <2>1. a \in Condition /\ a.type = Place(1)
    BY DEF Built, Place
  <2> QED  BY <1>1, <2>1, SetInPlace DEF s1
<1>3. s2 = [s1 EXCEPT ![2] = Merged(s1[2], b)] /\ s2 \in FourConditions
  <2>1. b \in Condition /\ b.type = Place(2)
    BY DEF Built, Place
  <2>2. s1 \in FourConditions
    BY <1>2
  <2> QED  BY <2>1, <2>2, SetInPlace DEF s2
<1>4. s3 = [s2 EXCEPT ![3] = Merged(s2[3], c)] /\ s3 \in FourConditions
  <2>1. c \in Condition /\ c.type = Place(3)
    BY DEF Built, Place
  <2>2. s2 \in FourConditions
    BY <1>3
  <2> QED  BY <2>1, <2>2, SetInPlace DEF s3
<1>5. s4 = [s3 EXCEPT ![4] = Merged(s3[4], d)] /\ s4 \in FourConditions
  <2>1. d \in Condition /\ d.type = Place(4)
    BY DEF Built, Place
  <2>2. s3 \in FourConditions
    BY <1>4
  <2> QED  BY <2>1, <2>2, SetInPlace DEF s4
<1>6. s4[1] = s3[1] /\ s4[2] = s3[2] /\ s4[3] = s3[3] /\ s4[4] = Merged(s3[4], d)
  BY <1>4, <1>5 DEF FourConditions
<1>7. s3[1] = s2[1] /\ s3[2] = s2[2] /\ s3[3] = Merged(s2[3], c) /\ s3[4] = s2[4]
  BY <1>3, <1>4 DEF FourConditions
<1>8. s2[1] = s1[1] /\ s2[2] = Merged(s1[2], b) /\ s2[3] = s1[3] /\ s2[4] = s1[4]
  BY <1>2, <1>3 DEF FourConditions
<1>9. s1[1] = Merged(o[1], a) /\ s1[2] = o[2] /\ s1[3] = o[3] /\ s1[4] = o[4]
  BY <1>1, <1>2 DEF FourConditions
<1>10. s4 \in FourConditions /\ s4[1] = Merged(o[1], a) /\ s4[2] = Merged(o[2], b)
       /\ s4[3] = Merged(o[3], c) /\ s4[4] = Merged(o[4], d)
  BY <1>5, <1>6, <1>7, <1>8, <1>9
<1> QED  BY <1>0, <1>10 DEF o

\* Either way: the four conditions with the data that was set, and transition
\* times that moved exactly where the status did.
LEMMA Seeded ==
    ASSUME NEW current, current.conditions \in Lists, NEW tm \in Int,
           NEW a, NEW b, NEW c, NEW d, Built(a, b, c, d, tm)
    PROVE  LET r == seeded_conditions(current, a, b, c, d) IN
           /\ r \in FourConditions
           /\ Carries(r[1], a) /\ Carries(r[2], b) /\ Carries(r[3], c) /\ Carries(r[4], d)
           /\ FreshTimes(current.conditions, r, tm)
<1> DEFINE r == seeded_conditions(current, a, b, c, d)
<1>1. CASE current.conditions = <<>>
  <2>1. r = <<a, b, c, d>>
    BY <1>1, SeededEmpty
  <2> HIDE DEF r
  <2>2. r[1] = a /\ r[2] = b /\ r[3] = c /\ r[4] = d /\ r \in [1..4 -> Condition]
    BY <2>1 DEF Built
  <2>3. r \in FourConditions
    BY <2>2 DEF FourConditions, Built, Place
  <2>4. FreshTimes(current.conditions, r, tm)
    BY <1>1 DEF FreshTimes
  <2>5. /\ r \in FourConditions
        /\ Carries(r[1], a) /\ Carries(r[2], b) /\ Carries(r[3], c) /\ Carries(r[4], d)
    BY <2>2, <2>3 DEF Carries
  <2> QED  BY <2>4, <2>5 DEF r
<1>2. CASE current.conditions \in FourConditions
  <2> DEFINE o == current.conditions
  <2>1. /\ r \in FourConditions
        /\ r[1] = Merged(o[1], a) /\ r[2] = Merged(o[2], b)
        /\ r[3] = Merged(o[3], c) /\ r[4] = Merged(o[4], d)
    BY <1>2, SeededFull
  <2> HIDE DEF r
  <2>2. Carries(r[1], a) /\ Carries(r[2], b) /\ Carries(r[3], c) /\ Carries(r[4], d)
    BY <2>1 DEF Carries, Merged
  <2>3. \A i \in 1..4 :
            r[i].lastTransitionTime =
                IF r[i].status # o[i].status THEN tm ELSE o[i].lastTransitionTime
    <3> SUFFICES ASSUME NEW i \in 1..4
                 PROVE  r[i].lastTransitionTime =
                          IF r[i].status # o[i].status THEN tm
                          ELSE o[i].lastTransitionTime
      OBVIOUS
    <3>1. PICK n \in {a, b, c, d} : r[i] = Merged(o[i], n)
      BY <2>1
    <3>2. n.lastTransitionTime = tm
      BY DEF Built
    <3> HIDE DEF o
    <3> QED  BY <3>1, <3>2 DEF Merged
  <2>4. DOMAIN o = 1..4
    BY <1>2 DEF FourConditions
  <2>5. FreshTimes(current.conditions, r, tm)
    BY <2>3, <2>4 DEF FreshTimes
  <2> QED  BY <2>1, <2>2, <2>5 DEF r
<1> QED  BY <1>1, <1>2 DEF Lists

-------------------------------------------------------------------------------
(***************************************************************************)
(* The status of one reconciliation.                                       *)
(***************************************************************************)
\* What ConditionsAgree says of a status, with every condition in its place.
Story(st) ==
    LET is(i, v) == st.conditions[i].status = v IN
    /\ st.conditions \in FourConditions
    /\ st.phase = "Running" <=> is(1, "True")
    /\ is(1, "True") <=> is(4, "False")
    /\ is(2, "True") <=> st.readyReplicas > 0
    /\ is(3, "False") <=> st.phase \in {"Running", "Failed"}
    /\ st.phase = "Failed" <=>
          \A i \in 1..4 : st.conditions[i].reason = "InvalidSpec"

\* The words the builders use.
LEMMA Vocabulary ==
    /\ "Ready" \in Types /\ "Available" \in Types
    /\ "Progressing" \in Types /\ "Degraded" \in Types
    /\ "True" \in Values /\ "False" \in Values
    /\ "InvalidSpec" \in Reasons /\ "AllBrokersReady" \in Reasons
    /\ "BrokersNotReady" \in Reasons /\ "MinimumAvailable" \in Reasons
    /\ "NoBrokersAvailable" \in Reasons /\ "ScalingUp" \in Reasons
    /\ "ScalingDown" \in Reasons /\ "UpToDate" \in Reasons /\ "Healthy" \in Reasons
    /\ "NoBrokersReady" \in Reasons /\ "PartiallyReady" \in Reasons
    /\ "TooManyReadyBrokers" \in Reasons
BY DEF Types, Values, Reasons

\* One condition as build_condition makes it.
LEMMA BuildCondition ==
    ASSUME NEW type \in Types, NEW v \in Values, NEW reason \in Reasons,
           NEW m \in Messages, NEW tm \in Int
    PROVE  LET c == build_condition(type, v, reason, m, tm) IN
           /\ c \in Condition /\ c.type = type /\ c.status = v /\ c.reason = reason
           /\ c.lastTransitionTime = tm
BY DEF build_condition, Condition

\* The status before its timestamp is settled.
Draft(o, current, n, tm) ==
    IF o.errors # 0
    THEN [phase |-> "Failed", readyReplicas |-> 0, replicas |-> o.replicas,
          endpoints |-> 0,
          conditions |-> invalid_spec_conditions(current, o.errors, tm),
          observedGeneration |-> o.generation, lastUpdated |-> 0]
    ELSE [phase |-> phase_of(n, o.replicas), readyReplicas |-> n,
          replicas |-> o.replicas, endpoints |-> o.replicas,
          conditions |-> observed_conditions(current, n, o.replicas, tm),
          observedGeneration |-> o.generation, lastUpdated |-> 0]

\* desired_status without its CASE: a draft, with its timestamps settled.
LEMMA DesiredIsDraft ==
    ASSUME NEW o, NEW current, NEW n, NEW tm
    PROVE  desired_status(o, current, n, tm) =
             with_stable_timestamp(current, Draft(o, current, n, tm), tm)
BY DEF desired_status, invalid_status, observed_status, Draft

\* A rejected spec.
LEMMA InvalidConditions ==
    ASSUME NEW current, current.conditions \in Lists, NEW e \in Nat, NEW tm \in Int
    PROVE  LET r == invalid_spec_conditions(current, e, tm) IN
           /\ r \in FourConditions /\ FreshTimes(current.conditions, r, tm)
           /\ r[1].status = "False" /\ r[2].status = "False"
           /\ r[3].status = "False" /\ r[4].status = "True"
           /\ \A i \in 1..4 : r[i].reason = "InvalidSpec"
<1> DEFINE message == <<e, 0>>
           none == <<0, 0>>
           a == build_condition("Ready", "False", "InvalidSpec", message, tm)
           b == build_condition("Available", "False", "InvalidSpec", message, tm)
           c == build_condition("Progressing", "False", "InvalidSpec", none, tm)
           d == build_condition("Degraded", "True", "InvalidSpec", message, tm)
           r == invalid_spec_conditions(current, e, tm)
<1>0. message \in Messages /\ none \in Messages
  BY DEF Messages
<1>1. r = seeded_conditions(current, a, b, c, d)
  BY DEF invalid_spec_conditions
<1> HIDE DEF message, none
<1>2. /\ a \in Condition /\ a.type = "Ready" /\ a.lastTransitionTime = tm
      /\ a.status = "False" /\ a.reason = "InvalidSpec"
  BY <1>0, Vocabulary, BuildCondition
<1>3. /\ b \in Condition /\ b.type = "Available" /\ b.lastTransitionTime = tm
      /\ b.status = "False" /\ b.reason = "InvalidSpec"
  BY <1>0, Vocabulary, BuildCondition
<1>4. /\ c \in Condition /\ c.type = "Progressing" /\ c.lastTransitionTime = tm
      /\ c.status = "False" /\ c.reason = "InvalidSpec"
  BY <1>0, Vocabulary, BuildCondition
<1>5. /\ d \in Condition /\ d.type = "Degraded" /\ d.lastTransitionTime = tm
      /\ d.status = "True" /\ d.reason = "InvalidSpec"
  BY <1>0, Vocabulary, BuildCondition
<1> HIDE DEF a, b, c, d, r
<1>6. Built(a, b, c, d, tm)
  BY <1>2, <1>3, <1>4, <1>5 DEF Built
<1>7. /\ r \in FourConditions /\ FreshTimes(current.conditions, r, tm)
      /\ Carries(r[1], a) /\ Carries(r[2], b) /\ Carries(r[3], c) /\ Carries(r[4], d)
  BY <1>1, <1>6, Seeded
<1>8. /\ r[1].status = "False" /\ r[2].status = "False"
      /\ r[3].status = "False" /\ r[4].status = "True"
      /\ r[1].reason = "InvalidSpec" /\ r[2].reason = "InvalidSpec"
      /\ r[3].reason = "InvalidSpec" /\ r[4].reason = "InvalidSpec"
  BY <1>2, <1>3, <1>4, <1>5, <1>7 DEF Carries
<1>9. \A i \in 1..4 : r[i].reason = "InvalidSpec"
  BY <1>8
<1> QED  BY <1>7, <1>8, <1>9 DEF r

\* An accepted spec.
LEMMA ObservedConditions ==
    ASSUME NEW current, current.conditions \in Lists, NEW n \in Nat, NEW want \in Int,
           NEW tm \in Int
    PROVE  LET r == observed_conditions(current, n, want, tm) IN
           /\ r \in FourConditions /\ FreshTimes(current.conditions, r, tm)
           /\ r[1].status = "True" <=> n = want
           /\ r[2].status = "True" <=> n > 0
           /\ r[3].status = "False" <=> n = want
           /\ r[4].status = "False" <=> n = want
           /\ r[1].reason # "InvalidSpec"
<1> DEFINE count == <<n, want>>
           some == <<n, 0>>
           none == <<0, 0>>
           c(type, v, reason, message) == build_condition(type, v, reason, message, tm)
           all == IF n = want THEN c("Ready", "True", "AllBrokersReady", count)
                  ELSE c("Ready", "False", "BrokersNotReady", count)
           available == IF n > 0 THEN c("Available", "True", "MinimumAvailable", some)
                        ELSE c("Available", "False", "NoBrokersAvailable", none)
           progressing == IF n < want THEN c("Progressing", "True", "ScalingUp", count)
                          ELSE IF n > want
                          THEN c("Progressing", "True", "ScalingDown", count)
                          ELSE c("Progressing", "False", "UpToDate", none)
           degraded == IF n = want THEN c("Degraded", "False", "Healthy", none)
                       ELSE IF n = 0 THEN c("Degraded", "True", "NoBrokersReady", count)
                       ELSE IF n < want
                       THEN c("Degraded", "True", "PartiallyReady", count)
                       ELSE c("Degraded", "True", "TooManyReadyBrokers", count)
           r == observed_conditions(current, n, want, tm)
<1>0. count \in Messages /\ some \in Messages /\ none \in Messages
  BY DEF Messages
<1>1. r = seeded_conditions(current, all, available, progressing, degraded)
  BY DEF observed_conditions
<1> HIDE DEF count, some, none
<1>2. /\ all \in Condition /\ all.type = "Ready" /\ all.lastTransitionTime = tm
      /\ all.status = "True" <=> n = want
      /\ all.reason # "InvalidSpec"
  <2>1. CASE n = want
    <3>1. all = c("Ready", "True", "AllBrokersReady", count)
      BY <2>1
    <3> HIDE DEF all
    <3>2. /\ all \in Condition /\ all.type = "Ready" /\ all.lastTransitionTime = tm
          /\ all.status = "True" /\ all.reason = "AllBrokersReady"
      BY <1>0, <3>1, Vocabulary, BuildCondition
    <3> QED  BY <2>1, <3>2
  <2>2. CASE n # want
    <3>1. all = c("Ready", "False", "BrokersNotReady", count)
      BY <2>2
    <3> HIDE DEF all
    <3>2. /\ all \in Condition /\ all.type = "Ready" /\ all.lastTransitionTime = tm
          /\ all.status = "False" /\ all.reason = "BrokersNotReady"
      BY <1>0, <3>1, Vocabulary, BuildCondition
    <3> QED  BY <2>2, <3>2
  <2> QED  BY <2>1, <2>2
<1>3. /\ available \in Condition /\ available.type = "Available"
      /\ available.lastTransitionTime = tm
      /\ available.status = "True" <=> n > 0
  <2>1. CASE n > 0
    <3>1. available = c("Available", "True", "MinimumAvailable", some)
      BY <2>1
    <3> HIDE DEF available
    <3>2. /\ available \in Condition /\ available.type = "Available" /\ available.lastTransitionTime = tm
          /\ available.status = "True" /\ available.reason = "MinimumAvailable"
      BY <1>0, <3>1, Vocabulary, BuildCondition
    <3> QED  BY <2>1, <3>2
  <2>2. CASE ~(n > 0)
    <3>1. available = c("Available", "False", "NoBrokersAvailable", none)
      BY <2>2
    <3> HIDE DEF available
    <3>2. /\ available \in Condition /\ available.type = "Available" /\ available.lastTransitionTime = tm
          /\ available.status = "False" /\ available.reason = "NoBrokersAvailable"
      BY <1>0, <3>1, Vocabulary, BuildCondition
    <3> QED  BY <2>2, <3>2
  <2> QED  BY <2>1, <2>2
<1>4. /\ progressing \in Condition /\ progressing.type = "Progressing"
      /\ progressing.lastTransitionTime = tm
      /\ progressing.status = "False" <=> n = want
  <2>1. CASE n < want
    <3>1. progressing = c("Progressing", "True", "ScalingUp", count)
      BY <2>1
    <3> HIDE DEF progressing
    <3>2. /\ progressing \in Condition /\ progressing.type = "Progressing" /\ progressing.lastTransitionTime = tm
          /\ progressing.status = "True" /\ progressing.reason = "ScalingUp"
      BY <1>0, <3>1, Vocabulary, BuildCondition
    <3> QED  BY <2>1, <3>2
  <2>2. CASE n > want
    <3>1. progressing = c("Progressing", "True", "ScalingDown", count)
      BY <2>2
    <3> HIDE DEF progressing
    <3>2. /\ progressing \in Condition /\ progressing.type = "Progressing" /\ progressing.lastTransitionTime = tm
          /\ progressing.status = "True" /\ progressing.reason = "ScalingDown"
      BY <1>0, <3>1, Vocabulary, BuildCondition
    <3> QED  BY <2>2, <3>2
  <2>3. CASE n = want
    <3>1. progressing = c("Progressing", "False", "UpToDate", none)
      BY <2>3
    <3> HIDE DEF progressing
    <3>2. /\ progressing \in Condition /\ progressing.type = "Progressing" /\ progressing.lastTransitionTime = tm
          /\ progressing.status = "False" /\ progressing.reason = "UpToDate"
      BY <1>0, <3>1, Vocabulary, BuildCondition
    <3> QED  BY <2>3, <3>2
  <2> QED  BY <2>1, <2>2, <2>3
<1>5. /\ degraded \in Condition /\ degraded.type = "Degraded"
      /\ degraded.lastTransitionTime = tm
      /\ degraded.status = "False" <=> n = want
  <2>1. CASE n = want
    <3>1. degraded = c("Degraded", "False", "Healthy", none)
      BY <2>1
    <3> HIDE DEF degraded
    <3>2. /\ degraded \in Condition /\ degraded.type = "Degraded" /\ degraded.lastTransitionTime = tm
          /\ degraded.status = "False" /\ degraded.reason = "Healthy"
      BY <1>0, <3>1, Vocabulary, BuildCondition
    <3> QED  BY <2>1, <3>2
  <2>2. CASE n # want /\ n = 0
    <3>1. degraded = c("Degraded", "True", "NoBrokersReady", count)
      BY <2>2
    <3> HIDE DEF degraded
    <3>2. /\ degraded \in Condition /\ degraded.type = "Degraded" /\ degraded.lastTransitionTime = tm
          /\ degraded.status = "True" /\ degraded.reason = "NoBrokersReady"
      BY <1>0, <3>1, Vocabulary, BuildCondition
    <3> QED  BY <2>2, <3>2
  <2>3. CASE n < want /\ n # 0
    <3>1. degraded = c("Degraded", "True", "PartiallyReady", count)
      BY <2>3
    <3> HIDE DEF degraded
    <3>2. /\ degraded \in Condition /\ degraded.type = "Degraded" /\ degraded.lastTransitionTime = tm
          /\ degraded.status = "True" /\ degraded.reason = "PartiallyReady"
      BY <1>0, <3>1, Vocabulary, BuildCondition
    <3> QED  BY <2>3, <3>2
  <2>4. CASE n > want /\ n # 0
    <3>1. degraded = c("Degraded", "True", "TooManyReadyBrokers", count)
      BY <2>4
    <3> HIDE DEF degraded
    <3>2. /\ degraded \in Condition /\ degraded.type = "Degraded" /\ degraded.lastTransitionTime = tm
          /\ degraded.status = "True" /\ degraded.reason = "TooManyReadyBrokers"
      BY <1>0, <3>1, Vocabulary, BuildCondition
    <3> QED  BY <2>4, <3>2
  <2> QED  BY <2>1, <2>2, <2>3, <2>4
<1> HIDE DEF all, available, progressing, degraded, r
<1>6. Built(all, available, progressing, degraded, tm)
  BY <1>2, <1>3, <1>4, <1>5 DEF Built
<1>7. /\ r \in FourConditions /\ FreshTimes(current.conditions, r, tm)
      /\ Carries(r[1], all) /\ Carries(r[2], available)
      /\ Carries(r[3], progressing) /\ Carries(r[4], degraded)
  BY <1>1, <1>6, Seeded
<1>8. /\ r[1].status = "True" <=> n = want
      /\ r[2].status = "True" <=> n > 0
      /\ r[3].status = "False" <=> n = want
      /\ r[4].status = "False" <=> n = want
      /\ r[1].reason # "InvalidSpec"
  BY <1>2, <1>3, <1>4, <1>5, <1>7 DEF Carries
<1> QED  BY <1>7, <1>8 DEF r

\* The draft is well formed and tells one story, whatever was published before.
LEMMA DraftTellsOneStory ==
    ASSUME NEW o \in Objects, NEW current \in Statuses, NEW n \in Nat, NEW tm \in Int
    PROVE  LET d == Draft(o, current, n, tm) IN
           /\ d \in Statuses /\ Story(d)
           /\ FreshTimes(current.conditions, d.conditions, tm)
<1> DEFINE d == Draft(o, current, n, tm)
           bad == invalid_spec_conditions(current, o.errors, tm)
           good == observed_conditions(current, n, o.replicas, tm)
<1>0. /\ o.generation \in Int /\ o.replicas \in Int /\ o.errors \in Nat
      /\ current.conditions \in Lists
  BY DEF Objects, Statuses
<1>1. CASE o.errors # 0
  <2>1. d = [phase |-> "Failed", readyReplicas |-> 0, replicas |-> o.replicas,
             endpoints |-> 0, conditions |-> bad,
             observedGeneration |-> o.generation, lastUpdated |-> 0]
    BY <1>1 DEF Draft
  <2>2. /\ bad \in FourConditions /\ FreshTimes(current.conditions, bad, tm)
        /\ bad[1].status = "False" /\ bad[2].status = "False"
        /\ bad[3].status = "False" /\ bad[4].status = "True"
        /\ \A i \in 1..4 : bad[i].reason = "InvalidSpec"
    BY <1>0, InvalidConditions
  <2> HIDE DEF d, bad
  <2>3. d \in Statuses
    BY <1>0, <2>1, <2>2 DEF Statuses, Phases, Lists
  <2>4. Story(d)
    BY <2>1, <2>2 DEF Story
  <2>5. FreshTimes(current.conditions, d.conditions, tm)
    BY <2>1, <2>2
  <2> QED  BY <2>3, <2>4, <2>5 DEF d
<1>2. CASE o.errors = 0
  <2> DEFINE p == phase_of(n, o.replicas)
  <2>1. d = [phase |-> p, readyReplicas |-> n, replicas |-> o.replicas,
             endpoints |-> o.replicas, conditions |-> good,
             observedGeneration |-> o.generation, lastUpdated |-> 0]
    BY <1>2 DEF Draft
  <2>2. /\ good \in FourConditions /\ FreshTimes(current.conditions, good, tm)
        /\ good[1].status = "True" <=> n = o.replicas
        /\ good[2].status = "True" <=> n > 0
        /\ good[3].status = "False" <=> n = o.replicas
        /\ good[4].status = "False" <=> n = o.replicas
        /\ good[1].reason # "InvalidSpec"
    BY <1>0, ObservedConditions
  <2>3. /\ p \in {"Running", "Scaling", "Pending"}
        /\ p = "Running" <=> n = o.replicas
    BY DEF phase_of
  <2> HIDE DEF d, good, p
  <2>4. d \in Statuses
    BY <1>0, <2>1, <2>2, <2>3 DEF Statuses, Phases, Lists
  <2>5. Story(d)
    BY <2>1, <2>2, <2>3 DEF Story
  <2>6. FreshTimes(current.conditions, d.conditions, tm)
    BY <2>1, <2>2
  <2> QED  BY <2>4, <2>5, <2>6 DEF d
<1> QED  BY <1>0, <1>1, <1>2

\* with_stable_timestamp changes lastUpdated only; it is the time of the write
\* unless the status is the current one again.
LEMMA StableTimestamp ==
    ASSUME NEW current \in Statuses, NEW draft \in Statuses, NEW tm \in Int
    PROVE  LET st == with_stable_timestamp(current, draft, tm) IN
           /\ st \in Statuses
           /\ st.phase = draft.phase /\ st.readyReplicas = draft.readyReplicas
           /\ st.replicas = draft.replicas /\ st.endpoints = draft.endpoints
           /\ st.conditions = draft.conditions
           /\ st.observedGeneration = draft.observedGeneration
           /\ st # current => st.lastUpdated = tm
           /\ [current EXCEPT !.lastUpdated = draft.lastUpdated] = draft => st = current
<1> DEFINE st == with_stable_timestamp(current, draft, tm)
           same == [current EXCEPT !.lastUpdated = draft.lastUpdated] = draft
<1>1. CASE same
  <2>1. st = [draft EXCEPT !.lastUpdated = current.lastUpdated]
    BY <1>1 DEF with_stable_timestamp
  <2>2. st = current
    BY <1>1, <2>1 DEF Statuses
  <2>3. /\ current.phase = draft.phase /\ current.readyReplicas = draft.readyReplicas
        /\ current.replicas = draft.replicas /\ current.endpoints = draft.endpoints
        /\ current.conditions = draft.conditions
        /\ current.observedGeneration = draft.observedGeneration
    BY <1>1 DEF Statuses
  <2> QED  BY <2>2, <2>3
<1>2. CASE ~same
  <2>1. st = [draft EXCEPT !.lastUpdated = tm]
    BY <1>2 DEF with_stable_timestamp
  <2> HIDE DEF st
  <2>2. /\ st \in Statuses /\ st.lastUpdated = tm
        /\ st.phase = draft.phase /\ st.readyReplicas = draft.readyReplicas
        /\ st.replicas = draft.replicas /\ st.endpoints = draft.endpoints
        /\ st.conditions = draft.conditions
        /\ st.observedGeneration = draft.observedGeneration
    BY <2>1 DEF Statuses
  <2> QED  BY <1>2, <2>2 DEF st
<1> QED  BY <1>1, <1>2

\* The status a reconciliation wants.
LEMMA DesiredStatus ==
    ASSUME NEW o \in Objects, NEW current \in Statuses, NEW n \in Nat, NEW tm \in Int
    PROVE  LET st == desired_status(o, current, n, tm) IN
           /\ st \in Statuses /\ Story(st)
           /\ FreshTimes(current.conditions, st.conditions, tm)
           /\ st # current => st.lastUpdated = tm
<1> DEFINE d == Draft(o, current, n, tm)
           st == desired_status(o, current, n, tm)
<1>1. st = with_stable_timestamp(current, d, tm)
  BY DesiredIsDraft
<1>2. d \in Statuses /\ Story(d) /\ FreshTimes(current.conditions, d.conditions, tm)
  BY DraftTellsOneStory
<1> HIDE DEF d, st
<1>3. /\ st \in Statuses /\ st.phase = d.phase /\ st.readyReplicas = d.readyReplicas
      /\ st.conditions = d.conditions /\ (st # current => st.lastUpdated = tm)
  BY <1>1, <1>2, StableTimestamp
<1>4. Story(st)
  BY <1>2, <1>3 DEF Story
<1> QED  BY <1>2, <1>3, <1>4 DEF st

-------------------------------------------------------------------------------
(***************************************************************************)
(* The statuses that are published.                                        *)
(***************************************************************************)
\* In a list with every condition in its place, Of finds it there.
LEMMA OfIsPlace ==
    ASSUME NEW st, st.conditions \in FourConditions
    PROVE  /\ Of(st, "Ready") = st.conditions[1]
           /\ Of(st, "Available") = st.conditions[2]
           /\ Of(st, "Progressing") = st.conditions[3]
           /\ Of(st, "Degraded") = st.conditions[4]
<1> DEFINE cs == st.conditions
           at(type) == CHOOSE i \in DOMAIN cs : cs[i].type = type
<1>1. /\ DOMAIN cs = 1..4 /\ cs[1].type = "Ready" /\ cs[2].type = "Available"
      /\ cs[3].type = "Progressing" /\ cs[4].type = "Degraded"
  BY DEF FourConditions, Place
<1>2. at("Ready") = 1 /\ at("Available") = 2 /\ at("Progressing") = 3 /\ at("Degraded") = 4
  <2> HIDE DEF cs
  <2>1. /\ \A i \in DOMAIN cs : cs[i].type = "Ready" <=> i = 1
        /\ \A i \in DOMAIN cs : cs[i].type = "Available" <=> i = 2
        /\ \A i \in DOMAIN cs : cs[i].type = "Progressing" <=> i = 3
        /\ \A i \in DOMAIN cs : cs[i].type = "Degraded" <=> i = 4
    BY <1>1
  <2>2. 1 \in DOMAIN cs /\ 2 \in DOMAIN cs /\ 3 \in DOMAIN cs /\ 4 \in DOMAIN cs
    BY <1>1
  <2>3. at("Ready") = 1
    BY <2>1, <2>2
  <2>4. at("Available") = 2
    BY <2>1, <2>2
  <2>5. at("Progressing") = 3
    BY <2>1, <2>2
  <2>6. at("Degraded") = 4
    BY <2>1, <2>2
  <2> QED  BY <2>3, <2>4, <2>5, <2>6
<1> QED  BY <1>2 DEF Of

\* There are as many types as places.
LEMMA FourTypes == Cardinality(Types) = 4
<1>1. IsFiniteSet({}) /\ Cardinality({}) = 0
  BY FS_EmptySet
<1>2. IsFiniteSet({"Ready"}) /\ Cardinality({"Ready"}) = 1
  BY FS_Singleton
<1>3. LET T == {"Ready"} \cup {"Available"} IN IsFiniteSet(T) /\ Cardinality(T) = 2
  BY <1>2, FS_AddElement
<1>4. LET T == {"Ready"} \cup {"Available"} \cup {"Progressing"}
      IN  IsFiniteSet(T) /\ Cardinality(T) = 3
  BY <1>3, FS_AddElement
<1>5. LET T == {"Ready"} \cup {"Available"} \cup {"Progressing"} \cup {"Degraded"}
      IN  Cardinality(T) = 4
  BY <1>4, FS_AddElement
<1>6. Types = {"Ready"} \cup {"Available"} \cup {"Progressing"} \cup {"Degraded"}
  BY DEF Types
<1> QED  BY <1>5, <1>6

\* A status that tells one story is what ConditionsAgree asks for.
LEMMA StoryAgrees ==
    ASSUME Story(status)
    PROVE  ConditionsAgree
<1> DEFINE cs == status.conditions
<1>1. cs \in FourConditions
  BY DEF Story
<1>2. Len(cs) = Cardinality(Types)
  <2> HIDE DEF cs
  <2>1. DOMAIN cs = 1..4 /\ cs \in [1..4 -> Condition]
    BY <1>1 DEF FourConditions
  <2>2. cs \in Seq(Condition)
    BY <2>1, SeqDef
  <2>3. Len(cs) \in Nat /\ DOMAIN cs = 1..Len(cs)
    BY <2>2, LenProperties
  <2>4. Len(cs) = 4
    BY <2>1, <2>3
  <2> QED  BY <2>4, FourTypes
<1>3. {cs[i].type : i \in DOMAIN cs} = Types
  <2> HIDE DEF cs
  <2>1. /\ DOMAIN cs = 1..4 /\ cs[1].type = "Ready" /\ cs[2].type = "Available"
        /\ cs[3].type = "Progressing" /\ cs[4].type = "Degraded"
    BY <1>1 DEF FourConditions, Place
  <2> QED  BY <2>1 DEF Types
<1>4. /\ Of(status, "Ready") = cs[1] /\ Of(status, "Available") = cs[2]
      /\ Of(status, "Progressing") = cs[3] /\ Of(status, "Degraded") = cs[4]
  BY <1>1, OfIsPlace
<1>5. (\A t \in Types : Of(status, t).reason = "InvalidSpec")
         <=> (\A i \in 1..4 : cs[i].reason = "InvalidSpec")
  <2> HIDE DEF cs
  <2> QED  BY <1>4 DEF Types
<1> QED  BY <1>2, <1>3, <1>4, <1>5 DEF ConditionsAgree, Story

\* The inductive invariant: whatever is published or cached is well formed, and
\* what is published tells one story.
IInv ==
    /\ object \in Objects
    /\ status \in Statuses
    /\ cache \in [object : Objects, status : Statuses]
    /\ ready \in Nat
    /\ now \in Int
    /\ status # NoStatus => Story(status)
    /\ cache.status # NoStatus => Story(cache.status)

\* Every edit stores an object.
LEMMA SpecObjects ==
    ASSUME NEW s \in Specs, NEW g \in Int
    PROVE  Object(g, s[1], s[2]) \in Objects
BY ClusterStatusAssumption DEF Object, Objects

\* Having no status is a status with no conditions.
LEMMA NoStatusType == NoStatus \in Statuses
BY DEF NoStatus, Statuses, Phases, Lists

\* What is published by a step.
LEMMA ReconcilePublishes ==
    ASSUME IInv, Reconcile, status' # status
    PROVE  /\ status' \in Statuses /\ Story(status')
           /\ FreshTimes(cache.status.conditions, status'.conditions, now)
           /\ status'.lastUpdated = now
<1> DEFINE st == desired_status(cache.object, cache.status, ready, now)
<1>1. status' = st /\ st # cache.status
  BY DEF Reconcile, patch_status_if_changed
<1>2. cache.object \in Objects /\ cache.status \in Statuses /\ ready \in Nat /\ now \in Int
  BY DEF IInv
<1> HIDE DEF st
<1>3. /\ st \in Statuses /\ Story(st)
      /\ FreshTimes(cache.status.conditions, st.conditions, now)
      /\ st.lastUpdated = now
  BY <1>1, <1>2, DesiredStatus DEF st
<1> QED  BY <1>1, <1>3

\* Only a reconciliation changes the status.
LEMMA StatusFrame ==
    ASSUME [Next]_vars
    PROVE  status' = status \/ Reconcile
BY DEF Next, Edit, PodsChange, Tick, Observe, vars

\* Every state is well formed and what is published tells one story.
THEOREM Invariance == Spec => []IInv
<1>1. Init => IInv
  <2> SUFFICES ASSUME Init PROVE IInv
    OBVIOUS
  <2>1. object \in Objects
    BY SpecObjects DEF Init
  <2>2. status = NoStatus /\ status \in Statuses
    BY NoStatusType DEF Init
  <2> QED  BY <2>1, <2>2 DEF Init, IInv
<1>2. IInv /\ [Next]_vars => IInv'
  <2> SUFFICES ASSUME IInv, [Next]_vars PROVE IInv'
    OBVIOUS
  <2>1. CASE Edit
    <3>1. object' \in Objects
      <4>1. object.generation + 1 \in Int
        BY DEF IInv, Objects
      <4> QED  BY <2>1, <4>1, SpecObjects DEF Edit
    <3> QED  BY <2>1, <3>1 DEF Edit, IInv, Story
  <2>2. CASE PodsChange
    BY <2>2, ClusterStatusAssumption DEF PodsChange, IInv, Story
  <2>3. CASE Tick
    BY <2>3 DEF Tick, IInv, Story
  <2>4. CASE Observe
    BY <2>4 DEF Observe, IInv, Story
  <2>5. CASE Reconcile
    <3>1. UNCHANGED <<object, cache, ready, now>>
      BY <2>5 DEF Reconcile
    <3>2. CASE status' = status
      BY <3>1, <3>2 DEF IInv, Story
    <3>3. CASE status' # status
      BY <2>5, <3>1, <3>3, ReconcilePublishes DEF IInv, Story
    <3> QED  BY <3>2, <3>3
  <2>6. CASE UNCHANGED vars
    BY <2>6 DEF vars, IInv, Story
  <2> QED  BY <2>1, <2>2, <2>3, <2>4, <2>5, <2>6 DEF Next
<1> QED  BY <1>1, <1>2, PTL DEF Spec

\* Whatever sequence of statuses was published before, a status has exactly one
\* condition of every type, and its phase and conditions tell one story.
THEOREM Agreement == Spec => []ConditionsAgree
<1>1. IInv => ConditionsAgree
  BY StoryAgrees DEF IInv, ConditionsAgree
<1> QED  BY <1>1, Invariance, PTL

-------------------------------------------------------------------------------
(***************************************************************************)
(* The timestamps.                                                         *)
(***************************************************************************)
\* However old the copy is, the transition time of a condition moves exactly when
\* the condition's status differs from the copy's, and lastUpdated moves with
\* every write.
THEOREM Timestamps == Spec => TransitionTimesTellTheTruth
<1>1. ASSUME IInv, [Next]_vars, cache.status # NoStatus, status' # status
      PROVE  /\ status'.lastUpdated = now
             /\ \A t \in Types :
                   Of(status', t).lastTransitionTime =
                      IF Of(status', t).status # Of(cache.status, t).status
                      THEN now ELSE Of(cache.status, t).lastTransitionTime
  <2> DEFINE old == cache.status.conditions
             new == status'.conditions
  <2>1. Reconcile
    BY <1>1, StatusFrame
  <2>2. /\ Story(status') /\ FreshTimes(old, new, now)
        /\ status'.lastUpdated = now
    BY <1>1, <2>1, ReconcilePublishes
  <2>3. old \in FourConditions /\ new \in FourConditions
    BY <1>1, <2>2 DEF IInv, Story
  <2>4. /\ Of(cache.status, "Ready") = old[1] /\ Of(cache.status, "Available") = old[2]
        /\ Of(cache.status, "Progressing") = old[3] /\ Of(cache.status, "Degraded") = old[4]
    BY <2>3, OfIsPlace
  <2>5. /\ Of(status', "Ready") = new[1] /\ Of(status', "Available") = new[2]
        /\ Of(status', "Progressing") = new[3] /\ Of(status', "Degraded") = new[4]
    BY <2>3, OfIsPlace
  <2> HIDE DEF old, new
  <2>6. \A i \in 1..4 :
           new[i].lastTransitionTime =
              IF new[i].status # old[i].status THEN now ELSE old[i].lastTransitionTime
    BY <2>2, <2>3 DEF FreshTimes, FourConditions
  <2>7. \A t \in Types : \E i \in 1..4 : Of(cache.status, t) = old[i] /\ Of(status', t) = new[i]
    BY <2>4, <2>5 DEF Types
  <2> QED  BY <2>2, <2>6, <2>7
<1>2. IInv /\ [Next]_vars
        => (cache.status # NoStatus /\ status' # status =>
              /\ status'.lastUpdated = now
              /\ \A t \in Types :
                    Of(status', t).lastTransitionTime =
                       IF Of(status', t).status # Of(cache.status, t).status
                       THEN now ELSE Of(cache.status, t).lastTransitionTime)
  BY <1>1
<1> QED  BY <1>2, Invariance, PTL DEF Spec, TransitionTimesTellTheTruth

\* A status without its timestamps keeps everything else.
LEMMA SemanticIs ==
    ASSUME NEW st \in Statuses
    PROVE  /\ Semantic(st).phase = st.phase
           /\ Semantic(st).readyReplicas = st.readyReplicas
           /\ Semantic(st).replicas = st.replicas
           /\ Semantic(st).endpoints = st.endpoints
           /\ Semantic(st).observedGeneration = st.observedGeneration
           /\ Semantic(st).conditions =
                 [i \in DOMAIN st.conditions |->
                    [st.conditions[i] EXCEPT !.lastTransitionTime = 0]]
BY DEF Semantic, Statuses

\* Two lists that differ in timestamps only, the second made after the first:
\* as no status of a condition changed, no timestamp did.
LEMMA SameConditions ==
    ASSUME NEW old \in Lists, NEW new \in FourConditions, NEW tm,
           FreshTimes(old, new, tm),
           [i \in DOMAIN old |-> [old[i] EXCEPT !.lastTransitionTime = 0]]
             = [i \in DOMAIN new |-> [new[i] EXCEPT !.lastTransitionTime = 0]]
    PROVE  new = old
<1> DEFINE o == [i \in DOMAIN old |-> [old[i] EXCEPT !.lastTransitionTime = 0]]
           n == [i \in DOMAIN new |-> [new[i] EXCEPT !.lastTransitionTime = 0]]
<1>1. o = n
  OBVIOUS
<1>2. DOMAIN o = DOMAIN old /\ DOMAIN n = DOMAIN new
  OBVIOUS
<1>3. DOMAIN new = 1..4
  BY DEF FourConditions
<1>4. DOMAIN old = 1..4
  <2> HIDE DEF o, n
  <2> QED  BY <1>1, <1>2, <1>3
<1>5. old \in [1..4 -> Condition] /\ new \in [1..4 -> Condition]
  <2>1. old # <<>>
    <3> SUFFICES ASSUME old = <<>> PROVE FALSE
      OBVIOUS
    <3>1. 1 \in DOMAIN <<>>
      BY <1>4
    <3> QED  BY <3>1
  <2> QED  BY <2>1 DEF Lists, FourConditions
<1>6. ASSUME NEW i \in 1..4
      PROVE  new[i] = old[i]
  <2>1. [old[i] EXCEPT !.lastTransitionTime = 0] = [new[i] EXCEPT !.lastTransitionTime = 0]
    <3>1. o[i] = n[i]
      BY <1>1
    <3>2. o[i] = [old[i] EXCEPT !.lastTransitionTime = 0]
      BY <1>4
    <3>3. n[i] = [new[i] EXCEPT !.lastTransitionTime = 0]
      BY <1>3
    <3> QED  BY <3>1, <3>2, <3>3
  <2> DEFINE a == old[i]
             b == new[i]
  <2>2. a \in Condition /\ b \in Condition
    BY <1>5
  <2>3. b.lastTransitionTime = IF b.status # a.status THEN tm ELSE a.lastTransitionTime
    BY <1>4 DEF FreshTimes
  <2>4. [a EXCEPT !.lastTransitionTime = 0] = [b EXCEPT !.lastTransitionTime = 0]
    BY <2>1
  <2> HIDE DEF a, b
  <2>5. /\ a.type = b.type /\ a.status = b.status /\ a.reason = b.reason
        /\ a.message = b.message
    BY <2>2, <2>4 DEF Condition
  <2>6. a = b
    BY <2>2, <2>3, <2>5 DEF Condition
  <2> QED  BY <2>6 DEF a, b
<1> QED  BY <1>5, <1>6

\* A reconciliation that sees the published status never writes one that differs
\* from it in timestamps only: a status patch does not trigger the next one.
THEOREM NoIdleWrites == Spec => NoTimestampOnlyWrite
<1>1. ASSUME IInv, [Next]_vars, cache.status = status, status' # status,
             Semantic(status') = Semantic(status)
      PROVE  FALSE
  <2>1. Reconcile
    BY <1>1, StatusFrame
  <2> DEFINE d == Draft(cache.object, status, ready, now)
  <2>2. /\ cache.object \in Objects /\ status \in Statuses
        /\ ready \in Nat /\ now \in Int
    BY <1>1 DEF IInv
  <2>3. status' = with_stable_timestamp(status, d, now)
    BY <1>1, <2>1, DesiredIsDraft DEF Reconcile, patch_status_if_changed
  <2>4. d \in Statuses /\ Story(d) /\ FreshTimes(status.conditions, d.conditions, now)
    BY <2>2, DraftTellsOneStory
  <2> DEFINE s == status
             t == status'
  <2> HIDE DEF d
  <2>5. /\ t \in Statuses
        /\ t.phase = d.phase /\ t.readyReplicas = d.readyReplicas
        /\ t.replicas = d.replicas /\ t.endpoints = d.endpoints
        /\ t.conditions = d.conditions /\ t.observedGeneration = d.observedGeneration
        /\ [s EXCEPT !.lastUpdated = d.lastUpdated] = d => t = s
    BY <2>2, <2>3, <2>4, StableTimestamp
  <2>6. Semantic(t) = Semantic(s) /\ s # t
    BY <1>1
  <2>7. s \in Statuses /\ s.conditions \in Lists
    BY <2>2 DEF Statuses
  <2>8. t.conditions \in FourConditions /\ FreshTimes(s.conditions, t.conditions, now)
    BY <2>4, <2>5 DEF Story
  <2> HIDE DEF s, t
  <2>9. /\ Semantic(t).phase = t.phase
        /\ Semantic(t).readyReplicas = t.readyReplicas
        /\ Semantic(t).replicas = t.replicas /\ Semantic(t).endpoints = t.endpoints
        /\ Semantic(t).observedGeneration = t.observedGeneration
        /\ Semantic(t).conditions =
              [i \in DOMAIN t.conditions |->
                 [t.conditions[i] EXCEPT !.lastTransitionTime = 0]]
    BY <2>5, SemanticIs
  <2>10. /\ Semantic(s).phase = s.phase
         /\ Semantic(s).readyReplicas = s.readyReplicas
         /\ Semantic(s).replicas = s.replicas /\ Semantic(s).endpoints = s.endpoints
         /\ Semantic(s).observedGeneration = s.observedGeneration
         /\ Semantic(s).conditions =
               [i \in DOMAIN s.conditions |->
                  [s.conditions[i] EXCEPT !.lastTransitionTime = 0]]
    BY <2>7, SemanticIs
  <2>11. /\ t.phase = s.phase /\ t.readyReplicas = s.readyReplicas
         /\ t.replicas = s.replicas /\ t.endpoints = s.endpoints
         /\ t.observedGeneration = s.observedGeneration
    BY <2>6, <2>9, <2>10
  <2>12. t.conditions = s.conditions
    <3>1. [i \in DOMAIN s.conditions |-> [s.conditions[i] EXCEPT !.lastTransitionTime = 0]]
           = [i \in DOMAIN t.conditions |-> [t.conditions[i] EXCEPT !.lastTransitionTime = 0]]
      BY <2>6, <2>9, <2>10
    <3> QED  BY <2>7, <2>8, <3>1, SameConditions
  <2>13. [s EXCEPT !.lastUpdated = d.lastUpdated] = d
    BY <2>4, <2>5, <2>7, <2>11, <2>12 DEF Statuses
  <2> QED  BY <2>5, <2>6, <2>13
<1>2. IInv /\ [Next]_vars
        => (cache.status = status /\ status' # status
              => Semantic(status') # Semantic(status))
  BY <1>1
<1> QED  BY <1>2, Invariance, PTL DEF Spec, NoTimestampOnlyWrite
===============================================================================
