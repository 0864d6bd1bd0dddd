--------------------------- MODULE PlannerProofs ----------------------------
(* What splitting tickets into steps keeps, for any tickets and any events *)
(* that end steps: nothing is done before what its ticket depends on, and  *)
(* the plan goes on until all is over.                                     *)
EXTENDS Planner, WellFoundedInduction, TLAPS

(* Names of tickets, roles and subtasks do not clash.                      *)
NamesDiffer == /\ Ticket \cap (Role \cup Subtask) = {} /\ Role \cap Subtask = {}
               /\ None \notin Ticket \cup Role

(* The members of a team wait for one another in the order of the list:    *)
(* what waits for the ticket waits for the last of them only.              *)
TeamsAreChains ==
  \A k \in Inputs, t \in Ticket :
    LET team == k.team[t] IN
    Len(team) > 1 =>
      /\ \A i, j \in 1..Len(team) : team[i].role = team[j].role => i = j
      /\ team[1].after = None
      /\ \A i \in 2..Len(team) : team[i].after = team[i - 1].role

(* Subtasks wait for subtasks of the same ticket, and not in a circle.     *)
SubtasksAreOrdered ==
  \A k \in Inputs, t \in Ticket :
    LET subs == DOMAIN k.subtasks[t] IN
    \E n \in Nat : \E rank \in [subs -> 0..n] :
      \A u \in subs : /\ k.subtasks[t][u] \subseteq subs
                      /\ \A v \in k.subtasks[t][u] : rank[v] < rank[u]

WellFormed == NamesDiffer /\ TeamsAreChains /\ SubtasksAreOrdered

-----------------------------------------------------------------------------
(* Sets of numbers.                                                        *)
LEMMA Smallest ==
  ASSUME NEW T, T \subseteq Nat, T # {}
  PROVE  \E m \in T : \A i \in T : m <= i
  <1>1. PICK m \in T : \A i \in T : ~(<<i, m>> \in OpToRel(<, Nat))
    BY NatLessThanWellFounded, WFMin
  <1>2. \A i \in T : i < m => <<i, m>> \in OpToRel(<, Nat)
    BY DEF OpToRel
  <1>3. \A i \in T : ~(i < m)
    BY <1>1, <1>2
  <1>4. \A i \in T : i \in Nat
    OBVIOUS
  <1>5. \A i \in T : m <= i
    BY <1>3, <1>4
  <1> QED BY <1>5

LEMMA Largest ==
  ASSUME NEW n \in Nat, NEW T, T \subseteq 0..n, T # {}
  PROVE  \E m \in T : \A i \in T : i <= m
  <1> DEFINE S == {n - i : i \in T}
  <1>1. S \subseteq Nat
    <2>1. \A i \in T : n - i \in Nat
      OBVIOUS
    <2> QED BY <2>1
  <1>2. S # {}
    <2>1. PICK i \in T : TRUE
      OBVIOUS
    <2>2. n - i \in S
      OBVIOUS
    <2> QED BY <2>2
  <1> HIDE DEF S
  <1>3. PICK m \in S : \A i \in S : m <= i
    BY <1>1, <1>2, Smallest
  <1>4. PICK k \in T : m = n - k
    BY DEF S
  <1>5. \A i \in T : n - i \in S
    BY DEF S
  <1>6. \A i \in T : i <= k
    BY <1>3, <1>4, <1>5
  <1> QED BY <1>6

(* The elements of a sequence.                                             *)
LEMMA InSeq ==
  ASSUME NEW S, NEW q \in Seq(S)
  PROVE  /\ Len(q) \in Nat /\ DOMAIN q = 1..Len(q)
         /\ \A i \in 1..Len(q) : q[i] \in S /\ q[i] \in Range(q)
         /\ \A m \in Range(q) : m \in S /\ \E i \in 1..Len(q) : m = q[i]
  BY DEF Range

-----------------------------------------------------------------------------
(* The plan for the open tickets A.                                        *)
Own(A) == A \ ParentsIn(A)
Splits == tickets.strategy \in {"swarm", "mixed"}
Plan(A) == IF Splits THEN ExpandSubtasks(ExpandTeams(BaseSteps(A)))
                     ELSE ExpandTeams(BaseSteps(A))

Teamed(t, A) == IdOf(t, A) = <<t>> /\ Len(tickets.team[t]) > 1
Parted(t, A) == IdOf(t, A) = <<t>> /\ ~Teamed(t, A) /\ DOMAIN tickets.subtasks[t] # {}

Leaves(t) == DOMAIN tickets.subtasks[t] \ UNION Range(tickets.subtasks[t])
LastRole(t) == tickets.team[t][Len(tickets.team[t])].role
Roles(t)  == {<<t, m.role>> : m \in Range(tickets.team[t])}

(* The steps of a ticket, and those that the others wait for, before and   *)
(* after subtasks are expanded.                                            *)
TeamParts(t, A) == IF Teamed(t, A) THEN Roles(t) ELSE {IdOf(t, A)}
TeamEnds(t, A)  == IF Teamed(t, A) THEN {<<t, LastRole(t)>>} ELSE {IdOf(t, A)}
Parts(t, A) == IF Splits /\ Parted(t, A) THEN {t} \X DOMAIN tickets.subtasks[t]
                                         ELSE TeamParts(t, A)
Ends(t, A)  == IF Splits /\ Parted(t, A) THEN {t} \X Leaves(t) ELSE TeamEnds(t, A)

(* The steps of a ticket that wait for what the ticket waits for.          *)
Firsts(t, A) ==
  IF Teamed(t, A) THEN {<<t, tickets.team[t][1].role>>}
  ELSE IF Splits /\ Parted(t, A)
       THEN {t} \X {u \in DOMAIN tickets.subtasks[t] : tickets.subtasks[t][u] = {}}
       ELSE {IdOf(t, A)}

(* The first steps of a ticket wait for the last ones of what it depends   *)
(* on, and the rest of its steps for one another.                          *)
WaitsFor(t, A) == tickets.deps[t] \cap Own(A)

PlanShape(plan, A) ==
  /\ DOMAIN plan = UNION {Parts(t, A) : t \in Own(A)}
  /\ \A t \in Own(A) : \A s \in Firsts(t, A) :
       plan[s] = UNION {Ends(d, A) : d \in WaitsFor(t, A)}
  /\ \A t \in Own(A) : Teamed(t, A) =>
       \A i \in 2..Len(tickets.team[t]) :
         plan[<<t, tickets.team[t][i].role>>] = {<<t, tickets.team[t][i - 1].role>>}
  /\ \A t \in Own(A) : Splits /\ Parted(t, A) =>
       \A u \in DOMAIN tickets.subtasks[t] : tickets.subtasks[t][u] # {} =>
         plan[<<t, u>>] = {t} \X tickets.subtasks[t][u]

LEMMA InputTypes ==
  ASSUME tickets \in Inputs, NEW t \in Ticket
  PROVE  /\ tickets.deps[t] \subseteq Ticket
         /\ tickets.parent[t] \in Ticket \cup {None}
         /\ tickets.team[t] \in Seq([role: Role, after: Role \cup {None}])
         /\ DOMAIN tickets.subtasks[t] \subseteq Subtask
         /\ tickets.parent[t] # None => DOMAIN tickets.subtasks[t] = {}
  BY PlannerAssumption

LEMMA Members ==
  ASSUME tickets \in Inputs, NEW t \in Ticket
  PROVE  \A m \in Range(tickets.team[t]) :
           m.role \in Role /\ \E i \in 1..Len(tickets.team[t]) : m = tickets.team[t][i]
  <1> DEFINE Member == [role: Role, after: Role \cup {None}]
  <1>1. tickets.team[t] \in Seq(Member)
    BY InputTypes
  <1>2. \A m \in Member : m.role \in Role
    OBVIOUS
  <1> HIDE DEF Member
  <1> QED BY <1>1, <1>2, InSeq

LEMMA IdFacts ==
  ASSUME tickets \in Inputs, WellFormed, NEW A \in SUBSET Ticket, NEW t \in A
  PROVE  /\ \/ IdOf(t, A) = <<t>>
            \/ /\ IdOf(t, A) = <<tickets.parent[t], t>>
               /\ tickets.parent[t] \in ParentsIn(A) /\ tickets.parent[t] \in Ticket
         /\ IdOf(t, A)[Len(IdOf(t, A))] = t
         /\ Len(IdOf(t, A)) = 1 => IdOf(t, A) = <<t>>
  <1>1. ParentsIn(A) \subseteq Ticket
    BY DEF ParentsIn
  <1> QED BY <1>1 DEF IdOf

LEMMA BaseFacts ==
  ASSUME tickets \in Inputs, WellFormed, NEW A \in SUBSET Ticket
  PROVE  /\ DOMAIN BaseSteps(A) = {IdOf(t, A) : t \in Own(A)}
         /\ \A t \in Own(A) : BaseSteps(A)[IdOf(t, A)]
              = {IdOf(d, A) : d \in WaitsFor(t, A)}
  <1>1. \A t \in Own(A) : IdOf(t, A)[Len(IdOf(t, A))] = t
    BY IdFacts DEF Own
  <1> QED BY <1>1 DEF BaseSteps, Own, WaitsFor

(* expandTeamSteps().                                                      *)
LEMMA TeamFacts ==
  ASSUME tickets \in Inputs, WellFormed, NEW A \in SUBSET Ticket
  PROVE  LET plan == ExpandTeams(BaseSteps(A)) IN
         /\ DOMAIN plan = UNION {TeamParts(t, A) : t \in Own(A)}
         /\ \A t \in Own(A) :
              LET ends == UNION {TeamEnds(d, A) : d \in WaitsFor(t, A)} IN
              /\ ~Teamed(t, A) => plan[IdOf(t, A)] = ends
              /\ Teamed(t, A) => plan[<<t, tickets.team[t][1].role>>] = ends
         /\ \A t \in Own(A) : Teamed(t, A) =>
              \A i \in 2..Len(tickets.team[t]) :
                plan[<<t, tickets.team[t][i].role>>] = {<<t, tickets.team[t][i - 1].role>>}
  <1> DEFINE bb == BaseSteps(A)
             split == {s \in DOMAIN bb : Len(s) = 1 /\ Len(tickets.team[s[1]]) > 1}
             Last(team) == team[Len(team)].role
             Rewritten(B) ==
               (B \ split) \cup {<<s[1], Last(tickets.team[s[1]])>> : s \in B \cap split}
             Of(s) == {<<s[1], m.role>> : m \in Range(tickets.team[s[1]])}
             Member(s) == CHOOSE m \in Range(tickets.team[s[1]]) : m.role = s[2]
             steps == (DOMAIN bb \ split) \cup UNION {Of(x) : x \in split}
             plan == ExpandTeams(bb)
  <1>1. plan = [s \in steps |->
                  IF s \in DOMAIN bb THEN Rewritten(bb[s])
                  ELSE IF Member(s).after = None THEN Rewritten(bb[<<s[1]>>])
                  ELSE Of(<<s[1]>>) \cap {<<s[1], Member(s).after>>}]
    BY DEF ExpandTeams
  <1>2. /\ DOMAIN bb = {IdOf(t, A) : t \in Own(A)}
        /\ \A t \in Own(A) : bb[IdOf(t, A)] = {IdOf(d, A) : d \in WaitsFor(t, A)}
    BY BaseFacts
  <1> HIDE DEF bb, plan
  <1>3. \A t \in Own(A) : IdOf(t, A) \in split <=> Teamed(t, A)
    <2> TAKE t \in Own(A)
    <2>1. t \in A /\ IdOf(t, A) \in DOMAIN bb
      BY <1>2 DEF Own
    <2>2. IdOf(t, A) = <<t>> \/ Len(IdOf(t, A)) # 1
      BY <2>1, IdFacts
    <2>3. <<t>>[1] = t /\ Len(<<t>>) = 1
      OBVIOUS
    <2> QED BY <2>1, <2>2, <2>3 DEF Teamed
  <1>4. \A s \in split : \E t \in Own(A) : Teamed(t, A) /\ s = <<t>> /\ s = IdOf(t, A)
    BY <1>2, <1>3 DEF Teamed
  <1>5. \A t : Of(<<t>>) = Roles(t)
    BY DEF Roles
  <1>6. ASSUME NEW D \in SUBSET Own(A)
        PROVE  Rewritten({IdOf(d, A) : d \in D}) = UNION {TeamEnds(d, A) : d \in D}
    <2> DEFINE B == {IdOf(d, A) : d \in D}
    <2>1. ASSUME NEW d \in D PROVE TeamEnds(d, A) \subseteq Rewritten(B)
      <3>1. CASE Teamed(d, A)
        <4>1. IdOf(d, A) = <<d>> /\ <<d>> \in B \cap split /\ <<d>>[1] = d
          BY <1>3, <3>1 DEF Teamed
        <4>2. <<d, Last(tickets.team[d])>> \in Rewritten(B)
          BY <4>1
        <4> QED BY <3>1, <4>2 DEF TeamEnds, LastRole
      <3>2. CASE ~Teamed(d, A)
        BY <1>3, <3>2 DEF TeamEnds
      <3> QED BY <3>1, <3>2
    <2>2. ASSUME NEW x \in Rewritten(B) PROVE \E d \in D : x \in TeamEnds(d, A)
      <3>1. CASE x \in B \ split
        <4>1. PICK d \in D : x = IdOf(d, A)
          BY <3>1
        <4> QED BY <1>3, <3>1, <4>1 DEF TeamEnds
      <3>2. CASE x \notin B \ split
        <4>1. PICK y \in B \cap split : x = <<y[1], Last(tickets.team[y[1]])>>
          BY <2>2, <3>2
        <4>2. PICK d \in D : y = IdOf(d, A)
          BY <4>1
        <4>3. Teamed(d, A) /\ y = <<d>>
          BY <1>3, <4>1, <4>2 DEF Teamed
        <4>4. y[1] = d
          BY <4>3
        <4> QED BY <4>1, <4>3, <4>4 DEF TeamEnds, LastRole
      <3> QED BY <3>1, <3>2
    <2> QED BY <2>1, <2>2
  <1> HIDE DEF Rewritten
  <1>7. steps = UNION {TeamParts(t, A) : t \in Own(A)}
    <2>1. ASSUME NEW s \in steps PROVE \E t \in Own(A) : s \in TeamParts(t, A)
      <3>1. CASE s \in DOMAIN bb \ split
        <4>1. PICK t \in Own(A) : s = IdOf(t, A)
          BY <1>2, <3>1
        <4> QED BY <1>3, <3>1, <4>1 DEF TeamParts
      <3>2. CASE s \notin DOMAIN bb \ split
        <4>1. PICK x \in split : s \in Of(x)
          BY <2>1, <3>2
        <4>2. PICK t \in Own(A) : Teamed(t, A) /\ x = <<t>>
          BY <1>4, <4>1
        <4> QED BY <1>5, <4>1, <4>2 DEF TeamParts
      <3> QED BY <3>1, <3>2
    <2>2. ASSUME NEW t \in Own(A), NEW s \in TeamParts(t, A) PROVE s \in steps
      <3>1. CASE Teamed(t, A)
        <4>1. <<t>> \in split
          BY <1>3, <3>1 DEF Teamed
        <4>2. s \in Of(<<t>>)
          BY <1>5, <2>2, <3>1 DEF TeamParts
        <4> QED BY <4>1, <4>2
      <3>2. CASE ~Teamed(t, A)
        BY <1>2, <1>3, <2>2, <3>2 DEF TeamParts
      <3> QED BY <3>1, <3>2
    <2> QED BY <2>1, <2>2
  <1>8. DOMAIN plan = steps
    BY <1>1
  <1>9. ASSUME NEW t \in Own(A), ~Teamed(t, A)
        PROVE  plan[IdOf(t, A)] = UNION {TeamEnds(d, A) : d \in WaitsFor(t, A)}
    <2>1. IdOf(t, A) \in DOMAIN bb /\ IdOf(t, A) \in steps
      BY <1>2, <1>3, <1>9
    <2>2. plan[IdOf(t, A)] = Rewritten(bb[IdOf(t, A)])
      BY <1>1, <2>1
    <2>3. bb[IdOf(t, A)] = {IdOf(d, A) : d \in WaitsFor(t, A)}
      BY <1>2, <1>9
    <2> QED BY <1>6, <2>2, <2>3 DEF WaitsFor
  <1>10. ASSUME NEW t \in Own(A), Teamed(t, A), NEW i \in 1..Len(tickets.team[t])
         PROVE  LET team == tickets.team[t]  s == <<t, team[i].role>> IN
                /\ s \in steps /\ s \notin DOMAIN bb /\ Member(s) = team[i]
                /\ plan[s] = IF team[i].after = None THEN Rewritten(bb[<<t>>])
                             ELSE Roles(t) \cap {<<t, team[i].after>>}
    <2> DEFINE team == tickets.team[t]  s == <<t, team[i].role>>
    <2>1. t \in Ticket /\ IdOf(t, A) = <<t>> /\ Len(team) > 1
      BY <1>10 DEF Own, Teamed
    <2>2. team \in Seq([role: Role, after: Role \cup {None}])
      BY <2>1, InputTypes
    <2>3. team[i] \in [role: Role, after: Role \cup {None}] /\ team[i] \in Range(team)
      BY <1>10, <2>2, InSeq
    <2>4. s \in Roles(t) /\ s \in steps
      <3>1. s \in Roles(t)
        BY <2>3 DEF Roles
      <3>2. s \in TeamParts(t, A)
        BY <1>10, <3>1 DEF TeamParts
      <3> QED BY <1>7, <1>10, <3>1, <3>2
    <2>5. s \notin DOMAIN bb
      <3> SUFFICES ASSUME NEW u \in Own(A), s = IdOf(u, A) PROVE FALSE
        BY <1>2
      <3>1. u \in Ticket /\ u \in A
        BY DEF Own
      <3>2. IdOf(u, A)[Len(IdOf(u, A))] = u
        BY <3>1, IdFacts
      <3>3. s[Len(s)] = team[i].role
        OBVIOUS
      <3> HIDE DEF s
      <3> QED BY <2>3, <3>1, <3>2, <3>3 DEF WellFormed, NamesDiffer
    <2>6. \A m \in Range(team) : m.role = team[i].role => m = team[i]
      <3> SUFFICES ASSUME NEW j \in 1..Len(team), team[j].role = team[i].role
                   PROVE  j = i
        BY <2>2 DEF Range
      <3> QED BY <2>1 DEF WellFormed, TeamsAreChains
    <2>7. Member(s) = team[i]
      <3>1. s[1] = t /\ s[2] = team[i].role
        OBVIOUS
      <3> HIDE DEF s
      <3> QED BY <2>3, <2>6, <3>1
    <2> QED BY <1>1, <1>5, <2>4, <2>5, <2>7
  <1>11. ASSUME NEW t \in Own(A), Teamed(t, A)
         PROVE  /\ t \in Ticket /\ IdOf(t, A) = <<t>> /\ Len(tickets.team[t]) > 1
                /\ tickets.team[t][1].after = None
                /\ \A i \in 2..Len(tickets.team[t]) :
                     tickets.team[t][i].after = tickets.team[t][i - 1].role
    BY <1>11 DEF Own, Teamed, WellFormed, TeamsAreChains
  <1>12. ASSUME NEW t \in Own(A), Teamed(t, A)
         PROVE  plan[<<t, tickets.team[t][1].role>>]
                  = UNION {TeamEnds(d, A) : d \in WaitsFor(t, A)}
    <2>1. t \in Ticket
      BY <1>11, <1>12
    <2>2. Len(tickets.team[t]) \in Nat
      BY <2>1, InputTypes
    <2>3. 1 \in 1..Len(tickets.team[t])
      BY <1>11, <1>12, <2>2
    <2>4. plan[<<t, tickets.team[t][1].role>>] = Rewritten(bb[<<t>>])
      <3>1. tickets.team[t][1].after = None
        BY <1>11, <1>12
      <3> QED BY <1>10, <1>12, <2>3, <3>1
    <2>5. bb[<<t>>] = {IdOf(d, A) : d \in WaitsFor(t, A)}
      BY <1>2, <1>11, <1>12
    <2> QED BY <1>6, <2>4, <2>5 DEF WaitsFor
  <1>13. ASSUME NEW t \in Own(A), Teamed(t, A), NEW i \in 2..Len(tickets.team[t])
         PROVE  plan[<<t, tickets.team[t][i].role>>] = {<<t, tickets.team[t][i - 1].role>>}
    <2> DEFINE team == tickets.team[t]
    <2>1. t \in Ticket /\ team[i].after = team[i - 1].role
      BY <1>11, <1>13
    <2>2. team \in Seq([role: Role, after: Role \cup {None}])
      BY <2>1, InputTypes
    <2>3. i \in 1..Len(team) /\ i - 1 \in 1..Len(team)
      BY <2>2
    <2>4. team[i - 1].role \in Role /\ team[i - 1] \in Range(team)
      <3>1. team[i - 1] \in [role: Role, after: Role \cup {None}]
        BY <2>2, <2>3, InSeq
      <3> QED BY <2>2, <2>3, <3>1, InSeq
    <2>5. team[i].after # None
      BY <2>1, <2>4 DEF WellFormed, NamesDiffer
    <2>6. plan[<<t, team[i].role>>] = Roles(t) \cap {<<t, team[i].after>>}
      BY <1>10, <1>13, <2>3, <2>5
    <2>7. <<t, team[i - 1].role>> \in Roles(t)
      BY <2>4 DEF Roles
    <2> QED BY <2>1, <2>6, <2>7
  <1> QED BY <1>7, <1>8, <1>9, <1>12, <1>13 DEF plan, bb

(* expandSubtaskSteps(): the steps before it.                              *)
LEMMA TeamSteps ==
  ASSUME tickets \in Inputs, WellFormed, NEW A \in SUBSET Ticket,
         NEW t \in Own(A), NEW s \in TeamParts(t, A)
  PROVE  /\ s[1] \in Ticket /\ s[Len(s)] \in Ticket \cup Role
         /\ Len(s) = 1 => s = <<t>> /\ s = IdOf(t, A) /\ ~Teamed(t, A)
  <1>1. t \in Ticket /\ t \in A
    BY DEF Own
  <1>2. CASE Teamed(t, A)
    <2>1. PICK m \in Range(tickets.team[t]) : s = <<t, m.role>>
      BY <1>2 DEF TeamParts, Roles
    <2>2. m.role \in Role
      BY <1>1, <2>1, Members
    <2> QED BY <1>1, <2>1, <2>2
  <1>3. CASE ~Teamed(t, A)
    <2>1. s = IdOf(t, A)
      BY <1>3 DEF TeamParts
    <2>2. /\ \/ s = <<t>>
             \/ s = <<tickets.parent[t], t>> /\ tickets.parent[t] \in Ticket
          /\ s[Len(s)] = t
          /\ Len(s) = 1 => s = <<t>>
      BY <1>1, <2>1, IdFacts
    <2>3. s[1] \in Ticket
      BY <1>1, <2>2
    <2> QED BY <1>1, <1>3, <2>1, <2>2, <2>3
  <1> QED BY <1>2, <1>3

(* expandSubtaskSteps() after expandTeamSteps().                           *)
LEMMA SubtaskFacts ==
  ASSUME tickets \in Inputs, WellFormed, NEW A \in SUBSET Ticket, Splits
  PROVE  PlanShape(ExpandSubtasks(ExpandTeams(BaseSteps(A))), A)
  <1> DEFINE bb == ExpandTeams(BaseSteps(A))
             split == {s \in DOMAIN bb : Len(s) = 1 /\ DOMAIN tickets.subtasks[s[1]] # {}}
             Subs(t) == DOMAIN tickets.subtasks[t]
             Rewritten(B) ==
               (B \ split) \cup UNION {{s[1]} \X Leaves(s[1]) : s \in B \cap split}
             steps == (DOMAIN bb \ split) \cup UNION {{x[1]} \X Subs(x[1]) : x \in split}
             plan == ExpandSubtasks(bb)
  <1>1. plan = [s \in steps |->
                  IF s \in DOMAIN bb THEN Rewritten(bb[s])
                  ELSE IF tickets.subtasks[s[1]][s[2]] = {} THEN Rewritten(bb[<<s[1]>>])
                  ELSE {s[1]} \X tickets.subtasks[s[1]][s[2]]]
    BY DEF ExpandSubtasks, Leaves
  <1>2. /\ DOMAIN bb = UNION {TeamParts(t, A) : t \in Own(A)}
        /\ \A t \in Own(A) :
             LET ends == UNION {TeamEnds(d, A) : d \in WaitsFor(t, A)} IN
             /\ ~Teamed(t, A) => bb[IdOf(t, A)] = ends
             /\ Teamed(t, A) => bb[<<t, tickets.team[t][1].role>>] = ends
        /\ \A t \in Own(A) : Teamed(t, A) =>
             \A i \in 2..Len(tickets.team[t]) :
               bb[<<t, tickets.team[t][i].role>>] = {<<t, tickets.team[t][i - 1].role>>}
    BY TeamFacts
  <1> HIDE DEF bb, plan
  <1>3. ASSUME NEW t \in Own(A), NEW s \in TeamParts(t, A)
        PROVE  s \in split <=> Parted(t, A)
    <2>1. s \in DOMAIN bb
      BY <1>2, <1>3
    <2>2. Len(s) = 1 => s = <<t>> /\ s = IdOf(t, A) /\ ~Teamed(t, A)
      BY <1>3, TeamSteps
    <2>3. ASSUME s \in split PROVE Parted(t, A)
      <3>1. Len(s) = 1 /\ DOMAIN tickets.subtasks[s[1]] # {}
        BY <2>3
      <3>2. s = <<t>> /\ s[1] = t
        BY <2>2, <3>1
      <3> QED BY <2>2, <3>1, <3>2 DEF Parted
    <2>4. ASSUME Parted(t, A) PROVE s \in split
      <3>1. s = <<t>> /\ DOMAIN tickets.subtasks[t] # {}
        BY <1>3, <2>4 DEF Parted, TeamParts
      <3>2. Len(s) = 1 /\ s[1] = t
        BY <3>1
      <3> QED BY <2>1, <3>1, <3>2
    <2> QED BY <2>3, <2>4
  <1>4. ASSUME NEW t \in Own(A), Parted(t, A)
        PROVE  /\ TeamParts(t, A) = {<<t>>} /\ TeamEnds(t, A) = {<<t>>} /\ <<t>> \in split
               /\ IdOf(t, A) = <<t>> /\ ~Teamed(t, A) /\ t \in Ticket
    BY <1>3, <1>4 DEF Parted, TeamParts, TeamEnds, Own
  <1>5. ASSUME NEW s \in split PROVE \E t \in Own(A) : Parted(t, A) /\ s = <<t>>
    <2>1. PICK t \in Own(A) : s \in TeamParts(t, A)
      BY <1>2, <1>5
    <2>2. Parted(t, A)
      BY <1>3, <1>5, <2>1
    <2> QED BY <1>4, <2>1, <2>2
  <1>6. ASSUME NEW t \in Own(A) PROVE TeamEnds(t, A) \subseteq TeamParts(t, A)
    <2>1. CASE ~Teamed(t, A)
      BY <2>1 DEF TeamEnds, TeamParts
    <2>2. CASE Teamed(t, A)
      <3>1. t \in Ticket /\ Len(tickets.team[t]) > 1
        BY <1>6, <2>2 DEF Own, Teamed
      <3>2. /\ Len(tickets.team[t]) \in Nat
            /\ \A i \in 1..Len(tickets.team[t]) : tickets.team[t][i] \in Range(tickets.team[t])
        BY <3>1, InputTypes, InSeq
      <3>3. tickets.team[t][Len(tickets.team[t])] \in Range(tickets.team[t])
        BY <3>1, <3>2
      <3> QED BY <2>2, <3>3 DEF TeamEnds, TeamParts, Roles, LastRole
    <2> QED BY <2>1, <2>2
  <1>7. ASSUME NEW D \in SUBSET Own(A), NEW B, B = UNION {TeamEnds(d, A) : d \in D}
        PROVE  Rewritten(B) = UNION {Ends(d, A) : d \in D}
    <2>1. ASSUME NEW d \in D PROVE Ends(d, A) \subseteq Rewritten(B)
      <3>1. CASE Parted(d, A)
        <4>1. <<d>> \in B \cap split /\ <<d>>[1] = d
          BY <1>4, <1>7, <3>1
        <4>2. {d} \X Leaves(d) \subseteq Rewritten(B)
          BY <4>1
        <4> QED BY <3>1, <4>2 DEF Ends
      <3>2. CASE ~Parted(d, A)
        <4>1. \A s \in TeamEnds(d, A) : s \notin split
          BY <1>3, <1>6, <3>2
        <4> QED BY <1>7, <3>2, <4>1 DEF Ends
      <3> QED BY <3>1, <3>2
    <2>2. ASSUME NEW x \in Rewritten(B) PROVE \E d \in D : x \in Ends(d, A)
      <3>1. CASE x \in B \ split
        <4>1. PICK d \in D : x \in TeamEnds(d, A)
          BY <1>7, <3>1
        <4>2. d \in Own(A)
          OBVIOUS
        <4>3. x \in TeamParts(d, A)
          BY <1>6, <4>1, <4>2
        <4>4. ~Parted(d, A)
          BY <1>3, <3>1, <4>2, <4>3
        <4> QED BY <4>1, <4>4 DEF Ends
      <3>2. CASE x \notin B \ split
        <4>1. PICK y \in B \cap split : x \in {y[1]} \X Leaves(y[1])
          BY <2>2, <3>2
        <4>2. PICK d \in D : y \in TeamEnds(d, A)
          BY <1>7, <4>1
        <4>3. d \in Own(A) /\ Parted(d, A)
          BY <1>3, <1>6, <4>1, <4>2
        <4>4. y = <<d>> /\ y[1] = d
          <5>1. TeamEnds(d, A) = {<<d>>}
            BY <1>4, <4>3
          <5> QED BY <4>2, <5>1
        <4> QED BY <4>1, <4>3, <4>4 DEF Ends
      <3> QED BY <3>1, <3>2
    <2> QED BY <2>1, <2>2
  <1>8. ASSUME NEW b, b \notin split PROVE Rewritten({b}) = {b}
    BY <1>8
  <1> HIDE DEF Rewritten
  <1>9. DOMAIN plan = UNION {Parts(t, A) : t \in Own(A)}
    <2>1. DOMAIN plan = steps
      BY <1>1
    <2>2. ASSUME NEW s \in steps PROVE \E t \in Own(A) : s \in Parts(t, A)
      <3>1. CASE s \in DOMAIN bb \ split
        <4>1. PICK t \in Own(A) : s \in TeamParts(t, A)
          BY <1>2, <3>1
        <4>2. ~Parted(t, A)
          BY <1>3, <3>1, <4>1
        <4> QED BY <4>1, <4>2 DEF Parts
      <3>2. CASE s \notin DOMAIN bb \ split
        <4>1. PICK x \in split : s \in {x[1]} \X Subs(x[1])
          BY <2>2, <3>2
        <4>2. PICK t \in Own(A) : Parted(t, A) /\ x = <<t>>
          BY <1>5, <4>1
        <4>3. x[1] = t
          BY <4>2
        <4> QED BY <4>1, <4>2, <4>3 DEF Parts
      <3> QED BY <3>1, <3>2
    <2>3. ASSUME NEW t \in Own(A), NEW s \in Parts(t, A) PROVE s \in steps
      <3>1. CASE Parted(t, A)
        <4>1. <<t>> \in split /\ <<t>>[1] = t
          BY <1>4, <3>1
        <4>2. s \in {t} \X Subs(t)
          BY <2>3, <3>1 DEF Parts
        <4> QED BY <4>1, <4>2
      <3>2. CASE ~Parted(t, A)
        <4>1. s \in TeamParts(t, A)
          BY <2>3, <3>2 DEF Parts
        <4> QED BY <1>2, <1>3, <3>2, <4>1
      <3> QED BY <3>1, <3>2
    <2> QED BY <2>1, <2>2, <2>3
  <1>10. ASSUME NEW t \in Own(A), ~Parted(t, A), NEW s \in TeamParts(t, A)
         PROVE  plan[s] = Rewritten(bb[s])
    <2>1. s \in DOMAIN bb /\ s \in steps
      BY <1>2, <1>3, <1>10
    <2> QED BY <1>1, <2>1
  <1>11. ASSUME NEW t \in Own(A), Parted(t, A), NEW u \in Subs(t)
         PROVE  plan[<<t, u>>] = IF tickets.subtasks[t][u] = {} THEN Rewritten(bb[<<t>>])
                                 ELSE {t} \X tickets.subtasks[t][u]
    <2>1. t \in Ticket /\ <<t>> \in split
      BY <1>4, <1>11
    <2>2. u \in Subtask
      BY <1>11, <2>1, InputTypes
    <2>3. <<t>>[1] = t /\ <<t, u>>[1] = t /\ <<t, u>>[2] = u /\ <<t, u>>[Len(<<t, u>>)] = u
      OBVIOUS
    <2>4. <<t, u>> \in steps
      <3>1. <<t, u>> \in {<<t>>[1]} \X Subs(<<t>>[1])
        BY <1>11, <2>3
      <3> QED BY <2>1, <3>1
    <2>5. <<t, u>> \notin DOMAIN bb
      <3> SUFFICES ASSUME NEW x \in Own(A), <<t, u>> \in TeamParts(x, A) PROVE FALSE
        BY <1>2
      <3>1. <<t, u>>[Len(<<t, u>>)] \in Ticket \cup Role
        BY TeamSteps
      <3> QED BY <2>2, <2>3, <3>1 DEF WellFormed, NamesDiffer
    <2> DEFINE s == <<t, u>>
    <2>6. /\ s \in steps /\ s \notin DOMAIN bb /\ s[1] = t /\ s[2] = u
      BY <2>3, <2>4, <2>5
    <2> HIDE DEF s
    <2>7. plan[s] = IF tickets.subtasks[t][u] = {} THEN Rewritten(bb[<<t>>])
                    ELSE {t} \X tickets.subtasks[t][u]
      BY <1>1, <2>6
    <2> QED BY <2>7 DEF s
  <1>12. ASSUME NEW t \in Own(A), NEW s \in Firsts(t, A)
         PROVE  plan[s] = UNION {Ends(d, A) : d \in WaitsFor(t, A)}
    <2> DEFINE ends == UNION {TeamEnds(d, A) : d \in WaitsFor(t, A)}
    <2>1. Rewritten(ends) = UNION {Ends(d, A) : d \in WaitsFor(t, A)}
      BY <1>7 DEF WaitsFor
    <2>2. CASE Teamed(t, A)
      <3>1. ~Parted(t, A) /\ s = <<t, tickets.team[t][1].role>>
        BY <1>12, <2>2 DEF Parted, Firsts
      <3>2. t \in Ticket /\ Len(tickets.team[t]) > 1
        BY <1>12, <2>2 DEF Own, Teamed
      <3>3. /\ Len(tickets.team[t]) \in Nat
            /\ \A i \in 1..Len(tickets.team[t]) : tickets.team[t][i] \in Range(tickets.team[t])
        BY <3>2, InputTypes, InSeq
      <3>4. tickets.team[t][1] \in Range(tickets.team[t])
        BY <3>2, <3>3
      <3>5. s \in TeamParts(t, A)
        BY <2>2, <3>1, <3>4 DEF TeamParts, Roles
      <3>6. bb[s] = ends
        BY <1>2, <1>12, <2>2, <3>1
      <3>7. plan[s] = Rewritten(bb[s])
        BY <1>10, <1>12, <3>1, <3>5
      <3> QED BY <2>1, <3>6, <3>7
    <2>3. CASE ~Teamed(t, A) /\ Parted(t, A)
      <3>1. PICK u \in Subs(t) : s = <<t, u>> /\ tickets.subtasks[t][u] = {}
        BY <1>12, <2>3 DEF Firsts
      <3>2. plan[s] = Rewritten(bb[<<t>>])
        BY <1>11, <1>12, <2>3, <3>1
      <3>3. bb[<<t>>] = ends
        BY <1>2, <1>4, <1>12, <2>3
      <3> QED BY <2>1, <3>2, <3>3
    <2>4. CASE ~Teamed(t, A) /\ ~Parted(t, A)
      <3>1. s = IdOf(t, A) /\ s \in TeamParts(t, A)
        BY <1>12, <2>4 DEF Firsts, TeamParts
      <3>2. bb[s] = ends
        BY <1>2, <1>12, <2>4, <3>1
      <3>3. plan[s] = Rewritten(bb[s])
        BY <1>10, <1>12, <2>4, <3>1
      <3> QED BY <2>1, <3>2, <3>3
    <2> QED BY <2>2, <2>3, <2>4
  <1>13. ASSUME NEW t \in Own(A), Teamed(t, A), NEW i \in 2..Len(tickets.team[t])
         PROVE  plan[<<t, tickets.team[t][i].role>>] = {<<t, tickets.team[t][i - 1].role>>}
    <2> DEFINE s == <<t, tickets.team[t][i].role>>
               b == <<t, tickets.team[t][i - 1].role>>
    <2>1. t \in Ticket /\ ~Parted(t, A)
      BY <1>13 DEF Own, Parted
    <2>2. /\ Len(tickets.team[t]) \in Nat
          /\ \A j \in 1..Len(tickets.team[t]) : tickets.team[t][j] \in Range(tickets.team[t])
      BY <2>1, InputTypes, InSeq
    <2>3. i \in 1..Len(tickets.team[t]) /\ i - 1 \in 1..Len(tickets.team[t])
      BY <1>13, <2>2
    <2>4. s \in TeamParts(t, A) /\ b \in TeamParts(t, A)
      BY <1>13, <2>2, <2>3 DEF TeamParts, Roles
    <2>5. bb[s] = {b}
      BY <1>2, <1>13
    <2> HIDE DEF s, b
    <2>6. b \notin split
      BY <1>3, <1>13, <2>1, <2>4
    <2>7. plan[s] = Rewritten(bb[s])
      BY <1>10, <1>13, <2>1, <2>4
    <2>8. plan[s] = {b}
      BY <1>8, <2>5, <2>6, <2>7
    <2> QED BY <2>8 DEF s, b
  <1>14. ASSUME NEW t \in Own(A), Parted(t, A), NEW u \in Subs(t)
         PROVE  tickets.subtasks[t][u] # {} =>
                  plan[<<t, u>>] = {t} \X tickets.subtasks[t][u]
    BY <1>11, <1>14
  <1> QED BY <1>9, <1>12, <1>13, <1>14 DEF PlanShape, plan, bb

LEMMA PlanFacts ==
  ASSUME tickets \in Inputs, WellFormed, NEW A \in SUBSET Ticket
  PROVE  PlanShape(Plan(A), A)
  <1>1. CASE Splits
    BY <1>1, SubtaskFacts DEF Plan
  <1>2. CASE ~Splits
    <2>1. \A t \in Own(A) : Parts(t, A) = TeamParts(t, A) /\ Ends(t, A) = TeamEnds(t, A)
      BY <1>2 DEF Parts, Ends
    <2>2. Plan(A) = ExpandTeams(BaseSteps(A))
      BY <1>2 DEF Plan
    <2>3. \A t \in Own(A) : UNION {Ends(d, A) : d \in WaitsFor(t, A)}
                            = UNION {TeamEnds(d, A) : d \in WaitsFor(t, A)}
      <3>1. \A t \in Own(A) : \A d \in WaitsFor(t, A) : Ends(d, A) = TeamEnds(d, A)
        BY <2>1 DEF WaitsFor
      <3> QED BY <3>1
    <2> DEFINE plan == ExpandTeams(BaseSteps(A))
    <2>4. /\ DOMAIN plan = UNION {TeamParts(t, A) : t \in Own(A)}
          /\ \A t \in Own(A) :
               LET ends == UNION {TeamEnds(d, A) : d \in WaitsFor(t, A)} IN
               /\ ~Teamed(t, A) => plan[IdOf(t, A)] = ends
               /\ Teamed(t, A) => plan[<<t, tickets.team[t][1].role>>] = ends
          /\ \A t \in Own(A) : Teamed(t, A) =>
               \A i \in 2..Len(tickets.team[t]) :
                 plan[<<t, tickets.team[t][i].role>>] = {<<t, tickets.team[t][i - 1].role>>}
      BY TeamFacts
    <2> HIDE DEF plan
    <2>5. ASSUME NEW t \in Own(A), NEW s \in Firsts(t, A)
          PROVE  plan[s] = UNION {Ends(d, A) : d \in WaitsFor(t, A)}
      <3>1. s = IF Teamed(t, A) THEN <<t, tickets.team[t][1].role>> ELSE IdOf(t, A)
        BY <1>2, <2>5 DEF Firsts
      <3> QED BY <2>3, <2>4, <2>5, <3>1
    <2>6. DOMAIN plan = UNION {Parts(t, A) : t \in Own(A)}
      BY <2>1, <2>4
    <2>7. PlanShape(plan, A)
      BY <1>2, <2>4, <2>5, <2>6 DEF PlanShape
    <2> QED BY <2>2, <2>7 DEF plan
  <1> QED BY <1>1, <1>2

-----------------------------------------------------------------------------
(* The steps of a plan whose tickets are A.                                *)

(* A step of a ticket: its ticket comes first or, without a split, last.   *)
LEMMA PartShape ==
  ASSUME tickets \in Inputs, WellFormed, NEW A \in SUBSET Ticket,
         NEW t \in Own(A), NEW s \in Parts(t, A)
  PROVE  \/ s = <<t>> /\ IdOf(t, A) = <<t>> /\ Parts(t, A) = {<<t>>}
         \/ /\ Len(s) = 2 /\ s[2] = t /\ s[1] = tickets.parent[t] /\ s[1] \in ParentsIn(A)
            /\ s = IdOf(t, A) /\ Parts(t, A) = {s}
         \/ Len(s) = 2 /\ s[1] = t /\ s[2] \in Role /\ Teamed(t, A)
         \/ Len(s) = 2 /\ s[1] = t /\ s[2] \in Subtask /\ Splits /\ Parted(t, A)
  <1>1. t \in Ticket /\ t \in A
    BY DEF Own
  <1>2. CASE Teamed(t, A)
    <2>1. PICK m \in Range(tickets.team[t]) : s = <<t, m.role>>
      BY <1>2 DEF Parts, Parted, TeamParts, Roles
    <2>2. m.role \in Role
      BY <1>1, <2>1, Members
    <2> QED BY <1>2, <2>1, <2>2
  <1>3. CASE Splits /\ Parted(t, A)
    <2>1. PICK u \in DOMAIN tickets.subtasks[t] : s = <<t, u>>
      BY <1>3 DEF Parts
    <2>2. u \in Subtask
      BY <1>1, InputTypes
    <2> QED BY <1>3, <2>1, <2>2
  <1>4. CASE ~Teamed(t, A) /\ ~(Splits /\ Parted(t, A))
    <2>1. Parts(t, A) = {IdOf(t, A)} /\ s = IdOf(t, A)
      BY <1>4 DEF Parts, TeamParts
    <2>2. \/ IdOf(t, A) = <<t>>
          \/ /\ IdOf(t, A) = <<tickets.parent[t], t>>
             /\ tickets.parent[t] \in ParentsIn(A)
      BY <1>1, IdFacts
    <2> QED BY <2>1, <2>2
  <1> QED BY <1>2, <1>3, <1>4

(* The tickets of the plan.                                                *)
Planned(A) == DOMAIN blockedBy = UNION {Parts(t, A) : t \in Own(A)}

Childless(t) == t \in Ticket /\ Children(t) = {}

LEMMA ChildlessOwn ==
  ASSUME NEW A \in SUBSET Ticket, NEW t, Childless(t)
  PROVE  t \notin ParentsIn(A) /\ (t \in A => t \in Own(A))
  BY DEF Childless, Children, ParentsIn, Own

(* Who has no children has exactly the steps that it was split into.       *)
LEMMA OwnSteps ==
  ASSUME tickets \in Inputs, WellFormed, NEW A \in SUBSET Ticket, Planned(A),
         NEW t, Childless(t), t \in A
  PROVE  t \in Own(A) /\ StepsOf(t) = Parts(t, A)
  <1>1. t \in Own(A) /\ t \notin ParentsIn(A) /\ t \in Ticket
    BY ChildlessOwn DEF Childless
  <1>2. ASSUME NEW s \in StepsOf(t) PROVE s \in Parts(t, A)
    <2>1. PICK x \in Own(A) : s \in Parts(x, A)
      BY <1>2 DEF Planned, Steps, StepsOf
    <2>2. s[1] = t \/ s[Len(s)] = t
      BY <1>2 DEF StepsOf
    <2>3. x \in Ticket
      BY DEF Own
    <2>4. \/ s = <<x>>
          \/ Len(s) = 2 /\ s[2] = x /\ s[1] \in ParentsIn(A)
          \/ Len(s) = 2 /\ s[1] = x /\ s[2] \in Role \cup Subtask
      BY <2>1, PartShape
    <2>5. x = t
      BY <1>1, <2>2, <2>4 DEF WellFormed, NamesDiffer
    <2> QED BY <2>1, <2>5
  <1>3. ASSUME NEW s \in Parts(t, A) PROVE s \in StepsOf(t)
    <2>1. s \in Steps
      BY <1>1, <1>3 DEF Planned, Steps
    <2>2. \/ s = <<t>>
          \/ Len(s) = 2 /\ s[2] = t
          \/ Len(s) = 2 /\ s[1] = t
      BY <1>1, <1>3, PartShape
    <2>3. s[1] = t \/ s[Len(s)] = t
      BY <2>2
    <2> QED BY <2>1, <2>3 DEF StepsOf
  <1> QED BY <1>1, <1>2, <1>3

(* A ticket without children that has a step of its own has no other.      *)
LEMMA WholeStep ==
  ASSUME tickets \in Inputs, WellFormed, NEW A \in SUBSET Ticket, Planned(A),
         NEW t, Childless(t), <<t>> \in Steps
  PROVE  StepsOf(t) = {<<t>>} /\ t \in A
  <1>1. PICK x \in Own(A) : <<t>> \in Parts(x, A)
    BY DEF Planned, Steps
  <1>2. <<t>> = <<x>> /\ Parts(x, A) = {<<x>>}
    BY <1>1, PartShape
  <1>3. x = t /\ t \in A
    BY <1>2 DEF Own
  <1> QED BY <1>2, <1>3, OwnSteps

-----------------------------------------------------------------------------
(* What holds all the time.                                                *)

(* The plan is that for the tickets A that were open, the others of which  *)
(* others had closed.                                                      *)
PlanIsFor(A) == Ticket \ A \subseteq others /\ PlanShape(blockedBy, A)

(* What is ready or done has waited for all that blocks it.                *)
Waited == \A s \in Steps :
            status[s] \in {"ready", "done"} =>
              \A b \in blockedBy[s] : Resolved(b, closed, status)

(* The plan closes a ticket that is not split when its step is over.       *)
WholeClosed == \A t : Childless(t) /\ <<t>> \in Steps /\ t \in closed =>
                        t \in others \/ Over(status, <<t>>)

PInv ==
  /\ tickets \in Inputs /\ DOMAIN status = Steps
  /\ phase = "tickets" => blockedBy = <<>> /\ closed = others
  /\ phase # "tickets" => \E A \in SUBSET Ticket : PlanIsFor(A)
  /\ others \subseteq closed
  /\ Waited /\ WholeClosed

LEMMA ShapeStays ==
  ASSUME NEW A, NEW plan, UNCHANGED tickets, PlanShape(plan, A)
  PROVE  PlanShape(plan, A)'
  <1>1. ParentsIn(A)' = ParentsIn(A)
    BY DEF ParentsIn
  <1>2. Own(A)' = Own(A)
    BY <1>1 DEF Own
  <1>3. \A t : IdOf(t, A)' = IdOf(t, A)
    BY <1>1 DEF IdOf
  <1>4. \A t : Teamed(t, A)' <=> Teamed(t, A)
    BY <1>3 DEF Teamed
  <1>5. \A t : Parted(t, A)' <=> Parted(t, A)
    BY <1>3, <1>4 DEF Parted
  <1>6. Splits' <=> Splits
    BY DEF Splits
  <1>7. \A t : Roles(t)' = Roles(t) /\ Leaves(t)' = Leaves(t) /\ LastRole(t)' = LastRole(t)
    BY DEF Roles, Leaves, LastRole
  <1>8. \A t : TeamParts(t, A)' = TeamParts(t, A) /\ TeamEnds(t, A)' = TeamEnds(t, A)
    BY <1>3, <1>4, <1>7 DEF TeamParts, TeamEnds
  <1>9. \A t : Parts(t, A)' = Parts(t, A) /\ Ends(t, A)' = Ends(t, A)
    BY <1>5, <1>6, <1>7, <1>8 DEF Parts, Ends
  <1>10. \A t : Firsts(t, A)' = Firsts(t, A)
    BY <1>3, <1>4, <1>5, <1>6 DEF Firsts
  <1>11. \A t : WaitsFor(t, A)' = WaitsFor(t, A)
    BY <1>2 DEF WaitsFor
  <1> QED BY <1>2, <1>4, <1>5, <1>6, <1>9, <1>10, <1>11 DEF PlanShape

LEMMA ResolvedStays ==
  ASSUME UNCHANGED <<tickets, blockedBy>>, closed \subseteq closed',
         \A s \in Steps : Over(status, s) => Over(status', s),
         NEW b, Resolved(b, closed, status)
  PROVE  Resolved(b, closed, status)'
  BY DEF Resolved, Steps, Over, Children

(* What a recomputation starts from: no step that was over is undone, none *)
(* is done that was not ready, and a ticket is closed with its step.       *)
Moved(cl, st) ==
  /\ closed \subseteq cl /\ DOMAIN st = Steps
  /\ \A s \in Steps : Over(status, s) => Over(st, s)
  /\ \A s \in Steps : st[s] \in {"ready", "done"} => status[s] \in {"ready", "done"}
  /\ \A t : Childless(t) /\ <<t>> \in Steps /\ t \in cl \ closed => Over(st, <<t>>)

LEMMA RecomputeKeeps ==
  ASSUME WellFormed, PInv, phase = "executing", NEW cl, NEW st, Moved(cl, st),
         Recompute(cl, st), UNCHANGED <<tickets, blockedBy, phase, others>>
  PROVE  PInv'
  <1>1. PICK A \in SUBSET Ticket : PlanIsFor(A)
    BY DEF PInv
  <1>2. tickets \in Inputs /\ Planned(A)
    BY <1>1 DEF PInv, PlanIsFor, PlanShape, Planned
  <1>3. /\ DOMAIN status' = Steps /\ Steps' = Steps
        /\ \A s \in Steps : status'[s] =
             IF st[s] \notin {"blocked", "ready"} THEN st[s]
             ELSE IF Len(s) = 1 /\ s[1] \in cl THEN "skipped"
             ELSE IF \A b \in blockedBy[s] : Resolved(b, cl, st) THEN "ready"
             ELSE "blocked"
    BY DEF Recompute, Recomputed, Steps
  <1>4. \A s \in Steps : Over(st, s) => Over(status', s)
    BY <1>3 DEF Over
  <1>5. closed \subseteq cl /\ cl \subseteq closed'
    BY DEF Moved, Recompute
  <1>6. ASSUME NEW b, Resolved(b, cl, st) PROVE Resolved(b, closed, status)'
    BY <1>3, <1>4, <1>5, <1>6 DEF Resolved, Over, Children
  <1>7. ASSUME NEW b, Resolved(b, closed, status) PROVE Resolved(b, cl, st)
    BY <1>5, <1>7 DEF Resolved, Moved
  <1>8. PlanIsFor(A)'
    <2>1. PlanShape(blockedBy, A)
      BY <1>1 DEF PlanIsFor
    <2>2. PICK plan : plan = blockedBy
      OBVIOUS
    <2>3. PlanShape(plan, A)'
      BY <2>1, <2>2, ShapeStays
    <2>4. PlanShape(blockedBy, A)'
      BY <2>2, <2>3 DEF PlanShape
    <2> QED BY <1>1, <2>4 DEF PlanIsFor
  <1>9. Waited'
    <2> SUFFICES ASSUME NEW s \in Steps, status'[s] \in {"ready", "done"},
                        NEW b \in blockedBy[s]
                 PROVE  Resolved(b, closed, status)'
      BY <1>3 DEF Waited
    <2>1. CASE status'[s] = "ready"
      <3>1. Resolved(b, cl, st)
        BY <1>3, <2>1
      <3> QED BY <1>6, <3>1
    <2>2. CASE status'[s] = "done"
      <3>1. st[s] = "done"
        BY <1>3, <2>2
      <3>2. Resolved(b, closed, status)
        BY <3>1 DEF Moved, PInv, Waited
      <3> QED BY <1>6, <1>7, <3>2
    <2> QED BY <2>1, <2>2
  <1>10. WholeClosed'
    <2> SUFFICES ASSUME NEW t, Childless(t), <<t>> \in Steps, t \in closed', t \notin others
                 PROVE  Over(status', <<t>>)
      BY <1>3 DEF WholeClosed, Childless, Children, Over
    <2>1. StepsOf(t) = {<<t>>}
      BY <1>2, WholeStep
    <2>2. t \in cl
      <3> SUFFICES ASSUME t \in SplitAndOver(status') PROVE FALSE
        BY DEF Recompute
      <3>1. PICK s \in Steps : Len(s) = 2 /\ s[1] = t
        BY DEF SplitAndOver
      <3>2. s \in StepsOf(t)
        BY <3>1 DEF StepsOf
      <3>3. s = <<t>>
        BY <2>1, <3>2
      <3> QED BY <3>1, <3>3
    <2>3. CASE t \in closed
      BY <1>4, <2>3 DEF PInv, WholeClosed, Moved
    <2>4. CASE t \notin closed
      BY <1>4, <2>2, <2>4 DEF Moved
    <2> QED BY <2>3, <2>4
  <1> QED BY <1>1, <1>3, <1>5, <1>8, <1>9, <1>10 DEF PInv

(* The steps that end recompute the plan.                                  *)
LEMMA WorkMoves ==
  ASSUME WellFormed, PInv, NEW s \in Steps, NEW end \in {"done", "failed"}, Work(s, end)
  PROVE  \E cl, st : /\ Moved(cl, st) /\ Recompute(cl, st)
                     /\ cl = IF end = "done" /\ tickets.transitions
                             THEN closed \cup TicketsOf(s) ELSE closed
  <1>1. PICK cl, st :
          /\ cl = IF end = "done" /\ tickets.transitions THEN closed \cup TicketsOf(s) ELSE closed
          /\ st = [status EXCEPT ![s] = end]
    OBVIOUS
  <1>2. Recompute(cl, st)
    BY <1>1 DEF Work
  <1>3. PICK A \in SUBSET Ticket : PlanIsFor(A)
    BY DEF PInv, Work
  <1>4. tickets \in Inputs /\ Planned(A) /\ DOMAIN status = Steps
    BY <1>3 DEF PInv, PlanIsFor, PlanShape, Planned
  <1>5. /\ DOMAIN st = Steps /\ st[s] = end /\ status[s] = "ready"
        /\ \A x \in Steps : x # s => st[x] = status[x]
    BY <1>1, <1>4 DEF Work
  <1>6. \A x \in Steps : Over(status, x) => Over(st, x)
    BY <1>5 DEF Over
  <1>7. \A x \in Steps : st[x] \in {"ready", "done"} => status[x] \in {"ready", "done"}
    BY <1>5
  <1>8. ASSUME NEW t, Childless(t), <<t>> \in Steps, t \in cl \ closed PROVE Over(st, <<t>>)
    <2>1. end = "done" /\ t \in TicketsOf(s)
      BY <1>1, <1>8
    <2>2. s \in StepsOf(t)
      BY <2>1 DEF TicketsOf, StepsOf
    <2>3. StepsOf(t) = {<<t>>}
      BY <1>4, <1>8, WholeStep
    <2> QED BY <1>5, <2>1, <2>2, <2>3 DEF Over
  <1>9. closed \subseteq cl
    BY <1>1
  <1>10. Moved(cl, st)
    BY <1>5, <1>6, <1>7, <1>8, <1>9 DEF Moved
  <1> QED BY <1>1, <1>2, <1>10

LEMMA OthersMove ==
  ASSUME PInv, NEW cl, cl = closed,
         Refresh \/ \E s \in Steps : Skip(s)
  PROVE  \E st : Moved(cl, st) /\ Recompute(cl, st)
  <1>1. CASE Refresh
    <2>1. PICK st : st = status
      OBVIOUS
    <2>2. Moved(cl, st)
      BY <2>1 DEF Moved, PInv
    <2> QED BY <1>1, <2>1, <2>2 DEF Refresh
  <1>2. CASE \E s \in Steps : Skip(s)
    <2>1. PICK s \in Steps : Skip(s)
      BY <1>2
    <2>2. PICK st : st = [status EXCEPT ![s] = "skipped"]
      OBVIOUS
    <2>3. /\ DOMAIN st = Steps /\ st[s] = "skipped"
          /\ \A x \in Steps : x # s => st[x] = status[x]
      BY <2>2 DEF PInv
    <2>4. Moved(cl, st)
      BY <2>3 DEF Moved, Over
    <2> QED BY <2>1, <2>2, <2>4 DEF Skip
  <1> QED BY <1>1, <1>2

LEMMA ComputeKeeps ==
  ASSUME WellFormed, PInv, ComputePlan
  PROVE  PInv'
  <1>1. PICK A \in SUBSET Ticket : A = Ticket \ closed
    OBVIOUS
  <1>2. tickets \in Inputs /\ closed = others /\ Ticket \ A \subseteq others
    BY <1>1 DEF PInv, ComputePlan
  <1>3. UNCHANGED <<tickets, closed, others>> /\ phase' = "planned"
    BY DEF ComputePlan
  <1>4. PICK plan : plan = Plan(A)
    OBVIOUS
  <1>5. blockedBy' = plan
    BY <1>1, <1>4 DEF ComputePlan, Plan, Splits
  <1>6. PlanIsFor(A)'
    <2>1. PlanShape(plan, A)
      BY <1>2, <1>4, PlanFacts
    <2>2. PlanShape(plan, A)'
      BY <1>3, <2>1, ShapeStays
    <2>3. PlanShape(blockedBy, A)'
      BY <1>5, <2>2 DEF PlanShape
    <2> QED BY <1>2, <1>3, <2>3 DEF PlanIsFor
  <1>7. /\ DOMAIN status' = Steps'
        /\ \A s \in Steps' : status'[s] = IF blockedBy'[s] = {} THEN "ready" ELSE "blocked"
    BY DEF ComputePlan, Steps
  <1>8. Waited'
    BY <1>7 DEF Waited
  <1>9. WholeClosed'
    BY <1>2, <1>3 DEF WholeClosed
  <1> QED BY <1>2, <1>3, <1>6, <1>7, <1>8, <1>9 DEF PInv

(* Every step keeps it.                                                    *)
THEOREM PlannerInvariant ==
  ASSUME WellFormed
  PROVE  PlannerSpec => []PInv
  <1>1. PlannerInit => PInv
    BY DEF PlannerInit, PInv, Waited, WholeClosed, Steps
  <1>2. PInv /\ [PlannerNext]_plannerVars => PInv'
    <2> SUFFICES ASSUME PInv, [PlannerNext]_plannerVars PROVE PInv'
      OBVIOUS
    <2>1. CASE ComputePlan
      BY <2>1, ComputeKeeps
    <2>2. ASSUME NEW s \in Steps, NEW end \in {"done", "failed"}, Work(s, end) PROVE PInv'
      <3>1. PICK cl, st : Moved(cl, st) /\ Recompute(cl, st)
        BY <2>2, WorkMoves
      <3> QED BY <2>2, <3>1, RecomputeKeeps DEF Work
    <2>3. CASE Refresh \/ \E s \in Steps : Skip(s)
      <3>1. PICK cl : cl = closed
        OBVIOUS
      <3>2. PICK st : Moved(cl, st) /\ Recompute(cl, st)
        BY <2>3, <3>1, OthersMove
      <3> QED BY <2>3, <3>2, RecomputeKeeps DEF Refresh, Skip
    <2>4. ASSUME UNCHANGED <<tickets, blockedBy, status>>,
                 phase' = phase \/ (phase # "tickets" /\ phase' # "tickets"),
                 \/ UNCHANGED <<closed, others>>
                 \/ \E t : closed' = closed \cup {t} /\ others' = others \cup {t}
          PROVE  PInv'
      <3>1. others \subseteq others' /\ closed \subseteq closed' /\ Steps' = Steps
        BY <2>4 DEF Steps
      <3>2. ASSUME NEW A \in SUBSET Ticket, PlanIsFor(A) PROVE PlanIsFor(A)'
        <4>1. PICK plan : plan = blockedBy
          OBVIOUS
        <4>2. PlanShape(plan, A)
          BY <3>2, <4>1 DEF PlanIsFor
        <4>3. PlanShape(plan, A)'
          BY <2>4, <4>2, ShapeStays
        <4>4. PlanShape(blockedBy, A)'
          BY <2>4, <4>1, <4>3 DEF PlanShape
        <4> QED BY <3>1, <3>2, <4>4 DEF PlanIsFor
      <3>3. Waited'
        <4> SUFFICES ASSUME NEW s \in Steps, status[s] \in {"ready", "done"},
                            NEW b \in blockedBy[s]
                     PROVE  Resolved(b, closed, status)'
          BY <2>4, <3>1 DEF Waited
        <4>1. Resolved(b, closed, status)
          BY DEF PInv, Waited
        <4> QED BY <2>4, <3>1, <4>1, ResolvedStays
      <3>4. WholeClosed'
        BY <2>4, <3>1 DEF PInv, WholeClosed, Childless, Children, Over
      <3> QED BY <2>4, <3>1, <3>2, <3>3, <3>4 DEF PInv
    <2>5. CASE InitializeStages
      BY <2>4, <2>5 DEF InitializeStages
    <2>6. CASE NextStage
      BY <2>4, <2>6 DEF NextStage
    <2>7. CASE \E t \in Ticket : CloseTicket(t)
      BY <2>4, <2>7 DEF CloseTicket
    <2>8. CASE UNCHANGED plannerVars
      BY <2>4, <2>8 DEF plannerVars
    <2> QED BY <2>1, <2>2, <2>3, <2>5, <2>6, <2>7, <2>8 DEF PlannerNext
  <1> QED BY <1>1, <1>2, PTL DEF PlannerSpec

-----------------------------------------------------------------------------
(* A step of a ticket that is done, and not partly skipped, has waited for *)
(* other steps until they were done.                                       *)
LEMMA BlockerDone ==
  ASSUME PInv, NEW s \in Steps, status[s] = "done", NEW b \in blockedBy[s], NEW d,
         Childless(d), ~Bypassed(d), b = <<d>> \/ Len(b) = 2,
         b \in StepsOf(d)
  PROVE  status[b] = "done"
  <1>1. Resolved(b, closed, status) /\ b \in Steps
    BY DEF PInv, Waited, StepsOf
  <1>2. Over(status, b)
    <2>1. CASE b = <<d>>
      <3>1. Len(b) = 1 /\ b[1] = d /\ Children(b[1]) = {}
        BY <2>1 DEF Childless
      <3>2. d \in closed \/ Over(status, b)
        BY <1>1, <3>1 DEF Resolved
      <3> QED BY <1>1, <2>1, <3>2 DEF PInv, WholeClosed, Bypassed
    <2>2. CASE Len(b) = 2
      BY <1>1, <2>2 DEF Resolved
    <2> QED BY <2>1, <2>2
  <1> QED BY <1>2 DEF Over, Bypassed

(* If one step of a ticket is done then so is one that waits for others.   *)
LEMMA FirstDone ==
  ASSUME WellFormed, PInv, NEW A \in SUBSET Ticket, PlanIsFor(A),
         NEW t, Childless(t), t \in A, ~Bypassed(t),
         NEW s \in StepsOf(t), status[s] = "done"
  PROVE  \E f \in Firsts(t, A) : f \in Steps /\ status[f] = "done"
  <1>1. tickets \in Inputs /\ Planned(A) /\ PlanShape(blockedBy, A)
    BY DEF PInv, PlanIsFor, PlanShape, Planned
  <1>2. t \in Own(A) /\ StepsOf(t) = Parts(t, A) /\ t \in Ticket
    BY <1>1, OwnSteps DEF Childless
  <1>3. s \in Steps /\ s \in Parts(t, A)
    BY <1>2 DEF StepsOf
  <1>4. CASE Teamed(t, A)
    <2> DEFINE team == tickets.team[t]
               S(i) == <<t, team[i].role>>
               T == {i \in 1..Len(team) : status[S(i)] = "done"}
    <2>1. Len(team) \in Nat /\ \A m \in Range(team) : \E i \in 1..Len(team) : m = team[i]
      BY <1>1, <1>2, InputTypes, InSeq
    <2>2. Parts(t, A) = Roles(t)
      BY <1>4 DEF Parts, Parted, TeamParts
    <2>3. \A i \in 1..Len(team) : S(i) \in StepsOf(t)
      <3>1. \A i \in 1..Len(team) : team[i] \in Range(team)
        BY <1>1, <1>2, InputTypes, InSeq
      <3> QED BY <1>2, <2>2, <3>1 DEF Roles
    <2>4. PICK k \in 1..Len(team) : s = S(k)
      BY <1>3, <2>1, <2>2 DEF Roles
    <2>5. T # {} /\ T \subseteq Nat
      BY <2>4
    <2>6. PICK m \in T : \A i \in T : m <= i
      <3> HIDE DEF T
      <3> QED BY <2>5, Smallest
    <2>7. m \in 1..Len(team) /\ status[S(m)] = "done"
      BY <2>6
    <2>8. m = 1
      <3> SUFFICES ASSUME m # 1 PROVE FALSE
        OBVIOUS
      <3>1. m \in 2..Len(team) /\ m - 1 \in 1..Len(team)
        BY <2>1, <2>7
      <3>2. S(m - 1) \in blockedBy[S(m)]
        BY <1>1, <1>2, <1>4, <3>1 DEF PlanShape
      <3>3. S(m) \in Steps /\ S(m - 1) \in StepsOf(t)
        BY <2>3, <2>7, <3>1 DEF StepsOf
      <3>4. Len(S(m - 1)) = 2
        OBVIOUS
      <3> HIDE DEF S
      <3>5. status[S(m - 1)] = "done"
        BY <2>7, <3>2, <3>3, <3>4, BlockerDone
      <3> QED BY <2>1, <2>6, <2>7, <3>1, <3>5
    <2>9. S(1) \in Firsts(t, A) /\ S(1) \in Steps /\ status[S(1)] = "done"
      BY <1>4, <2>3, <2>7, <2>8 DEF Firsts, StepsOf
    <2> QED BY <2>9
  <1>5. CASE Splits /\ Parted(t, A)
    <2> DEFINE subs == DOMAIN tickets.subtasks[t]
    <2>0. PICK n \in Nat : \E rank \in [subs -> 0..n] :
            \A u \in subs : /\ tickets.subtasks[t][u] \subseteq subs
                            /\ \A v \in tickets.subtasks[t][u] : rank[v] < rank[u]
      BY <1>1, <1>2 DEF WellFormed, SubtasksAreOrdered
    <2>1. PICK rank \in [subs -> 0..n] :
            \A u \in subs : /\ tickets.subtasks[t][u] \subseteq subs
                            /\ \A v \in tickets.subtasks[t][u] : rank[v] < rank[u]
      BY <2>0
    <2> DEFINE D == {u \in subs : status[<<t, u>>] = "done"}
               T == {rank[u] : u \in D}
    <2>2. Parts(t, A) = {t} \X subs
      BY <1>5 DEF Parts
    <2>3. \A u \in subs : <<t, u>> \in StepsOf(t)
      BY <1>2, <2>2
    <2>4. PICK w \in subs : s = <<t, w>>
      BY <1>3, <2>2
    <2>5. T # {} /\ T \subseteq Nat
      <3>1. w \in D
        BY <2>4
      <3>2. \A u \in D : rank[u] \in Nat
        BY <2>1
      <3> QED BY <3>1, <3>2
    <2>6. PICK m \in T : \A i \in T : m <= i
      <3> HIDE DEF T
      <3> QED BY <2>5, Smallest
    <2>7. PICK u \in D : m = rank[u]
      BY <2>6
    <2>8. tickets.subtasks[t][u] = {}
      <3> SUFFICES ASSUME NEW v \in tickets.subtasks[t][u] PROVE FALSE
        OBVIOUS
      <3>1. v \in subs /\ rank[v] < rank[u] /\ u \in subs
        BY <2>1, <2>7
      <3>2. <<t, v>> \in blockedBy[<<t, u>>]
        BY <1>1, <1>2, <1>5, <3>1 DEF PlanShape
      <3>3. <<t, u>> \in Steps /\ <<t, v>> \in StepsOf(t) /\ Len(<<t, v>>) = 2
        BY <2>3, <3>1 DEF StepsOf
      <3>4. status[<<t, u>>] = "done"
        BY <2>7
      <3>5. status[<<t, v>>] = "done"
        BY <3>2, <3>3, <3>4, BlockerDone
      <3>6. rank[v] \in T
        BY <3>1, <3>5
      <3>7. rank[v] \in Nat /\ rank[u] \in Nat
        BY <2>1, <3>1
      <3>8. rank[u] <= rank[v]
        BY <2>6, <2>7, <3>6
      <3> QED BY <3>1, <3>7, <3>8
    <2>9. ~Teamed(t, A)
      BY <1>5 DEF Parted
    <2>10. <<t, u>> \in Firsts(t, A) /\ <<t, u>> \in Steps /\ status[<<t, u>>] = "done"
      <3>1. u \in subs /\ status[<<t, u>>] = "done"
        BY <2>7
      <3>2. <<t, u>> \in Firsts(t, A)
        BY <1>5, <2>8, <2>9, <3>1 DEF Firsts
      <3> QED BY <2>3, <3>1, <3>2 DEF StepsOf
    <2> QED BY <2>10
  <1>6. CASE ~Teamed(t, A) /\ ~(Splits /\ Parted(t, A))
    BY <1>3, <1>6 DEF Firsts, Parts, TeamParts
  <1> QED BY <1>4, <1>5, <1>6

(* If the last steps of a ticket are done then all of them are.            *)
LEMMA EndsDone ==
  ASSUME WellFormed, PInv, NEW A \in SUBSET Ticket, PlanIsFor(A),
         NEW d, Childless(d), d \in A, ~Bypassed(d),
         \A b \in Ends(d, A) : status[b] = "done"
  PROVE  Done(d)
  <1>1. tickets \in Inputs /\ Planned(A) /\ PlanShape(blockedBy, A)
    BY DEF PInv, PlanIsFor, PlanShape, Planned
  <1>2. d \in Own(A) /\ StepsOf(d) = Parts(d, A) /\ d \in Ticket
    BY <1>1, OwnSteps DEF Childless
  <1>3. CASE Teamed(d, A)
    <2> DEFINE team == tickets.team[d]
               S(i) == <<d, team[i].role>>
               T == {i \in 1..Len(team) : status[S(i)] # "done"}
    <2>1. Len(team) \in Nat /\ \A m \in Range(team) : \E i \in 1..Len(team) : m = team[i]
      BY <1>1, <1>2, InputTypes, InSeq
    <2>2. Parts(d, A) = Roles(d) /\ Ends(d, A) = {S(Len(team))}
      BY <1>3 DEF Parts, Ends, Parted, TeamParts, TeamEnds, LastRole
    <2>3. \A i \in 1..Len(team) : S(i) \in StepsOf(d)
      <3>1. \A i \in 1..Len(team) : team[i] \in Range(team)
        BY <1>1, <1>2, InputTypes, InSeq
      <3> QED BY <1>2, <2>2, <3>1 DEF Roles
    <2>4. T = {}
      <3> SUFFICES ASSUME T # {} PROVE FALSE
        OBVIOUS
      <3>1. T \subseteq 0..Len(team)
        BY <2>1
      <3>2. PICK m \in T : \A i \in T : i <= m
        <4> HIDE DEF T
        <4> QED BY <2>1, <3>1, Largest
      <3>3. m \in 1..Len(team) /\ status[S(m)] # "done"
        BY <3>2
      <3>4. m # Len(team)
        BY <2>2, <3>3
      <3>5. m + 1 \in 2..Len(team) /\ m + 1 \in 1..Len(team) /\ (m + 1) - 1 = m
        BY <2>1, <3>3, <3>4
      <3>6. status[S(m + 1)] = "done"
        BY <2>1, <3>2, <3>3, <3>5
      <3>7. S((m + 1) - 1) \in blockedBy[S(m + 1)]
        BY <1>1, <1>2, <1>3, <3>5 DEF PlanShape
      <3>8. S(m + 1) \in Steps /\ S(m) \in StepsOf(d) /\ Len(S(m)) = 2
        BY <2>3, <3>3, <3>5 DEF StepsOf
      <3> HIDE DEF S
      <3>9. S(m) \in blockedBy[S(m + 1)]
        BY <3>5, <3>7
      <3> QED BY <3>3, <3>6, <3>8, <3>9, BlockerDone
    <2>5. ASSUME NEW s \in StepsOf(d) PROVE status[s] = "done"
      <3>1. PICK i \in 1..Len(team) : s = S(i)
        BY <1>2, <2>1, <2>2, <2>5 DEF Roles
      <3>2. i \notin T
        BY <2>4
      <3> QED BY <3>1, <3>2
    <2> QED BY <2>5 DEF Done
  <1>4. CASE Splits /\ Parted(d, A)
    <2> DEFINE subs == DOMAIN tickets.subtasks[d]
    <2>0. PICK n \in Nat : \E rank \in [subs -> 0..n] :
            \A u \in subs : /\ tickets.subtasks[d][u] \subseteq subs
                            /\ \A v \in tickets.subtasks[d][u] : rank[v] < rank[u]
      BY <1>1, <1>2 DEF WellFormed, SubtasksAreOrdered
    <2>1. PICK rank \in [subs -> 0..n] :
            \A u \in subs : /\ tickets.subtasks[d][u] \subseteq subs
                            /\ \A v \in tickets.subtasks[d][u] : rank[v] < rank[u]
      BY <2>0
    <2> DEFINE D == {u \in subs : status[<<d, u>>] # "done"}
               T == {rank[u] : u \in D}
    <2>2. Parts(d, A) = {d} \X subs /\ Ends(d, A) = {d} \X Leaves(d)
      BY <1>4 DEF Parts, Ends
    <2>3. \A u \in subs : <<d, u>> \in StepsOf(d)
      BY <1>2, <2>2
    <2>4. D = {}
      <3> SUFFICES ASSUME D # {} PROVE FALSE
        OBVIOUS
      <3>1. T # {} /\ T \subseteq 0..n
        <4>1. \A u \in D : rank[u] \in 0..n
          BY <2>1
        <4> QED BY <4>1
      <3>2. PICK m \in T : \A i \in T : i <= m
        <4> HIDE DEF T
        <4> QED BY <2>1, <3>1, Largest
      <3>3. PICK u \in D : m = rank[u]
        BY <3>2
      <3>4. u \in subs /\ status[<<d, u>>] # "done"
        BY <3>3
      <3>5. u \notin Leaves(d)
        BY <2>2, <3>4
      <3>6. PICK v \in subs : u \in tickets.subtasks[d][v]
        BY <3>4, <3>5 DEF Leaves, Range
      <3>7. rank[u] < rank[v] /\ rank[v] \in Nat /\ rank[u] \in Nat
        BY <2>1, <3>4, <3>6
      <3>8. status[<<d, v>>] = "done"
        <4> SUFFICES ASSUME status[<<d, v>>] # "done" PROVE FALSE
          OBVIOUS
        <4>1. rank[v] \in T
          BY <3>6
        <4>2. rank[v] <= rank[u]
          BY <3>2, <3>3, <4>1
        <4> QED BY <3>7, <4>2
      <3>9. <<d, u>> \in blockedBy[<<d, v>>]
        BY <1>1, <1>2, <1>4, <3>6 DEF PlanShape
      <3>10. <<d, v>> \in Steps /\ <<d, u>> \in StepsOf(d) /\ Len(<<d, u>>) = 2
        BY <2>3, <3>4, <3>6 DEF StepsOf
      <3> QED BY <3>4, <3>8, <3>9, <3>10, BlockerDone
    <2> QED BY <1>2, <2>2, <2>4 DEF Done
  <1>5. CASE ~Teamed(d, A) /\ ~(Splits /\ Parted(d, A))
    BY <1>2, <1>5 DEF Done, Ends, TeamEnds, Parts, TeamParts
  <1> QED BY <1>3, <1>4, <1>5

LEMMA EndsAreParts ==
  ASSUME tickets \in Inputs, NEW A \in SUBSET Ticket, NEW t \in Own(A)
  PROVE  Ends(t, A) \subseteq Parts(t, A)
  <1>1. CASE Teamed(t, A)
    <2>1. t \in Ticket /\ Len(tickets.team[t]) > 1
      BY <1>1 DEF Own, Teamed
    <2>2. /\ Len(tickets.team[t]) \in Nat
          /\ \A i \in 1..Len(tickets.team[t]) : tickets.team[t][i] \in Range(tickets.team[t])
      BY <2>1, InputTypes, InSeq
    <2>3. tickets.team[t][Len(tickets.team[t])] \in Range(tickets.team[t])
      BY <2>1, <2>2
    <2> QED BY <1>1, <2>3 DEF Ends, Parts, Parted, TeamEnds, TeamParts, Roles, LastRole
  <1>2. CASE ~Teamed(t, A)
    BY <1>2 DEF Ends, Parts, Leaves, TeamEnds, TeamParts
  <1> QED BY <1>1, <1>2

(* However tickets are split into steps (computePlan()) and whatever ends  *)
(* the steps, nothing of a ticket is done before all of what it depends    *)
(* on: for any tickets, any teams and any subtasks.                        *)
THEOREM OrderIsKept ==
  ASSUME WellFormed
  PROVE  PlannerSpec => []OrderKept
  <1>1. PInv => OrderKept
    <2> SUFFICES ASSUME PInv, NEW s \in Steps, NEW t \in Ticket, NEW d \in Ticket,
                        status[s] = "done", s \in StepsOf(t), d \in tickets.deps[t],
                        Childless(d), Childless(t), ~Bypassed(d), ~Bypassed(t)
                 PROVE  Done(d)
      BY DEF OrderKept, Childless
    <2>1. PICK A \in SUBSET Ticket : PlanIsFor(A)
      <3>1. phase # "tickets"
        BY DEF PInv, Steps
      <3> QED BY <3>1 DEF PInv
    <2>2. tickets \in Inputs /\ Planned(A) /\ PlanShape(blockedBy, A)
      BY <2>1 DEF PInv, PlanIsFor, PlanShape, Planned
    <2>3. t \in A /\ d \in A
      BY <2>1 DEF PlanIsFor, Bypassed
    <2>4. t \in Own(A) /\ d \in Own(A) /\ StepsOf(d) = Parts(d, A)
      BY <2>2, <2>3, OwnSteps
    <2>5. PICK f \in Firsts(t, A) : f \in Steps /\ status[f] = "done"
      BY <2>1, <2>3, FirstDone
    <2>6. Ends(d, A) \subseteq blockedBy[f]
      BY <2>2, <2>4, <2>5 DEF PlanShape, WaitsFor
    <2>7. ASSUME NEW b \in Ends(d, A) PROVE status[b] = "done"
      <3>1. b \in Parts(d, A)
        BY <2>2, <2>4, EndsAreParts
      <3>2. b = <<d>> \/ Len(b) = 2
        BY <2>2, <2>4, <3>1, PartShape
      <3> QED BY <2>4, <2>5, <2>6, <2>7, <3>1, <3>2, BlockerDone
    <2> QED BY <2>1, <2>3, <2>7, EndsDone
  <1> QED BY <1>1, PlannerInvariant, PTL

(* closeCompletedSubtaskParents() and ticketLookupId(): the plan closes a  *)
(* parent, or a ticket with subtasks, when all its steps are over.         *)
THEOREM ParentsCloseLast ==
  ASSUME WellFormed
  PROVE  PlannerSpec => ClosedWhenOver
  <1>1. PInv /\ [PlannerNext]_plannerVars =>
          [\A t \in closed' \ closed :
             others' = others /\ (\E s \in Steps : Len(s) = 2 /\ s[1] = t /\ s[2] \notin Role)
               => \A s \in Steps : s[1] = t => Over(status', s)]_plannerVars
    <2> SUFFICES ASSUME PInv, PlannerNext, NEW t \in closed' \ closed, others' = others,
                        NEW x \in Steps, Len(x) = 2, x[1] = t, x[2] \notin Role,
                        NEW s \in Steps, s[1] = t
                 PROVE  Over(status', s)
      OBVIOUS
    <2>1. PICK A \in SUBSET Ticket : PlanIsFor(A)
      <3>1. phase # "tickets"
        BY DEF PInv, Steps
      <3> QED BY <3>1 DEF PInv
    <2>2. tickets \in Inputs /\ Planned(A)
      BY <2>1 DEF PInv, PlanIsFor, PlanShape, Planned
    <2>3. PICK c \in Own(A) : x \in Parts(c, A)
      BY <2>2 DEF Planned, Steps
    <2>4. \/ t \in ParentsIn(A)
          \/ t \in Own(A) /\ Splits /\ Parted(t, A)
      BY <2>2, <2>3, PartShape
    <2>5. \A y \in Steps : y[1] = t \/ y[Len(y)] = t =>
            Len(y) = 2 /\ y[1] = t /\ y[2] # t /\ y[2] \notin Role
      <3> SUFFICES ASSUME NEW y \in Steps, y[1] = t \/ y[Len(y)] = t
                   PROVE  Len(y) = 2 /\ y[1] = t /\ y[2] # t /\ y[2] \notin Role
        OBVIOUS
      <3>1. PICK e \in Own(A) : y \in Parts(e, A)
        BY <2>2 DEF Planned, Steps
      <3>2. t \in Ticket /\ e \in Ticket /\ e \notin ParentsIn(A)
        BY <2>4 DEF Own, ParentsIn
      <3>3. CASE t \in ParentsIn(A)
        <4>1. t # e
          BY <3>2, <3>3
        <4>2. Len(y) = 2 /\ y[2] = e /\ y[1] = t
          BY <2>2, <3>1, <3>2, <4>1, PartShape DEF WellFormed, NamesDiffer
        <4> QED BY <3>2, <4>1, <4>2 DEF WellFormed, NamesDiffer
      <3>4. CASE t \notin ParentsIn(A)
        <4>1. t \in Own(A) /\ Splits /\ Parted(t, A)
          BY <2>4, <3>4
        <4>2. \/ y = <<e>>
              \/ Len(y) = 2 /\ y[2] = e /\ y[1] \in ParentsIn(A)
              \/ Len(y) = 2 /\ y[1] = e /\ y[2] \in Role \cup Subtask
          BY <2>2, <3>1, PartShape
        <4>3. e = t
          BY <3>2, <3>4, <4>2 DEF WellFormed, NamesDiffer
        <4>4. y \in {t} \X DOMAIN tickets.subtasks[t]
          BY <3>1, <4>1, <4>3 DEF Parts
        <4>5. \A u \in DOMAIN tickets.subtasks[t] : u \in Subtask
          BY <2>2, <3>2, InputTypes
        <4>6. Len(y) = 2 /\ y[1] = t /\ y[2] \in Subtask
          BY <4>4, <4>5
        <4> QED BY <3>2, <4>6 DEF WellFormed, NamesDiffer
      <3> QED BY <3>3, <3>4
    <2>6. \A y \in Steps : t \notin TicketsOf(y)
      <3> SUFFICES ASSUME NEW y \in Steps, t \in TicketsOf(y) PROVE FALSE
        OBVIOUS
      <3>1. y[1] = t \/ y[Len(y)] = t
        BY DEF TicketsOf
      <3>2. Len(y) = 2 /\ y[2] # t /\ y[2] \notin Role
        BY <2>5, <3>1
      <3> QED BY <3>2 DEF TicketsOf
    <2>7. ASSUME NEW cl, NEW st, Recompute(cl, st), t \notin cl
          PROVE  Over(status', s)
      <3>1. t \in SplitAndOver(status')
        BY <2>7 DEF Recompute
      <3>2. Len(s) = 2
        BY <2>5
      <3> QED BY <3>1, <3>2 DEF SplitAndOver
    <2>8. ASSUME NEW y \in Steps, NEW end \in {"done", "failed"}, Work(y, end)
          PROVE  Over(status', s)
      <3>1. PICK cl, st : /\ Recompute(cl, st)
                          /\ cl = IF end = "done" /\ tickets.transitions
                                  THEN closed \cup TicketsOf(y) ELSE closed
        BY <2>8, WorkMoves
      <3>2. t \notin cl
        BY <2>6, <3>1
      <3> QED BY <2>7, <3>1, <3>2
    <2>9. CASE Refresh \/ \E y \in Steps : Skip(y)
      <3>1. PICK cl : cl = closed
        OBVIOUS
      <3>2. PICK st : Recompute(cl, st)
        BY <2>9, <3>1, OthersMove
      <3> QED BY <2>7, <3>1, <3>2
    <2>10. CASE \E y \in Ticket : CloseTicket(y)
      BY <2>10 DEF CloseTicket, PInv
    <2>11. CASE ComputePlan \/ InitializeStages \/ NextStage
      BY <2>11 DEF ComputePlan, InitializeStages, NextStage
    <2> QED BY <2>8, <2>9, <2>10, <2>11 DEF PlannerNext
  <1> QED BY <1>1, PlannerInvariant, PTL DEF PlannerSpec, ClosedWhenOver

-----------------------------------------------------------------------------
(* The plan goes on.                                                       *)

(* Nothing waits for itself through others, and there are finitely many    *)
(* things to wait for.                                                     *)
NoCycles ==
  \A k \in Inputs : \E n \in Nat :
    /\ \E rank \in [Ticket -> 0..n] :
         \A t \in Ticket : \A d \in k.deps[t] : rank[d] < rank[t]
    /\ \A t \in Ticket : Len(k.team[t]) <= n
    /\ \A t \in Ticket : \E rank \in [DOMAIN k.subtasks[t] -> 0..n] :
         \A u \in DOMAIN k.subtasks[t] : \A v \in k.subtasks[t][u] : rank[v] < rank[u]

(* Pairs of numbers up to n in their order.                                *)
LEMMA Lexicographic ==
  ASSUME NEW n \in Nat
  PROVE  \E N \in Nat : \E place \in [(0..n) \X (0..n) -> 0..N] :
           \A a, b, i, j \in 0..n :
             a < b \/ (a = b /\ i < j) => place[<<a, i>>] < place[<<b, j>>]
  <1> DEFINE M == n + 1
             At(a, i) == a * M + i
             N == At(n, n)
  <1>1. M \in Nat /\ M > n /\ N \in Nat
    OBVIOUS
  <1>2. \A a, i \in 0..n : At(a, i) \in 0..N
    <2> TAKE a, i \in 0..n
    <2>1. a * M \in Nat /\ a * M <= n * M
      BY <1>1
    <2> QED BY <1>1, <2>1
  <1>3. ASSUME NEW a \in 0..n, NEW b \in 0..n, NEW i \in 0..n, NEW j \in 0..n, a < b
        PROVE  At(a, i) < At(b, j)
    <2> DEFINE c == b - a - 1
    <2>1. c \in Nat /\ b = a + 1 + c
      BY <1>3
    <2>2. b * M = a * M + M + c * M
      BY <1>1, <2>1
    <2>3. c * M \in Nat /\ a * M \in Nat /\ b * M \in Nat
      BY <1>1, <2>1
    <2> HIDE DEF M, c
    <2> QED BY <1>1, <2>2, <2>3
  <1>4. PICK place : place = [p \in (0..n) \X (0..n) |-> At(p[1], p[2])]
    OBVIOUS
  <1> HIDE DEF At, N
  <1>5. \A a, i \in 0..n : place[<<a, i>>] = At(a, i)
    BY <1>4
  <1>6. place \in [(0..n) \X (0..n) -> 0..N]
    BY <1>2, <1>4
  <1>7. \A a, i, j \in 0..n : i < j => At(a, i) < At(a, j)
    <2> TAKE a, i, j \in 0..n
    <2>1. a * M \in Nat
      BY <1>1
    <2> QED BY <2>1 DEF At
  <1> QED BY <1>1, <1>3, <1>5, <1>6, <1>7

(* What the steps of a ticket wait for.                                    *)
LEMMA Blockers ==
  ASSUME tickets \in Inputs, WellFormed, NEW A \in SUBSET Ticket,
         NEW plan, PlanShape(plan, A), NEW t \in Own(A), NEW s \in Parts(t, A), NEW b \in plan[s]
  PROVE  \/ \E d \in WaitsFor(t, A) : b \in Parts(d, A)
         \/ /\ Teamed(t, A)
            /\ \E i \in 2..Len(tickets.team[t]) :
                 s = <<t, tickets.team[t][i].role>> /\ b = <<t, tickets.team[t][i - 1].role>>
         \/ /\ Splits /\ Parted(t, A)
            /\ \E u \in DOMAIN tickets.subtasks[t] : \E v \in tickets.subtasks[t][u] :
                 s = <<t, u>> /\ b = <<t, v>>
  <1>1. CASE s \in Firsts(t, A)
    <2>1. PICK d \in WaitsFor(t, A) : b \in Ends(d, A)
      BY <1>1 DEF PlanShape
    <2>2. d \in Own(A)
      BY DEF WaitsFor
    <2> QED BY <2>1, <2>2, EndsAreParts
  <1>2. CASE s \notin Firsts(t, A) /\ Teamed(t, A)
    <2>1. t \in Ticket
      BY DEF Own
    <2>2. PICK m \in Range(tickets.team[t]) : s = <<t, m.role>>
      BY <1>2 DEF Parts, Parted, TeamParts, Roles
    <2>3. PICK i \in 1..Len(tickets.team[t]) : m = tickets.team[t][i]
      BY <2>1, InputTypes, InSeq
    <2>4. i # 1
      BY <1>2, <2>2, <2>3 DEF Firsts
    <2>5. i \in 2..Len(tickets.team[t])
      <3>1. Len(tickets.team[t]) \in Nat
        BY <2>1, InputTypes, InSeq
      <3> QED BY <2>4, <3>1
    <2>6. plan[s] = {<<t, tickets.team[t][i - 1].role>>}
      BY <1>2, <2>2, <2>3, <2>5 DEF PlanShape
    <2> QED BY <1>2, <2>2, <2>3, <2>5, <2>6
  <1>3. CASE s \notin Firsts(t, A) /\ ~Teamed(t, A)
    <2>1. Splits /\ Parted(t, A)
      BY <1>3 DEF Firsts, Parts, TeamParts
    <2>2. PICK u \in DOMAIN tickets.subtasks[t] : s = <<t, u>>
      BY <2>1 DEF Parts
    <2>3. tickets.subtasks[t][u] # {}
      BY <1>3, <2>1, <2>2 DEF Firsts
    <2>4. plan[s] = {t} \X tickets.subtasks[t][u]
      BY <2>1, <2>2, <2>3 DEF PlanShape
    <2> QED BY <2>1, <2>2, <2>4
  <1> QED BY <1>1, <1>2, <1>3

(* Tickets do not share steps.                                             *)
LEMMA PartsDiffer ==
  ASSUME tickets \in Inputs, WellFormed, NEW A \in SUBSET Ticket,
         NEW t \in Own(A), NEW x \in Own(A), NEW s, s \in Parts(t, A), s \in Parts(x, A)
  PROVE  t = x
  <1>1. /\ t \in Ticket /\ t \notin ParentsIn(A)
        /\ x \in Ticket /\ x \notin ParentsIn(A)
    BY DEF Own
  <1>2. \A y \in {t, x} : \/ s = <<y>>
                          \/ Len(s) = 2 /\ s[2] = y /\ s[1] \in ParentsIn(A)
                          \/ Len(s) = 2 /\ s[1] = y /\ s[2] \in Role \cup Subtask
    BY PartShape
  <1> QED BY <1>1, <1>2 DEF WellFormed, NamesDiffer

(* The steps of a plan have an order in which each of them waits only for  *)
(* steps before it.                                                        *)
Ranked(plan, N, R) ==
  /\ N \in Nat /\ R \in [DOMAIN plan -> 0..N]
  /\ \A s \in DOMAIN plan : \A b \in plan[s] : b \in DOMAIN plan /\ R[b] < R[s]

LEMMA PlanRanked ==
  ASSUME tickets \in Inputs, WellFormed, NoCycles, NEW A \in SUBSET Ticket,
         NEW plan, PlanShape(plan, A)
  PROVE  \E N, R : Ranked(plan, N, R)
  <1>1. PICK n \in Nat :
          /\ \E rank \in [Ticket -> 0..n] :
               \A t \in Ticket : \A d \in tickets.deps[t] : rank[d] < rank[t]
          /\ \A t \in Ticket : Len(tickets.team[t]) <= n
          /\ \A t \in Ticket : \E rank \in [DOMAIN tickets.subtasks[t] -> 0..n] :
               \A u \in DOMAIN tickets.subtasks[t] :
                 \A v \in tickets.subtasks[t][u] : rank[v] < rank[u]
    BY DEF NoCycles
  <1>2. PICK rank \in [Ticket -> 0..n] :
          \A t \in Ticket : \A d \in tickets.deps[t] : rank[d] < rank[t]
    BY <1>1
  <1> DEFINE sub(t) == CHOOSE f \in [DOMAIN tickets.subtasks[t] -> 0..n] :
               \A u \in DOMAIN tickets.subtasks[t] :
                 \A v \in tickets.subtasks[t][u] : f[v] < f[u]
  <1>3. \A t \in Ticket :
          /\ sub(t) \in [DOMAIN tickets.subtasks[t] -> 0..n]
          /\ \A u \in DOMAIN tickets.subtasks[t] :
               \A v \in tickets.subtasks[t][u] : sub(t)[v] < sub(t)[u]
    BY <1>1
  <1> HIDE DEF sub
  <1>4. PICK N \in Nat : \E place \in [(0..n) \X (0..n) -> 0..N] :
           \A a, b, i, j \in 0..n :
             a < b \/ (a = b /\ i < j) => place[<<a, i>>] < place[<<b, j>>]
    BY <1>1, Lexicographic
  <1>5. PICK place \in [(0..n) \X (0..n) -> 0..N] :
           \A a, b, i, j \in 0..n :
             a < b \/ (a = b /\ i < j) => place[<<a, i>>] < place[<<b, j>>]
    BY <1>4
  <1> DEFINE Of(s) == CHOOSE t \in Own(A) : s \in Parts(t, A)
             Nth(t, s) == CHOOSE i \in 1..Len(tickets.team[t]) : s = <<t, tickets.team[t][i].role>>
             Idx(t, s) == IF Teamed(t, A) THEN Nth(t, s)
                          ELSE IF Splits /\ Parted(t, A) THEN sub(t)[s[2]] ELSE 0
  <1>6. ASSUME NEW t \in Own(A), NEW s \in Parts(t, A) PROVE Of(s) = t
    BY PartsDiffer
  <1> HIDE DEF Of
  <1>7. ASSUME NEW t \in Own(A), Teamed(t, A), NEW i \in 1..Len(tickets.team[t])
        PROVE  Nth(t, <<t, tickets.team[t][i].role>>) = i
    <2>1. t \in Ticket /\ Len(tickets.team[t]) > 1
      BY <1>7 DEF Own, Teamed
    <2>2. \A j \in 1..Len(tickets.team[t]) :
            tickets.team[t][i].role = tickets.team[t][j].role => i = j
      BY <1>7, <2>1 DEF WellFormed, TeamsAreChains
    <2>3. \A j \in 1..Len(tickets.team[t]) :
            <<t, tickets.team[t][i].role>> = <<t, tickets.team[t][j].role>> => i = j
      BY <2>2
    <2> QED BY <1>7, <2>3
  <1> HIDE DEF Nth
  <1>8. ASSUME NEW t \in Own(A), NEW s \in Parts(t, A) PROVE Idx(t, s) \in 0..n
    <2>0. t \in Ticket
      BY DEF Own
    <2>1. CASE Teamed(t, A)
      <3>1. PICK m \in Range(tickets.team[t]) : s = <<t, m.role>>
        BY <1>8, <2>1 DEF Parts, Parted, TeamParts, Roles
      <3>2. PICK i \in 1..Len(tickets.team[t]) : m = tickets.team[t][i]
        BY <2>0, <3>1, Members
      <3>3. Idx(t, s) = i
        BY <1>7, <2>1, <3>1, <3>2
      <3>4. Len(tickets.team[t]) \in Nat /\ Len(tickets.team[t]) <= n
        BY <1>1, <2>0, InputTypes, InSeq
      <3> QED BY <3>2, <3>3, <3>4
    <2>2. CASE ~Teamed(t, A) /\ Splits /\ Parted(t, A)
      <3>1. PICK u \in DOMAIN tickets.subtasks[t] : s = <<t, u>>
        BY <1>8, <2>2 DEF Parts
      <3>2. s[2] = u
        BY <3>1
      <3>3. sub(t)[u] \in 0..n
        BY <1>3, <2>0, <3>1
      <3> QED BY <2>2, <3>2, <3>3
    <2>3. CASE ~Teamed(t, A) /\ ~(Splits /\ Parted(t, A))
      BY <1>1, <2>3
    <2> QED BY <2>1, <2>2, <2>3
  <1> DEFINE R == [s \in DOMAIN plan |-> place[<<rank[Of(s)], Idx(Of(s), s)>>]]
  <1>9. ASSUME NEW s \in DOMAIN plan
        PROVE  \E t \in Own(A) : /\ s \in Parts(t, A) /\ Of(s) = t /\ t \in Ticket
                                 /\ R[s] = place[<<rank[t], Idx(t, s)>>]
    <2>1. PICK t \in Own(A) : s \in Parts(t, A)
      BY <1>9 DEF PlanShape
    <2>2. Of(s) = t /\ t \in Ticket
      BY <1>6, <2>1 DEF Own
    <2> QED BY <2>1, <2>2
  <1>10. R \in [DOMAIN plan -> 0..N]
    <2> SUFFICES ASSUME NEW s \in DOMAIN plan PROVE R[s] \in 0..N
      OBVIOUS
    <2>1. PICK t \in Own(A) : /\ s \in Parts(t, A) /\ Of(s) = t /\ t \in Ticket
                              /\ R[s] = place[<<rank[t], Idx(t, s)>>]
      BY <1>9
    <2>2. rank[t] \in 0..n /\ Idx(t, s) \in 0..n
      BY <1>2, <1>8, <2>1
    <2> HIDE DEF R, Idx
    <2> QED BY <1>5, <2>1, <2>2
  <1>11. ASSUME NEW t \in Own(A), NEW x \in Own(A), NEW s \in Parts(t, A), NEW b \in Parts(x, A),
                rank[x] < rank[t] \/ (x = t /\ Idx(t, b) < Idx(t, s))
         PROVE  b \in DOMAIN plan /\ R[b] < R[s]
    <2>1. s \in DOMAIN plan /\ b \in DOMAIN plan /\ t \in Ticket /\ x \in Ticket
      BY <1>11 DEF PlanShape, Own
    <2>2. Of(s) = t /\ Of(b) = x
      BY <1>6, <1>11
    <2>3. R[s] = place[<<rank[t], Idx(t, s)>>] /\ R[b] = place[<<rank[x], Idx(x, b)>>]
      BY <2>1, <2>2
    <2>4. /\ rank[t] \in 0..n /\ rank[x] \in 0..n
          /\ Idx(t, s) \in 0..n /\ Idx(x, b) \in 0..n
      BY <1>2, <1>8, <1>11, <2>1
    <2> HIDE DEF R, Idx
    <2> QED BY <1>5, <1>11, <2>1, <2>3, <2>4
  <1>12. ASSUME NEW s \in DOMAIN plan, NEW b \in plan[s]
         PROVE  b \in DOMAIN plan /\ R[b] < R[s]
    <2>1. PICK t \in Own(A) : s \in Parts(t, A) /\ t \in Ticket
      BY <1>9, <1>12
    <2>2. CASE \E d \in WaitsFor(t, A) : b \in Parts(d, A)
      <3>1. PICK d \in WaitsFor(t, A) : b \in Parts(d, A)
        BY <2>2
      <3>2. d \in Own(A) /\ rank[d] < rank[t]
        BY <1>2, <2>1, <3>1 DEF WaitsFor
      <3> HIDE DEF R
      <3> QED BY <1>11, <2>1, <3>1, <3>2
    <2>3. CASE /\ Teamed(t, A)
               /\ \E i \in 2..Len(tickets.team[t]) :
                    s = <<t, tickets.team[t][i].role>> /\ b = <<t, tickets.team[t][i - 1].role>>
      <3>1. PICK i \in 2..Len(tickets.team[t]) :
                    s = <<t, tickets.team[t][i].role>> /\ b = <<t, tickets.team[t][i - 1].role>>
        BY <2>3
      <3>2. /\ Len(tickets.team[t]) \in Nat
            /\ \A j \in 1..Len(tickets.team[t]) : tickets.team[t][j] \in Range(tickets.team[t])
        BY <2>1, InputTypes, InSeq
      <3>3. i \in 1..Len(tickets.team[t]) /\ i - 1 \in 1..Len(tickets.team[t]) /\ i - 1 < i
        BY <3>2
      <3>4. b \in Parts(t, A)
        BY <2>3, <3>1, <3>2, <3>3 DEF Parts, Parted, TeamParts, Roles
      <3>5. Idx(t, s) = i /\ Idx(t, b) = i - 1
        BY <1>7, <2>1, <2>3, <3>1, <3>3
      <3> HIDE DEF R, Idx
      <3> QED BY <1>11, <2>1, <3>3, <3>4, <3>5
    <2>4. CASE /\ Splits /\ Parted(t, A)
               /\ \E u \in DOMAIN tickets.subtasks[t] : \E v \in tickets.subtasks[t][u] :
                    s = <<t, u>> /\ b = <<t, v>>
      <3>1. PICK u \in DOMAIN tickets.subtasks[t] : \E v \in tickets.subtasks[t][u] :
                    s = <<t, u>> /\ b = <<t, v>>
        BY <2>4
      <3>2. PICK v \in tickets.subtasks[t][u] : s = <<t, u>> /\ b = <<t, v>>
        BY <3>1
      <3>3. s[2] = u /\ b[2] = v /\ ~Teamed(t, A)
        BY <2>4, <3>2 DEF Parted
      <3>4. v \in DOMAIN tickets.subtasks[t]
        BY <2>1, <3>1, <3>2 DEF WellFormed, SubtasksAreOrdered
      <3>5. b \in Parts(t, A)
        BY <2>4, <3>2, <3>4 DEF Parts
      <3>6. Idx(t, b) < Idx(t, s)
        BY <1>3, <2>1, <2>4, <3>1, <3>2, <3>3
      <3> HIDE DEF R, Idx
      <3> QED BY <1>11, <2>1, <3>5, <3>6
    <2> HIDE DEF R
    <2> QED BY <1>12, <2>1, <2>2, <2>3, <2>4, Blockers
  <1> HIDE DEF R
  <1> QED BY <1>4, <1>10, <1>12 DEF Ranked

LEMMA MaxOf ==
  ASSUME NEW n \in Nat, NEW T, T \subseteq 0..n, T # {}
  PROVE  Max(T) \in T /\ \A i \in T : i <= Max(T)
  <1>1. PICK m \in T : \A i \in T : i <= m
    BY Largest
  <1>2. \A i \in T : i <= m <=> m >= i
    OBVIOUS
  <1>3. Max(T) \in T /\ \A i \in T : Max(T) >= i
    BY <1>1, <1>2 DEF Max
  <1> QED BY <1>3

(* computeDepthStages(): the recursion over what the steps wait for ends.  *)
Deep(plan, f, s) ==
  f[s] = IF plan[s] \cap DOMAIN plan = {} THEN 1
         ELSE 1 + Max({f[b] : b \in plan[s] \cap DOMAIN plan})

LEMMA DepthExists ==
  ASSUME NEW plan, NEW N, NEW R, Ranked(plan, N, R)
  PROVE  \E f \in [DOMAIN plan -> 1..(N + 2)] : \A s \in DOMAIN plan : Deep(plan, f, s)
  <1> DEFINE D == DOMAIN plan
             Up(n, f) == f \in [D -> 1..(n + 1)] /\ \A s \in D : R[s] < n => Deep(plan, f, s)
             T == {n \in Nat : ~\E f : Up(n, f)}
  <1>1. N \in Nat /\ R \in [D -> 0..N]
        /\ \A s \in D : \A b \in plan[s] : b \in D /\ R[b] < R[s]
    BY DEF Ranked
  <1>2. T = {}
    <2> SUFFICES ASSUME T # {} PROVE FALSE
      OBVIOUS
    <2>1. PICK m \in T : \A i \in T : m <= i
      <3>1. T \subseteq Nat
        OBVIOUS
      <3> HIDE DEF T
      <3> QED BY <3>1, Smallest
    <2>2. m \in Nat /\ ~\E f : Up(m, f)
      BY <2>1
    <2>3. m # 0
      <3> SUFFICES ASSUME m = 0 PROVE FALSE
        OBVIOUS
      <3>1. PICK f : f = [s \in D |-> 1]
        OBVIOUS
      <3>2. Up(0, f)
        BY <1>1, <3>1
      <3> QED BY <2>2, <3>2
    <2>4. PICK n \in Nat : m = n + 1
      <3>1. m - 1 \in Nat /\ m = (m - 1) + 1
        BY <2>2, <2>3
      <3> QED BY <3>1
    <2>5. PICK f : Up(n, f)
      <3>1. n \notin T
        BY <2>1, <2>4
      <3> QED BY <3>1
    <2>6. PICK g : g = [s \in D |-> IF R[s] < n THEN f[s]
                                    ELSE IF R[s] = n /\ plan[s] # {}
                                         THEN 1 + Max({f[b] : b \in plan[s]}) ELSE 1]
      OBVIOUS
    <2>7. ASSUME NEW s \in D, plan[s] # {}
          PROVE  /\ Max({f[b] : b \in plan[s]}) \in 1..(n + 1)
                 /\ plan[s] \cap D = plan[s]
      <3> DEFINE F == {f[b] : b \in plan[s]}
      <3>1. \A b \in plan[s] : f[b] \in 1..(n + 1)
        BY <1>1, <2>5
      <3>2. F \subseteq 0..(n + 1) /\ F # {} /\ n + 1 \in Nat /\ \A i \in F : i \in 1..(n + 1)
        BY <2>7, <3>1
      <3> HIDE DEF F
      <3>3. Max(F) \in 1..(n + 1)
        BY <3>2, MaxOf
      <3> QED BY <1>1, <3>3 DEF F
    <2>8. ASSUME NEW s \in D PROVE g[s] \in 1..(m + 1)
      <3>1. f[s] \in 1..(n + 1)
        BY <2>5
      <3>2. plan[s] # {} => 1 + Max({f[b] : b \in plan[s]}) \in 1..(m + 1)
        BY <2>4, <2>7
      <3> QED BY <2>4, <2>6, <3>1, <3>2
    <2>9. ASSUME NEW s \in D, R[s] < m PROVE Deep(plan, g, s)
      <3>1. \A b \in plan[s] : b \in D /\ R[b] < n
        <4>1. R[s] \in Nat /\ R[s] <= n
          BY <1>1, <2>4, <2>9
        <4>2. \A b \in plan[s] : b \in D /\ R[b] < R[s] /\ R[b] \in Nat
          BY <1>1
        <4> QED BY <4>1, <4>2
      <3>2. \A b \in plan[s] : g[b] = f[b]
        BY <2>6, <3>1
      <3>3. {g[b] : b \in plan[s]} = {f[b] : b \in plan[s]}
        BY <3>2
      <3>4. plan[s] \cap D = plan[s]
        BY <3>1
      <3>5. R[s] < n => g[s] = f[s] /\ Deep(plan, f, s)
        BY <2>5, <2>6
      <3>6. ~(R[s] < n) => R[s] = n
        BY <1>1, <2>4, <2>9
      <3>7. g[s] = IF plan[s] = {} THEN 1 ELSE 1 + Max({f[b] : b \in plan[s]})
        BY <2>6, <3>4, <3>5, <3>6 DEF Deep
      <3> QED BY <3>3, <3>4, <3>7 DEF Deep
    <2>10. g \in [D -> 1..(m + 1)]
      BY <2>6, <2>8
    <2>11. Up(m, g)
      BY <2>9, <2>10
    <2> QED BY <2>2, <2>11
  <1>3. PICK f : Up(N + 1, f)
    <2>1. N + 1 \in Nat /\ N + 1 \notin T
      BY <1>1, <1>2
    <2> QED BY <2>1
  <1>4. f \in [D -> 1..(N + 2)] /\ \A s \in D : Deep(plan, f, s)
    <2>1. \A s \in D : R[s] < N + 1
      BY <1>1
    <2> QED BY <1>1, <1>3, <2>1
  <1> QED BY <1>4

LEMMA DepthUnique ==
  ASSUME NEW plan, NEW N, NEW R, Ranked(plan, N, R), NEW f, NEW g,
         \A s \in DOMAIN plan : Deep(plan, f, s) /\ Deep(plan, g, s)
  PROVE  \A s \in DOMAIN plan : f[s] = g[s]
  <1> DEFINE D == {s \in DOMAIN plan : f[s] # g[s]}
             T == {R[s] : s \in D}
  <1>1. /\ N \in Nat /\ R \in [DOMAIN plan -> 0..N]
        /\ \A s \in DOMAIN plan : \A b \in plan[s] : b \in DOMAIN plan /\ R[b] < R[s]
    BY DEF Ranked
  <1> SUFFICES ASSUME D # {} PROVE FALSE
    OBVIOUS
  <1>2. T # {} /\ T \subseteq Nat
    BY <1>1
  <1>3. PICK m \in T : \A i \in T : m <= i
    <2> HIDE DEF T
    <2> QED BY <1>2, Smallest
  <1>4. PICK s \in D : m = R[s]
    BY <1>3
  <1>5. \A b \in plan[s] : f[b] = g[b]
    <2> SUFFICES ASSUME NEW b \in plan[s], f[b] # g[b] PROVE FALSE
      OBVIOUS
    <2>1. b \in D /\ R[b] < R[s] /\ R[b] \in Nat /\ R[s] \in Nat
      BY <1>1, <1>4
    <2>2. R[b] \in T
      BY <2>1
    <2> QED BY <1>3, <1>4, <2>1, <2>2
  <1>6. {f[b] : b \in plan[s] \cap DOMAIN plan} = {g[b] : b \in plan[s] \cap DOMAIN plan}
    BY <1>5
  <1>7. f[s] = g[s]
    BY <1>4, <1>6 DEF Deep
  <1> QED BY <1>4, <1>7

LEMMA Depths ==
  ASSUME NEW N, NEW R, Ranked(blockedBy, N, R)
  PROVE  /\ DepthStages \in [Steps -> 1..(N + 2)]
         /\ \A s \in Steps : \A b \in blockedBy[s] : DepthStages[b] < DepthStages[s]
  <1>1. PICK f \in [Steps -> 1..(N + 2)] : \A s \in Steps : Deep(blockedBy, f, s)
    BY DepthExists DEF Steps
  <1>2. f = [s \in Steps |-> IF blockedBy[s] \cap Steps = {} THEN 1
                             ELSE 1 + Max({f[b] : b \in blockedBy[s] \cap Steps})]
    BY <1>1 DEF Deep, Steps
  <1>3. PICK g : g = DepthStages
    OBVIOUS
  <1>4. g = [s \in Steps |-> IF blockedBy[s] \cap Steps = {} THEN 1
                             ELSE 1 + Max({g[b] : b \in blockedBy[s] \cap Steps})]
    <2>1. \E d : d = [s \in Steps |-> IF blockedBy[s] \cap Steps = {} THEN 1
                                  ELSE 1 + Max({d[b] : b \in blockedBy[s] \cap Steps})]
      BY <1>2
    <2>2. DepthStages
            = [s \in Steps |-> IF blockedBy[s] \cap Steps = {} THEN 1
                              ELSE 1 + Max({DepthStages[b] : b \in blockedBy[s] \cap Steps})]
      BY <2>1, Zenon DEF DepthStages
    <2> QED BY <1>3, <2>2
  <1>5. \A s \in Steps : Deep(blockedBy, g, s)
    BY <1>4 DEF Deep, Steps
  <1>6. \A s \in Steps : f[s] = g[s]
    BY <1>1, <1>5, DepthUnique DEF Steps
  <1>7. g = f
    <2>1. g = [s \in Steps |-> g[s]] /\ f = [s \in Steps |-> f[s]]
      BY <1>1, <1>4
    <2> QED BY <1>6, <2>1
  <1>8. ASSUME NEW s \in Steps, NEW b \in blockedBy[s] PROVE f[b] < f[s]
    <2> DEFINE F == {f[x] : x \in blockedBy[s] \cap Steps}
    <2>1. N \in Nat /\ b \in Steps
      BY DEF Ranked, Steps
    <2>2. \A i \in F : i \in 1..(N + 2)
      BY <1>1
    <2>3. F \subseteq 0..(N + 2) /\ F # {} /\ f[b] \in F /\ N + 2 \in Nat
      BY <1>8, <2>1, <2>2
    <2>4. f[s] = 1 + Max(F)
      BY <1>1, <1>8, <2>1 DEF Deep, Steps
    <2> HIDE DEF F
    <2>5. Max(F) \in F /\ f[b] <= Max(F)
      BY <2>3, MaxOf
    <2>6. Max(F) \in 1..(N + 2) /\ f[b] \in 1..(N + 2)
      BY <2>2, <2>3, <2>5
    <2> QED BY <2>1, <2>4, <2>5, <2>6
  <1> QED BY <1>1, <1>3, <1>7, <1>8

(* The steps of a plan are steps, and so is what they wait for.            *)
LEMMA StepsOfPlan ==
  ASSUME WellFormed, tickets \in Inputs, NEW A \in SUBSET Ticket, PlanIsFor(A), NoCycles
  PROVE  /\ \E N, R : Ranked(blockedBy, N, R)
         /\ Steps \subseteq StepId
         /\ \A s \in Steps : blockedBy[s] \subseteq Steps
  <1>1. PlanShape(blockedBy, A)
    BY DEF PlanIsFor
  <1>2. PICK N, R : Ranked(blockedBy, N, R)
    BY <1>1, PlanRanked
  <1>3. \A s \in Steps : blockedBy[s] \subseteq Steps
    BY <1>2 DEF Ranked, Steps
  <1>4. ASSUME NEW s \in Steps PROVE s \in StepId
    <2>1. PICK t \in Own(A) : s \in Parts(t, A)
      BY <1>1 DEF PlanShape, Steps
    <2>2. t \in Ticket
      BY DEF Own
    <2>3. \/ s = <<t>>
          \/ s = IdOf(t, A)
          \/ Teamed(t, A)
          \/ Splits /\ Parted(t, A)
      BY <2>1, PartShape
    <2>4. CASE Teamed(t, A)
      <3>1. PICK m \in Range(tickets.team[t]) : s = <<t, m.role>>
        BY <2>1, <2>4 DEF Parts, Parted, TeamParts, Roles
      <3>2. m.role \in Role
        BY <2>2, <3>1, Members
      <3> QED BY <2>2, <3>1, <3>2 DEF StepId
    <2>5. CASE ~Teamed(t, A) /\ Splits /\ Parted(t, A)
      <3>1. PICK u \in DOMAIN tickets.subtasks[t] : s = <<t, u>>
        BY <2>1, <2>5 DEF Parts
      <3>2. u \in Subtask
        BY <2>2, <3>1, InputTypes
      <3> QED BY <2>2, <3>1, <3>2 DEF StepId
    <2>6. CASE s = <<t>> \/ s = IdOf(t, A)
      <3>1. t \in A
        BY DEF Own
      <3>2. \/ s = <<t>>
            \/ s = <<tickets.parent[t], t>> /\ tickets.parent[t] \in Ticket
        BY <2>6, <3>1, IdFacts
      <3> QED BY <2>2, <3>2 DEF StepId
    <2> QED BY <2>3, <2>4, <2>5, <2>6
  <1> QED BY <1>2, <1>3, <1>4

Statuses == {"blocked", "ready", "done", "failed", "skipped"}

(* A stage is left when its steps have ended, and stages do not go against *)
(* the dependencies unless a user leaves steps out of them.                *)
StagesInv ==
  /\ closed \subseteq Ticket
  /\ status \in [Steps -> Statuses]
  /\ \E K \in Nat : stageOf \in [Steps -> 1..K]
  /\ stage \in Nat
  /\ phase \in {"tickets", "planned", "executing", "rejected"}
  /\ phase = "executing" => Steps # {}
  /\ phase = "executing" /\ stage # 0 =>
       /\ stage <= Max(Range(stageOf))
       /\ \A s \in Steps : stageOf[s] < stage => Ended(s)
  /\ ListsAll \/ ~tickets.explicit => NotStagedBeforeDeps

LEMMA StageRange ==
  ASSUME NEW f, NEW K \in Nat, NEW D, f \in [D -> 1..K], D # {}
  PROVE  Max(Range(f)) \in 1..K /\ \A s \in D : f[s] <= Max(Range(f))
  <1>1. /\ Range(f) \subseteq 0..K /\ Range(f) # {} /\ Range(f) \subseteq 1..K
        /\ \A s \in D : f[s] \in Range(f)
    BY DEF Range
  <1> QED BY <1>1, MaxOf

LEMMA RecomputeStages ==
  ASSUME StagesInv, Steps \subseteq StepId, NEW cl \in SUBSET Ticket, NEW st \in [Steps -> Statuses],
         \A s \in Steps : Ended(s) => st[s] \in {"done", "failed", "skipped"},
         Recompute(cl, st), UNCHANGED <<tickets, blockedBy, stageOf, stage, phase>>
  PROVE  StagesInv'
  <1>1. /\ Steps' = Steps
        /\ status' = [s \in Steps |->
             IF st[s] \notin {"blocked", "ready"} THEN st[s]
             ELSE IF Len(s) = 1 /\ s[1] \in cl THEN "skipped"
             ELSE IF \A b \in blockedBy[s] : Resolved(b, cl, st) THEN "ready"
             ELSE "blocked"]
    BY DEF Recompute, Recomputed, Steps
  <1>2. status' \in [Steps -> Statuses]
    BY <1>1 DEF Statuses
  <1>3. closed' \subseteq Ticket
    BY DEF Recompute, SplitAndOver
  <1>4. \A s \in Steps : Ended(s) => Ended(s)'
    BY <1>1 DEF Ended
  <1>5. NotStagedBeforeDeps' <=> NotStagedBeforeDeps
    BY <1>1 DEF NotStagedBeforeDeps
  <1> QED BY <1>1, <1>2, <1>3, <1>4, <1>5 DEF StagesInv

LEMMA StagesInitialized ==
  ASSUME WellFormed, NoCycles, PInv, StagesInv, InitializeStages
  PROVE  /\ \E K \in Nat : stageOf' \in [Steps -> 1..K]
         /\ ListsAll \/ ~tickets.explicit =>
              \A s \in Steps : \A b \in blockedBy[s] \cap Steps : stageOf'[b] <= stageOf'[s]
  <1>1. PICK A \in SUBSET Ticket : PlanIsFor(A)
    BY DEF PInv, InitializeStages
  <1>2. PICK N, R : Ranked(blockedBy, N, R)
    BY <1>1, StepsOfPlan DEF PInv
  <1>3. N \in Nat /\ MaxStages \in Nat /\ ListsAll \in BOOLEAN
    BY <1>2, PlannerAssumption DEF Ranked
  <1>4. CASE stageOf' = stageOf
    BY <1>4 DEF StagesInv, NotStagedBeforeDeps
  <1>5. CASE ~tickets.explicit
    <2>1. CASE tickets.strategy = "swarm"
      <3>1. /\ stageOf' \in [Steps -> 1..(N + 2)]
            /\ \A s \in Steps : \A b \in blockedBy[s] : stageOf'[b] < stageOf'[s]
        BY <1>2, <1>5, <2>1, Depths DEF InitializeStages
      <3>2. \A s \in Steps : \A b \in blockedBy[s] \cap Steps : stageOf'[b] <= stageOf'[s]
        <4>1. \A s \in Steps : stageOf'[s] \in Int
          BY <1>3, <3>1
        <4> QED BY <3>1, <4>1
      <3> QED BY <1>3, <3>1, <3>2
    <2>2. CASE tickets.strategy # "swarm"
      <3>1. stageOf' = [s \in Steps |-> 1]
        BY <1>5, <2>2 DEF InitializeStages, OneStage
      <3> QED BY <3>1
    <2> QED BY <2>1, <2>2
  <1>6. CASE tickets.explicit /\ stageOf' # stageOf
    <2>1. PICK def \in [Steps -> (IF ListsAll THEN 1 ELSE 0)..MaxStages] :
            ValidStages(def) /\ stageOf' = ExplicitStages(def)
      BY <1>6 DEF InitializeStages
    <2>2. def \in [Steps -> 0..MaxStages] /\ Steps # {}
      BY <1>3, <2>1 DEF InitializeStages
    <2>3. Max(Range(def)) \in 0..MaxStages
      <3>1. Range(def) \subseteq 0..MaxStages /\ Range(def) # {}
        BY <2>2 DEF Range
      <3> QED BY <1>3, <3>1, MaxOf
    <2>4. stageOf' = [s \in Steps |-> IF def[s] = 0 THEN Max(Range(def)) + 1 ELSE def[s]]
      BY <2>1 DEF ExplicitStages
    <2>5. stageOf' \in [Steps -> 1..(MaxStages + 1)]
      <3>1. \A s \in Steps : def[s] \in 0..MaxStages
        BY <2>2
      <3>2. \A s \in Steps : (IF def[s] = 0 THEN Max(Range(def)) + 1 ELSE def[s]) \in 1..(MaxStages + 1)
        BY <1>3, <2>3, <3>1
      <3> QED BY <2>4, <3>2
    <2>6. ListsAll => \A s \in Steps : \A b \in blockedBy[s] \cap Steps : stageOf'[b] <= stageOf'[s]
      <3> SUFFICES ASSUME ListsAll, NEW s \in Steps, NEW b \in blockedBy[s] \cap Steps
                   PROVE  stageOf'[b] <= stageOf'[s]
        OBVIOUS
      <3>1. def[s] \in 1..MaxStages /\ def[b] \in 1..MaxStages
        BY <2>1
      <3>2. stageOf'[s] = def[s] /\ stageOf'[b] = def[b]
        BY <2>4, <3>1
      <3>3. def[b] < def[s]
        BY <2>1, <3>1 DEF ValidStages
      <3> QED BY <3>1, <3>2, <3>3
    <2> QED BY <1>3, <1>6, <2>5, <2>6
  <1> QED BY <1>4, <1>5, <1>6

LEMMA InitializeKeeps ==
  ASSUME WellFormed, NoCycles, PInv, StagesInv, InitializeStages
  PROVE  StagesInv'
  <1>1. /\ Steps' = Steps /\ Steps # {} /\ stage' = IF Max(Range(stageOf')) > 1 THEN 1 ELSE 0
        /\ UNCHANGED <<tickets, closed, blockedBy, status>>
        /\ phase' \in {"executing", "rejected"}
    BY DEF InitializeStages, Steps
  <1>2. /\ \E K \in Nat : stageOf' \in [Steps -> 1..K]
        /\ ListsAll \/ ~tickets.explicit =>
             \A s \in Steps : \A b \in blockedBy[s] \cap Steps : stageOf'[b] <= stageOf'[s]
    BY StagesInitialized
  <1>3. PICK K \in Nat : stageOf' \in [Steps -> 1..K]
    BY <1>2
  <1>4. Max(Range(stageOf')) \in 1..K
    <2>1. PICK f : f = stageOf'
      OBVIOUS
    <2> QED BY <1>1, <1>3, <2>1, StageRange
  <1>5. stage' # 0 => /\ stage' <= Max(Range(stageOf'))
                      /\ \A s \in Steps : ~(stageOf'[s] < stage')
    <2>1. \A s \in Steps : stageOf'[s] \in 1..K
      BY <1>3
    <2> QED BY <1>1, <1>4, <2>1
  <1>6. ListsAll \/ ~tickets.explicit => NotStagedBeforeDeps'
    BY <1>1, <1>2 DEF NotStagedBeforeDeps
  <1>7. stage' \in Nat
    BY <1>1
  <1>8. status' \in [Steps' -> Statuses] /\ closed' \subseteq Ticket
    BY <1>1 DEF StagesInv
  <1>9. Max(Range(stageOf))' = Max(Range(stageOf'))
    OBVIOUS
  <1> QED BY <1>1, <1>3, <1>5, <1>6, <1>7, <1>8, <1>9 DEF StagesInv

LEMMA ComputeStages ==
  ASSUME StagesInv, ComputePlan
  PROVE  StagesInv'
  <1>1. /\ status' = [s \in Steps' |-> IF blockedBy'[s] = {} THEN "ready" ELSE "blocked"]
        /\ stageOf' = [s \in Steps' |-> 1]
        /\ phase' = "planned" /\ UNCHANGED <<tickets, closed, stage>>
    BY DEF ComputePlan, Steps
  <1>2. status' \in [Steps' -> Statuses]
    BY <1>1 DEF Statuses
  <1>3. stageOf' \in [Steps' -> 1..1] /\ 1 \in Nat
    BY <1>1
  <1>4. NotStagedBeforeDeps'
    BY <1>1 DEF NotStagedBeforeDeps
  <1> QED BY <1>1, <1>2, <1>3, <1>4 DEF StagesInv

LEMMA NextStageKeeps ==
  ASSUME StagesInv, NextStage
  PROVE  StagesInv'
  <1>1. /\ stage' = stage + 1 /\ stage < Max(Range(stageOf))
        /\ \A s \in Steps : stageOf[s] = stage => Ended(s)
        /\ UNCHANGED <<tickets, closed, blockedBy, status, stageOf, phase>>
        /\ phase = "executing" /\ stage # 0
    BY DEF NextStage, StageIsOver
  <1>2. PICK K \in Nat : stageOf \in [Steps -> 1..K]
    BY DEF StagesInv
  <1>3. Steps' = Steps /\ stage \in Nat
    BY <1>1 DEF Steps, StagesInv
  <1>4. Steps # {} => Max(Range(stageOf)) \in 1..K
    BY <1>2, StageRange
  <1>5. ASSUME NEW s \in Steps, stageOf[s] < stage + 1 PROVE Ended(s)
    <2>1. stageOf[s] \in 1..K
      BY <1>2
    <2>2. stageOf[s] = stage \/ stageOf[s] < stage
      BY <1>3, <1>5, <2>1
    <2> QED BY <1>1, <2>2 DEF StagesInv
  <1>6. Steps # {} /\ stage + 1 <= Max(Range(stageOf))
    <2>1. Steps # {}
      BY <1>1 DEF StagesInv
    <2> QED BY <1>1, <1>3, <1>4, <2>1
  <1>7. NotStagedBeforeDeps' <=> NotStagedBeforeDeps
    BY <1>1, <1>3 DEF NotStagedBeforeDeps
  <1>8. \A s \in Steps : Ended(s)' <=> Ended(s)
    BY <1>1 DEF Ended
  <1>9. stage' # 0 => /\ stage' <= Max(Range(stageOf'))
                      /\ \A s \in Steps' : stageOf'[s] < stage' => Ended(s)'
    BY <1>1, <1>3, <1>5, <1>6, <1>8
  <1>10. /\ (closed \subseteq Ticket)' /\ (status \in [Steps -> Statuses])'
         /\ (\E J \in Nat : stageOf \in [Steps -> 1..J])'
         /\ (stage \in Nat)' /\ phase' = "executing"
    BY <1>1, <1>2, <1>3 DEF StagesInv
  <1>11. ListsAll \/ ~tickets'.explicit => NotStagedBeforeDeps'
    BY <1>1, <1>7 DEF StagesInv
  <1> QED BY <1>3, <1>6, <1>9, <1>10, <1>11 DEF StagesInv

LEMMA StagesStay ==
  ASSUME StagesInv, UNCHANGED <<tickets, blockedBy, status, stageOf, stage, phase>>,
         closed' \subseteq Ticket
  PROVE  StagesInv'
  <1>1. Steps' = Steps /\ (NotStagedBeforeDeps' <=> NotStagedBeforeDeps)
    BY DEF Steps, NotStagedBeforeDeps
  <1>2. \A s \in Steps : Ended(s)' <=> Ended(s)
    BY DEF Ended
  <1>3. /\ (closed \subseteq Ticket)' /\ (status \in [Steps -> Statuses])'
        /\ (\E K \in Nat : stageOf \in [Steps -> 1..K])'
        /\ (stage \in Nat)' /\ (phase \in {"tickets", "planned", "executing", "rejected"})'
        /\ (phase = "executing" => Steps # {})'
    BY <1>1 DEF StagesInv
  <1>4. phase' = "executing" /\ stage' # 0 =>
          stage' <= Max(Range(stageOf')) /\ \A s \in Steps' : stageOf'[s] < stage' => Ended(s)'
    BY <1>1, <1>2 DEF StagesInv
  <1>5. ListsAll \/ ~tickets'.explicit => NotStagedBeforeDeps'
    BY <1>1 DEF StagesInv
  <1> QED BY <1>3, <1>4, <1>5 DEF StagesInv

(* The stages of every plan, through all that ends or closes its steps.    *)
THEOREM StagesInvariant ==
  ASSUME WellFormed, NoCycles
  PROVE  PlannerSpec => []StagesInv
  <1>1. PlannerInit => StagesInv
    <2> SUFFICES ASSUME PlannerInit PROVE StagesInv
      OBVIOUS
    <2>1. Steps = {} /\ status = <<>> /\ stageOf = <<>>
      BY DEF PlannerInit, Steps
    <2>2. \A S : <<>> \in [{} -> S]
      OBVIOUS
    <2>3. status \in [Steps -> Statuses] /\ stageOf \in [Steps -> 1..1] /\ 1 \in Nat
      BY <2>1, <2>2
    <2>4. NotStagedBeforeDeps
      BY <2>1 DEF NotStagedBeforeDeps
    <2> QED BY <2>3, <2>4 DEF PlannerInit, StagesInv
  <1>2. PInv /\ StagesInv /\ [PlannerNext]_plannerVars => StagesInv'
    <2> SUFFICES ASSUME PInv, StagesInv, [PlannerNext]_plannerVars PROVE StagesInv'
      OBVIOUS
    <2>0. closed \subseteq Ticket /\ status \in [Steps -> Statuses]
      BY DEF StagesInv
    <2>1. CASE ComputePlan
      BY <2>1, ComputeStages
    <2>2. CASE InitializeStages
      BY <2>2, InitializeKeeps
    <2>3. CASE NextStage
      BY <2>3, NextStageKeeps
    <2>4. ASSUME phase = "executing" PROVE Steps \subseteq StepId
      <3>1. PICK A \in SUBSET Ticket : PlanIsFor(A)
        BY <2>4 DEF PInv
      <3> QED BY <3>1, StepsOfPlan DEF PInv
    <2>5. CASE Refresh
      <3>1. PICK cl, st : cl = closed /\ st = status
        OBVIOUS
      <3>2. \A s \in Steps : Ended(s) => st[s] \in {"done", "failed", "skipped"}
        BY <3>1 DEF Ended
      <3>3. phase = "executing" /\ Recompute(cl, st) /\ cl \in SUBSET Ticket /\ st \in [Steps -> Statuses]
        BY <2>0, <2>5, <3>1 DEF Refresh
      <3> QED BY <2>4, <2>5, <3>2, <3>3, RecomputeStages DEF Refresh
    <2>6. ASSUME NEW s \in Steps, Skip(s) PROVE StagesInv'
      <3>1. PICK cl, st : cl = closed /\ st = [status EXCEPT ![s] = "skipped"]
        OBVIOUS
      <3>2. st \in [Steps -> Statuses]
        BY <2>0, <3>1 DEF Statuses
      <3>3. \A x \in Steps : Ended(x) => st[x] \in {"done", "failed", "skipped"}
        BY <2>0, <3>1 DEF Ended
      <3>4. phase = "executing" /\ Recompute(cl, st) /\ cl \in SUBSET Ticket
        BY <2>0, <2>6, <3>1 DEF Skip
      <3> QED BY <2>4, <2>6, <3>2, <3>3, <3>4, RecomputeStages DEF Skip
    <2>7. ASSUME NEW s \in Steps, NEW end \in {"done", "failed"}, Work(s, end) PROVE StagesInv'
      <3>1. PICK cl, st :
          /\ cl = IF end = "done" /\ tickets.transitions THEN closed \cup TicketsOf(s) ELSE closed
          /\ st = [status EXCEPT ![s] = end]
        OBVIOUS
      <3>2. st \in [Steps -> Statuses]
        BY <2>0, <3>1 DEF Statuses
      <3>3. \A x \in Steps : Ended(x) => st[x] \in {"done", "failed", "skipped"}
        BY <2>0, <3>1 DEF Ended
      <3>4. phase = "executing" /\ Recompute(cl, st)
        BY <2>7, <3>1 DEF Work
      <3>5. TicketsOf(s) \subseteq Ticket
        <4>1. s \in StepId
          BY <2>4, <3>4
        <4>2. s[1] \in Ticket
          BY <4>1 DEF StepId
        <4> QED BY <4>2 DEF TicketsOf
      <3>6. cl \in SUBSET Ticket
        BY <2>0, <3>1, <3>5
      <3> QED BY <2>4, <2>7, <3>2, <3>3, <3>4, <3>6, RecomputeStages DEF Work
    <2>8. CASE \E t \in Ticket : CloseTicket(t)
      BY <2>0, <2>8, StagesStay DEF CloseTicket
    <2>9. CASE UNCHANGED plannerVars
      BY <2>0, <2>9, StagesStay DEF plannerVars
    <2> QED BY <2>1, <2>2, <2>3, <2>5, <2>6, <2>7, <2>8, <2>9 DEF PlannerNext
  <1> QED BY <1>1, <1>2, PlannerInvariant, PTL DEF PlannerSpec

(* A plan and its stages are well-formed whatever it is made from.         *)
THEOREM PlannerTypesAreCorrect ==
  ASSUME WellFormed, NoCycles
  PROVE  PlannerSpec => []PlannerTypeOK
  <1>1. PInv /\ StagesInv => PlannerTypeOK
    <2> SUFFICES ASSUME PInv, StagesInv PROVE PlannerTypeOK
      OBVIOUS
    <2>1. Steps \subseteq StepId /\ \A s \in Steps : blockedBy[s] \subseteq StepId
      <3>1. CASE phase = "tickets"
        BY <3>1 DEF PInv, Steps
      <3>2. CASE phase # "tickets"
        <4>1. PICK A \in SUBSET Ticket : PlanIsFor(A)
          BY <3>2 DEF PInv
        <4>2. Steps \subseteq StepId /\ \A s \in Steps : blockedBy[s] \subseteq Steps
          BY <4>1, StepsOfPlan DEF PInv
        <4> QED BY <4>2
      <3> QED BY <3>1, <3>2
    <2>2. stageOf \in [Steps -> Nat]
      <3>1. PICK K \in Nat : stageOf \in [Steps -> 1..K]
        BY DEF StagesInv
      <3> QED BY <3>1
    <2> QED BY <2>1, <2>2 DEF PInv, StagesInv, PlannerTypeOK, Statuses
  <1> QED BY <1>1, PlannerInvariant, StagesInvariant, PTL

(* initializeStages(): a ticket cannot be staged before what it depends    *)
(* on, by depth, in one stage, or in stages of the user's that list every  *)
(* step.                                                                   *)
THEOREM StagedAfterDeps ==
  ASSUME WellFormed, NoCycles, ListsAll \/ \A k \in Inputs : ~k.explicit
  PROVE  PlannerSpec => []NotStagedBeforeDeps
  <1>1. PInv /\ StagesInv => NotStagedBeforeDeps
    BY DEF PInv, StagesInv
  <1> QED BY <1>1, PlannerInvariant, StagesInvariant, PTL

(* recomputePlan() and checkStageCompletion(): until all is over, or has   *)
(* failed, there is a step to start, a stage to leave or news to see.      *)
THEOREM PlanGoesOn ==
  ASSUME WellFormed, NoCycles, ListsAll \/ \A k \in Inputs : ~k.explicit
  PROVE  PlannerSpec => []NeverStuck
  <1>1. PInv /\ StagesInv => NeverStuck
    <2> SUFFICES ASSUME PInv, StagesInv, phase = "executing",
                        \A s \in Steps : status[s] # "failed",
                        \A s \in Steps : ~(status[s] = "ready" /\ InStage(s)),
                        ~StageIsOver, Recomputed(closed, status) = status,
                        NEW z \in Steps, ~Over(status, z)
                 PROVE  FALSE
      BY DEF NeverStuck
    <2>1. PICK A \in SUBSET Ticket : PlanIsFor(A)
      BY DEF PInv
    <2>2. PICK N, R : Ranked(blockedBy, N, R)
      BY <2>1, StepsOfPlan DEF PInv
    <2>3. R \in [Steps -> Nat] /\ \A s \in Steps : \A b \in blockedBy[s] : b \in Steps /\ R[b] < R[s]
      BY <2>2 DEF Ranked, Steps
    <2>4. PICK K \in Nat : stageOf \in [Steps -> 1..K]
      BY DEF StagesInv
    <2>5. stage \in Nat /\ status \in [Steps -> Statuses] /\ NotStagedBeforeDeps
      BY DEF StagesInv, PInv
    <2>6. \A s \in Steps : Ended(s) => Over(status, s)
      BY DEF Ended, Over
    <2> DEFINE D == {s \in Steps : InStage(s) /\ ~Over(status, s)}
               T == {R[s] : s \in D}
    <2>7. D # {}
      <3> SUFFICES ASSUME \A s \in Steps : InStage(s) => Over(status, s) PROVE FALSE
        OBVIOUS
      <3>1. stage # 0
        BY DEF InStage
      <3>2. \A s \in Steps : stageOf[s] <= stage => Over(status, s)
        <4> SUFFICES ASSUME NEW s \in Steps, stageOf[s] <= stage PROVE Over(status, s)
          OBVIOUS
        <4>1. stageOf[s] = stage \/ stageOf[s] < stage
          BY <2>4, <2>5
        <4> QED BY <2>6, <3>1, <4>1 DEF InStage, StagesInv
      <3>3. Max(Range(stageOf)) \in 1..K /\ stageOf[z] <= Max(Range(stageOf))
        BY <2>4, StageRange
      <3>4. stage <= Max(Range(stageOf))
        BY <3>1 DEF StagesInv
      <3>5. \A s \in Steps : stageOf[s] = stage => Ended(s)
        BY <2>5, <3>2 DEF Over, Ended
      <3>6. ~(stage < Max(Range(stageOf)))
        BY <3>1, <3>5 DEF StageIsOver
      <3>7. stageOf[z] <= stage
        BY <2>4, <2>5, <3>3, <3>4, <3>6
      <3> QED BY <3>2, <3>7
    <2>8. PICK m \in T : \A i \in T : m <= i
      <3>1. T \subseteq Nat /\ T # {}
        BY <2>3, <2>7
      <3> HIDE DEF T
      <3> QED BY <3>1, Smallest
    <2>9. PICK s \in D : m = R[s]
      BY <2>8
    <2>10. s \in Steps /\ InStage(s) /\ ~Over(status, s)
      BY <2>9
    <2>11. ASSUME NEW b \in blockedBy[s] PROVE Resolved(b, closed, status)
      <3>1. b \in Steps /\ R[b] < R[s] /\ R[b] \in Nat /\ R[s] \in Nat
        BY <2>3, <2>10
      <3>2. CASE InStage(b)
        <4> SUFFICES ASSUME ~Over(status, b) PROVE FALSE
          BY <3>1 DEF Resolved
        <4>1. R[b] \in T
          BY <3>1, <3>2
        <4> QED BY <2>8, <2>9, <3>1, <4>1
      <3>3. CASE ~InStage(b)
        <4>1. stage # 0 /\ stageOf[s] = stage /\ stageOf[b] # stage
          BY <2>10, <3>3 DEF InStage
        <4>2. stageOf[b] <= stageOf[s]
          BY <2>5, <2>10, <3>1 DEF NotStagedBeforeDeps
        <4>3. stageOf[b] < stage
          BY <2>4, <2>5, <3>1, <4>1, <4>2
        <4>4. Over(status, b)
          BY <2>6, <3>1, <4>1, <4>3 DEF StagesInv
        <4> QED BY <3>1, <4>4 DEF Resolved
      <3> QED BY <3>2, <3>3
    <2>12. status[s] \in {"blocked", "ready"} /\ status[s] # "ready"
      BY <2>5, <2>10 DEF Statuses, Over
    <2>13. Recomputed(closed, status)[s] \in {"skipped", "ready"}
      BY <2>10, <2>11, <2>12 DEF Recomputed
    <2> QED BY <2>12, <2>13
  <1> QED BY <1>1, PlannerInvariant, StagesInvariant, PTL
=============================================================================
