-------------------------- MODULE UrdfChainProofs --------------------------
(***************************************************************************)
(* What walk_urdf_chain returns and rejects, for every list of joints.     *)
(***************************************************************************)
EXTENDS UrdfChain, FiniteSetTheorems, TLAPS

Walks == outcome # "no single root"

\* The joints passed are a path from the root to current, each the only one that
\* leaves its link, and visited holds the links they leave.
Path ==
  /\ Len(ordered) = 0 => Roots = {current} /\ visited = {}
  /\ Len(ordered) > 0 =>
       /\ Roots = {joints[ordered[1]].parent}
       /\ current = joints[ordered[Len(ordered)]].child
  /\ visited = {joints[ordered[i]].parent : i \in DOMAIN ordered}
  /\ \A i \in DOMAIN ordered :
       i + 1 \in DOMAIN ordered => joints[ordered[i]].child = joints[ordered[i + 1]].parent
  /\ \A i, k \in DOMAIN ordered : joints[ordered[i]].parent = joints[ordered[k]].parent => i = k

\* A walk along a chain has gone along it from its start: without this, nothing
\* says that a walk that stops early has met something that no chain has.
Follows ==
  \A order : IsChain(order) =>
    /\ Len(ordered) =< Len(joints)
    /\ \A i \in DOMAIN ordered : ordered[i] = order[i]

\* What each way to end has seen.
Ended ==
  /\ outcome = "cycle" => current \in visited
  /\ outcome = "branch" => \E i, k \in by_parent(current) : i # k
  /\ outcome \in {"returned", "unreached"} => current \notin visited /\ by_parent(current) = {}
  /\ outcome = "returned" => Len(ordered) = Len(joints)
  /\ outcome = "unreached" => Len(ordered) # Len(joints)

IInv ==
  /\ TypeOK
  /\ Walks => Path /\ Follows
  /\ Ended
  /\ ~ Walks => Cardinality(Roots) # 1

-----------------------------------------------------------------------------
\* The only root of a chain is the link where it starts.
LEMMA RootOfChain ==
  ASSUME joints \in Seq(Joint), NEW order, IsChain(order)
  PROVE  1 \in Places /\ Roots = {joints[order[1]].parent}
<1>1. Len(joints) \in Nat /\ Len(joints) # 0
  BY DEF IsChain
<1>2. 1 \in Places /\ Len(joints) \in Places
  BY <1>1 DEF Places
<1>3. \A i \in Places : order[i] \in Places
  BY DEF IsChain
<1> DEFINE r == joints[order[1]].parent
<1>4. r \in all_parents
  BY <1>2, <1>3 DEF all_parents
<1>5. r \notin all_children
  <2> SUFFICES ASSUME NEW m \in Places, joints[m].child = r PROVE FALSE
    BY DEF all_children
  <2>1. PICK i \in Places : order[i] = m
    BY DEF IsChain
  <2>2. CASE i + 1 \in Places
    <3>1. joints[order[i + 1]].parent = joints[order[1]].parent
      BY <2>1, <2>2 DEF IsChain
    <3>2. i + 1 = 1
      BY <3>1, <2>2, <1>2 DEF IsChain
    <3> QED BY <3>2, <1>1 DEF Places
  <2>3. CASE i + 1 \notin Places
    <3>1. i = Len(joints)
      BY <2>3, <1>1 DEF Places
    <3> QED BY <3>1, <2>1, <1>2 DEF IsChain
  <2> QED BY <2>2, <2>3
<1>6. ASSUME NEW p \in Roots PROVE p = r
  <2>1. PICK m \in Places : p = joints[m].parent
    BY <1>6 DEF Roots, all_parents
  <2>2. PICK i \in Places : order[i] = m
    BY DEF IsChain
  <2>3. CASE i = 1
    BY <2>1, <2>2, <2>3
  <2>4. CASE i # 1
    <3>1. i - 1 \in Places /\ (i - 1) + 1 = i
      BY <2>4, <1>1 DEF Places
    <3>2. joints[order[i - 1]].child = p
      BY <3>1, <2>1, <2>2 DEF IsChain
    <3>3. p \in all_children
      BY <3>1, <3>2, <1>3 DEF all_children
    <3> QED BY <3>3 DEF Roots
  <2> QED BY <2>3, <2>4
<1> QED BY <1>2, <1>4, <1>5, <1>6 DEF Roots

\* An order of as many places as there are, none twice, has them all.
LEMMA AllPlaces ==
  ASSUME joints \in Seq(Joint), NEW order \in [Places -> Places],
         \A i, k \in Places : order[i] = order[k] => i = k
  PROVE  \A m \in Places : \E i \in Places : order[i] = m
<1>1. Len(joints) \in Nat
  OBVIOUS
<1>2. IsFiniteSet(Places)
  BY <1>1, FS_Interval DEF Places
<1>3. order \in Injection(Places, Places)
  BY DEF Injection, IsInjective
<1>4. order \in Surjection(Places, Places)
  <2> HIDE DEF Places
  <2> QED BY <1>2, <1>3, FS_Injection
<1> QED BY <1>4 DEF Surjection

\* More than one element is two.
LEMMA TwoElements ==
  ASSUME NEW S, IsFiniteSet(S), Cardinality(S) > 1
  PROVE  \E a, b \in S : a # b
<1>1. SUFFICES ASSUME \A a, b \in S : a = b PROVE FALSE
  OBVIOUS
<1>2. CASE S = {}
  BY <1>2, FS_EmptySet
<1>3. CASE S # {}
  <2>1. PICK a : a \in S
    BY <1>3
  <2>2. S = {a}
    BY <1>1, <2>1
  <2>3. Cardinality(S) = 1
    BY <2>2, FS_Singleton
  <2> QED BY <2>3
<1> QED BY <1>2, <1>3

-----------------------------------------------------------------------------
LEMMA InitIInv == Init => IInv
<1> SUFFICES ASSUME Init PROVE IInv
  OBVIOUS
<1>1. joints \in Seq(Joint)
  BY InputsAssumption DEF Init
<1>2. Len(joints) \in Nat
  BY <1>1
<1>3. IsFiniteSet(Places)
  BY <1>2, FS_Interval DEF Places
<1>4. /\ ordered = << >> /\ DOMAIN ordered = {} /\ Len(ordered) = 0
      /\ visited = {}
  <2>1. ordered = << >> /\ visited = {}
    BY Zenon DEF Init
  <2> QED BY <2>1
<1>5. CASE Cardinality(Roots) = 1
  <2>1. current \in Roots /\ outcome = "walking"
    BY <1>5 DEF Init
  <2>2. IsFiniteSet(Roots)
    <3>1. IsFiniteSet(all_parents)
      <4> DEFINE parent == [i \in Places |-> joints[i].parent]
      <4>1. parent \in Surjection(Places, all_parents)
        BY DEF all_parents, Surjection
      <4> HIDE DEF parent
      <4> QED BY <4>1, <1>3, FS_Surjection
    <3> QED BY <3>1, FS_Subset DEF Roots
  <2>3. Roots = {current}
    <3>1. PICK r : Roots = {r}
      BY <2>2, <1>5, FS_Singleton
    <3> QED BY <2>1, <3>1
  <2>4. current \in Links
    <3>1. \A i \in Places : joints[i] \in Joint
      BY <1>1, <1>2 DEF Places
    <3>2. \A i \in Places : joints[i].parent \in Links
      BY <3>1 DEF Joint
    <3> QED BY <2>1, <3>2 DEF Roots, all_parents
  <2>5. TypeOK
    BY <1>1, <1>4, <2>1, <2>4 DEF TypeOK, Init
  <2>6. Path
    <3>1. {joints[ordered[i]].parent : i \in DOMAIN ordered} = {}
      BY <1>4
    <3>2. ~ (Len(ordered) > 0)
      BY <1>4
    <3> QED BY <1>4, <2>3, <3>1, <3>2 DEF Path
  <2>7. Follows
    BY <1>4, <1>2 DEF Follows
  <2> QED BY <2>1, <2>5, <2>6, <2>7 DEF IInv, Ended, Walks
<1>6. CASE Cardinality(Roots) # 1
  <2>1. current = "none" /\ outcome = "no single root"
    BY <1>6 DEF Init
  <2>2. TypeOK
    <3>1. ordered \in Seq(Places)
      BY <1>4
    <3> QED BY <1>1, <1>4, <2>1, <3>1 DEF TypeOK
  <2> QED BY <1>6, <2>1, <2>2 DEF IInv, Ended, Walks
<1> QED BY <1>5, <1>6

\* What is said of the list alone stays.
LEMMA Unchanged ==
  ASSUME UNCHANGED joints
  PROVE  /\ Places' = Places /\ Roots' = Roots
         /\ \A order : IsChain(order)' <=> IsChain(order)
<1>1. Places' = Places
  BY DEF Places
<1>2. Roots' = Roots
  BY <1>1 DEF Roots, all_parents, all_children
<1>3. ASSUME NEW order PROVE IsChain(order)' <=> IsChain(order)
  BY <1>1 DEF IsChain
<1> QED BY <1>1, <1>2, <1>3

\* The walk ends where it is.
LEMMA EndsIInv ==
  ASSUME IInv, Cycle \/ Branch \/ Stop
  PROVE  IInv'
<1>1. outcome = "walking" /\ UNCHANGED <<joints, current, visited, ordered>>
  BY DEF Cycle, Branch, Stop, Ends
<1>2. outcome' \in {"returned", "cycle", "branch", "unreached"}
  BY DEF Cycle, Branch, Stop, Ends
<1>3. TypeOK'
  BY <1>1, <1>2, Unchanged DEF IInv, TypeOK
<1>4. Path' /\ Follows'
  <2>1. Path /\ Follows
    BY <1>1 DEF IInv, Walks
  <2>2. Path'
    BY <2>1, <1>1, Unchanged DEF Path
  <2>3. Follows'
    BY <2>1, <1>1, Unchanged DEF Follows
  <2> QED BY <2>2, <2>3
<1>5. Ended'
  <2>1. CASE Cycle
    BY <2>1 DEF Cycle, Ends, Ended
  <2>2. CASE Branch
    <3>1. IsFiniteSet(by_parent(current))
      <4>1. IsFiniteSet(Places)
        <5>1. joints \in Seq(Joint)
          BY Zenon DEF IInv, TypeOK
        <5>2. Len(joints) \in Nat
          BY <5>1
        <5> QED BY <5>2, FS_Interval DEF Places
      <4> QED BY <4>1, FS_Subset DEF by_parent
    <3>2. \E i, k \in by_parent(current) : i # k
      BY <2>2, <3>1, TwoElements DEF Branch
    <3>3. by_parent(current)' = by_parent(current)
      BY <1>1 DEF by_parent, Places
    <3>4. outcome' = "branch"
      BY <2>2 DEF Branch, Ends
    <3> QED BY <3>2, <3>3, <3>4 DEF Ended
  <2>3. CASE Stop
    <3>1. by_parent(current)' = {}
      BY <2>3 DEF Stop, Ends, by_parent, Places
    <3> QED BY <2>3, <3>1 DEF Stop, Ends, Ended
  <2> QED BY <2>1, <2>2, <2>3
<1> QED BY <1>2, <1>3, <1>4, <1>5 DEF IInv, Walks

\* One more joint.
LEMMA AdvanceIInv ==
  ASSUME IInv, Advance
  PROVE  IInv'
<1>1. /\ outcome = "walking" /\ current \notin visited
      /\ UNCHANGED <<joints, outcome>>
  BY DEF Advance
<1>2. PICK m \in Places :
        /\ by_parent(current) = {m}
        /\ visited' = visited \cup {current}
        /\ ordered' = Append(ordered, m)
        /\ current' = joints[m].child
  BY DEF Advance
<1>3. TypeOK /\ Path /\ Follows
  BY <1>1 DEF IInv, Walks
<1>4. joints[m].parent = current
  BY <1>2 DEF by_parent
<1> DEFINE n == Len(ordered)
<1>5. /\ n \in Nat /\ DOMAIN ordered = 1..n /\ ordered \in Seq(Places)
      /\ Len(ordered') = n + 1 /\ DOMAIN ordered' = 1..(n + 1)
      /\ \A i \in 1..n : ordered'[i] = ordered[i] /\ ordered[i] \in Places
      /\ ordered'[n + 1] = m
  <2>1. ordered \in Seq(Places)
    BY <1>3, Zenon DEF TypeOK
  <2> HIDE DEF Places
  <2>2. m \in Places
    BY <1>2 DEF by_parent
  <2> QED BY <1>2, <2>1, <2>2
<1>6. Places' = Places /\ Roots' = Roots
  BY <1>1, Unchanged
<1>7. \A i \in 1..n : joints[ordered[i]].parent # current
  BY <1>1, <1>3, <1>5 DEF Path
<1>8. TypeOK'
  <2>1. \A i, k \in DOMAIN ordered' : ordered'[i] = ordered'[k] => i = k
    <3> SUFFICES ASSUME NEW i \in DOMAIN ordered', NEW k \in DOMAIN ordered',
                        ordered'[i] = ordered'[k]
                 PROVE  i = k
      OBVIOUS
    <3>1. CASE i \in 1..n /\ k \in 1..n
      BY <3>1, <1>3, <1>5 DEF TypeOK
    <3>2. CASE i = n + 1 /\ k \in 1..n
      BY <3>2, <1>4, <1>5, <1>7
    <3>3. CASE k = n + 1 /\ i \in 1..n
      BY <3>3, <1>4, <1>5, <1>7
    <3> QED BY <3>1, <3>2, <3>3, <1>5
  <2>2. ordered' \in Seq(Places)'
    <3>1. Append(ordered, m) \in Seq(Places)
      BY <1>5
    <3> QED BY <3>1, <1>2, <1>6
  <2>3. current \in Links /\ current' \in Links
    <3>1. joints \in Seq(Joint)
      BY <1>3, Zenon DEF TypeOK
    <3>2. m \in 1..Len(joints)
      BY <1>2 DEF by_parent, Places
    <3>3. joints[m] \in Joint
      BY <3>1, <3>2
    <3> QED BY <3>3, <1>2, <1>4 DEF Joint
  <2>4. visited' \subseteq Links
    BY <2>3, <1>2, <1>3 DEF TypeOK
  <2> QED BY <2>1, <2>2, <2>3, <2>4, <1>1, <1>3 DEF TypeOK
<1>9. Path'
  <2>1. visited' = {joints[ordered'[i]].parent : i \in 1..(n + 1)}
    <3>1. visited = {joints[ordered[i]].parent : i \in 1..n}
      BY <1>3, <1>5 DEF Path
    <3>2. \A x \in visited : \E i \in 1..(n + 1) : x = joints[ordered'[i]].parent
      BY <3>1, <1>5
    <3>3. current = joints[ordered'[n + 1]].parent
      BY <1>4, <1>5
    <3>4. \A i \in 1..(n + 1) : joints[ordered'[i]].parent \in visited \cup {current}
      <4> SUFFICES ASSUME NEW i \in 1..(n + 1)
                   PROVE  joints[ordered'[i]].parent \in visited \cup {current}
        OBVIOUS
      <4>1. CASE i = n + 1
        BY <4>1, <3>3
      <4>2. CASE i \in 1..n
        BY <4>2, <3>1, <1>5
      <4> QED BY <4>1, <4>2, <1>5
    <3>5. n + 1 \in 1..(n + 1)
      BY <1>5
    <3> QED BY <3>2, <3>3, <3>4, <3>5, <1>2
  <2>2. n > 0 => current = joints[ordered[n]].child
    BY <1>3 DEF Path
  <2>3. \A i \in 1..n : joints[ordered'[i]].child = joints[ordered'[i + 1]].parent
    <3> SUFFICES ASSUME NEW i \in 1..n
                 PROVE  joints[ordered'[i]].child = joints[ordered'[i + 1]].parent
      OBVIOUS
    <3>1. CASE i = n
      BY <3>1, <2>2, <1>4, <1>5
    <3>2. CASE i # n
      <4>1. i \in 1..n /\ i + 1 \in 1..n
        BY <3>2, <1>5
      <4>2. joints[ordered[i]].child = joints[ordered[i + 1]].parent
        BY <4>1, <1>3, <1>5 DEF Path
      <4> QED BY <4>1, <4>2, <1>5
    <3> QED BY <3>1, <3>2
  <2>4. \A i, k \in 1..(n + 1) : joints[ordered'[i]].parent = joints[ordered'[k]].parent => i = k
    <3> SUFFICES ASSUME NEW i \in 1..(n + 1), NEW k \in 1..(n + 1),
                        joints[ordered'[i]].parent = joints[ordered'[k]].parent
                 PROVE  i = k
      OBVIOUS
    <3>1. CASE i \in 1..n /\ k \in 1..n
      BY <3>1, <1>3, <1>5 DEF Path
    <3>2. CASE i = n + 1 /\ k \in 1..n
      BY <3>2, <1>4, <1>5, <1>7
    <3>3. CASE k = n + 1 /\ i \in 1..n
      BY <3>3, <1>4, <1>5, <1>7
    <3> QED BY <3>1, <3>2, <3>3, <1>5
  <2>5. Roots = {joints[ordered'[1]].parent}
    <3>1. CASE n = 0
      BY <3>1, <1>3, <1>4, <1>5 DEF Path
    <3>2. CASE n > 0
      BY <3>2, <1>3, <1>5 DEF Path
    <3> QED BY <3>1, <3>2, <1>5
  <2>6. current' = joints[ordered'[n + 1]].child
    BY <1>2, <1>5
  <2>7. \A i \in DOMAIN ordered' : i + 1 \in DOMAIN ordered' => i \in 1..n
    BY <1>5
  <2> HIDE DEF n
  <2> QED BY <2>1, <2>3, <2>4, <2>5, <2>6, <2>7, <1>1, <1>5, <1>6 DEF Path
<1>10. Follows'
  <2>1. \A order : IsChain(order)' => IsChain(order)
    BY <1>1, Unchanged
  <2>2. ASSUME NEW order, IsChain(order)
        PROVE  n + 1 =< Len(joints) /\ \A i \in 1..(n + 1) : ordered'[i] = order[i]
    <3>1. n =< Len(joints) /\ \A i \in 1..n : ordered[i] = order[i]
      BY <2>2, <1>3, <1>5 DEF Follows
    <3>2. /\ joints \in Seq(Joint) /\ Len(joints) \in Nat
          /\ \A i \in Places : order[i] \in Places
      <4>1. joints \in Seq(Joint)
        BY <1>3, Zenon DEF TypeOK
      <4> QED BY <2>2, <4>1 DEF IsChain
    <3>3. 1 \in Places /\ Roots = {joints[order[1]].parent}
      BY <2>2, <3>2, RootOfChain
    <3>4. n + 1 \in Places /\ joints[order[n + 1]].parent = current
      <4>1. CASE n = 0
        BY <4>1, <3>3, <1>3, <1>5 DEF Path
      <4>2. CASE n > 0
        <5>1. n \in Places /\ ordered[n] = order[n]
          BY <4>2, <3>1, <3>2, <1>5 DEF Places
        <5>2. current = joints[order[n]].child
          BY <4>2, <5>1, <1>3 DEF Path
        <5>3. n # Len(joints)
          <6>1. PICK i \in Places : order[i] = m
            BY <2>2 DEF IsChain
          <6>2. joints[order[i]].parent = current
            BY <6>1, <1>4
          <6>3. joints[order[i]].parent # joints[order[Len(joints)]].child
            BY <2>2 DEF IsChain
          <6> QED BY <6>2, <6>3, <5>2
        <5>4. n + 1 \in Places
          BY <5>1, <5>3, <3>2, <1>5 DEF Places
        <5> QED BY <5>1, <5>2, <5>4, <2>2 DEF IsChain
      <4> QED BY <4>1, <4>2, <1>5
    <3>5. order[n + 1] = m
      BY <3>2, <3>4, <1>2 DEF by_parent
    <3>6. n + 1 =< Len(joints)
      BY <3>4, <3>2, <1>5 DEF Places
    <3>7. ASSUME NEW i \in 1..(n + 1) PROVE ordered'[i] = order[i]
      <4>1. CASE i = n + 1
        BY <4>1, <3>5, <1>5
      <4>2. CASE i \in 1..n
        BY <4>2, <3>1, <1>5
      <4> QED BY <4>1, <4>2, <1>5
    <3> QED BY <3>6, <3>7
  <2> HIDE DEF n
  <2> QED BY <2>1, <2>2, <1>1, <1>5 DEF Follows
<1> QED BY <1>1, <1>8, <1>9, <1>10 DEF IInv, Walks, Ended

LEMMA NextIInv == IInv /\ [Next]_vars => IInv'
<1> SUFFICES ASSUME IInv, [Next]_vars PROVE IInv'
  OBVIOUS
<1>1. CASE Advance
  BY <1>1, AdvanceIInv
<1>2. CASE Cycle \/ Branch \/ Stop
  BY <1>2, EndsIInv
<1>3. CASE UNCHANGED vars
  <2>1. /\ UNCHANGED <<joints, current, visited, ordered, outcome>>
        /\ by_parent(current)' = by_parent(current)
    BY <1>3 DEF vars, by_parent, Places
  <2>2. TypeOK'
    BY <2>1, Unchanged DEF IInv, TypeOK
  <2>3. (Walks => Path)'
    <3>1. Walks' => Walks
      BY <2>1 DEF Walks
    <3>2. Walks => Path
      BY DEF IInv
    <3>3. Path' <=> Path
      BY <2>1, Unchanged DEF Path
    <3> QED BY <3>1, <3>2, <3>3
  <2>4. (Walks => Follows)'
    BY <2>1, Unchanged DEF IInv, Walks, Follows
  <2>5. Ended'
    BY <2>1 DEF IInv, Ended
  <2> QED BY <2>1, <2>2, <2>3, <2>4, <2>5, Unchanged DEF IInv, Walks
<1> QED BY <1>1, <1>2, <1>3 DEF Next

LEMMA IInvReturns == IInv => ReturnsTheChain
<1> SUFFICES ASSUME IInv, outcome = "returned" PROVE IsChain(ordered)
  BY DEF ReturnsTheChain
<1>1. /\ TypeOK /\ Path /\ Len(ordered) = Len(joints)
      /\ current \notin visited
  BY DEF IInv, Walks, Ended
<1>2. /\ Len(joints) \in Nat /\ DOMAIN ordered = Places
      /\ ordered \in [Places -> Places] /\ joints \in Seq(Joint)
  BY <1>1 DEF TypeOK, Places
<1>3. Len(joints) # 0
  <2> SUFFICES ASSUME Len(joints) = 0 PROVE FALSE
    OBVIOUS
  <2>1. Places = {}
    BY DEF Places
  <2>2. Roots = {current}
    BY <1>1 DEF Path
  <2> QED BY <2>1, <2>2 DEF Roots, all_parents
<1>4. \A m \in Places : \E i \in Places : ordered[i] = m
  BY <1>1, <1>2, AllPlaces DEF TypeOK
<1>5. \A i \in Places : joints[ordered[i]].parent # joints[ordered[Len(joints)]].child
  BY <1>1, <1>2, <1>3 DEF Path
<1> QED BY <1>1, <1>2, <1>3, <1>4, <1>5 DEF IsChain, Path

LEMMA IInvRejects == IInv => RejectsNoChain
<1> SUFFICES ASSUME IInv, outcome \notin {"walking", "returned"},
                    NEW order, IsChain(order)
             PROVE  FALSE
  BY DEF RejectsNoChain
<1>1. TypeOK /\ joints \in Seq(Joint) /\ Len(joints) \in Nat
  <2>1. TypeOK /\ joints \in Seq(Joint)
    BY Zenon DEF IInv, TypeOK
  <2> QED BY <2>1
<1>2. 1 \in Places /\ Roots = {joints[order[1]].parent}
  BY <1>1, RootOfChain
<1>3. \A i \in Places : order[i] \in Places
  BY DEF IsChain
<1>4. CASE outcome = "no single root"
  BY <1>2, <1>4, FS_Singleton DEF IInv, Walks
<1>5. ASSUME Walks
      PROVE  /\ Len(ordered) \in Nat /\ Len(ordered) =< Len(joints)
             /\ Len(ordered) = 0 => current = joints[order[1]].parent
             /\ Len(ordered) > 0 => current = joints[order[Len(ordered)]].child
             /\ visited = {joints[order[i]].parent : i \in 1..Len(ordered)}
  <2>1. Path /\ Follows /\ ordered \in Seq(Places)
    BY <1>5, <1>1, Zenon DEF IInv, TypeOK
  <2> HIDE DEF Places
  <2>2. DOMAIN ordered = 1..Len(ordered) /\ Len(ordered) \in Nat
    BY <2>1
  <2>3. Len(ordered) =< Len(joints) /\ \A i \in 1..Len(ordered) : ordered[i] = order[i]
    BY <2>1, <2>2 DEF Follows
  <2>4. visited = {joints[order[i]].parent : i \in 1..Len(ordered)}
    <3>1. visited = {joints[ordered[i]].parent : i \in 1..Len(ordered)}
      BY <2>1, <2>2 DEF Path
    <3> QED BY <2>3, <3>1
  <2>5. Len(ordered) = 0 => current = joints[order[1]].parent
    BY <1>2, <2>1 DEF Path
  <2>6. Len(ordered) > 0 => current = joints[order[Len(ordered)]].child
    BY <2>1, <2>2, <2>3 DEF Path
  <2> QED BY <2>2, <2>3, <2>4, <2>5, <2>6
<1> DEFINE n == Len(ordered)
\* Past the joints it has passed, a chain goes on from current, or is over.
<1>6. ASSUME Walks, n < Len(joints)
      PROVE  n + 1 \in Places /\ joints[order[n + 1]].parent = current
  <2>1. n + 1 \in Places /\ n \in Nat
    BY <1>1, <1>5, <1>6 DEF Places
  <2>2. CASE n = 0
    BY <2>1, <2>2, <1>5, <1>6
  <2>3. CASE n > 0
    <3>1. n \in Places
      BY <2>1, <2>3 DEF Places
    <3> QED BY <2>1, <2>3, <3>1, <1>5, <1>6 DEF IsChain
  <2> QED BY <2>1, <2>2, <2>3
<1>7. CASE outcome = "cycle"
  <2>1. Walks /\ current \in visited
    BY <1>7 DEF Walks, IInv, Ended
  <2>2. PICK i \in 1..n : current = joints[order[i]].parent
    BY <2>1, <1>5
  <2>3. n \in Nat /\ n > 0 /\ n =< Len(joints) /\ i \in Places
    BY <2>1, <2>2, <1>1, <1>5 DEF Places
  <2>4. CASE n = Len(joints)
    BY <2>1, <2>2, <2>3, <2>4, <1>5 DEF IsChain
  <2>5. CASE n < Len(joints)
    <3>1. n + 1 \in Places /\ joints[order[n + 1]].parent = joints[order[i]].parent
      BY <2>1, <2>2, <2>5, <1>6
    <3>2. i = n + 1
      BY <3>1, <2>3 DEF IsChain
    <3> QED BY <3>2, <2>2, <2>3
  <2> QED BY <2>3, <2>4, <2>5, <1>1
<1>8. CASE outcome = "branch"
  <2>1. PICK a \in Places, b \in Places :
          a # b /\ joints[a].parent = current /\ joints[b].parent = current
    BY <1>8 DEF IInv, Ended, by_parent
  <2>2. PICK i \in Places, k \in Places : order[i] = a /\ order[k] = b
    BY <2>1 DEF IsChain
  <2> QED BY <2>1, <2>2 DEF IsChain
<1>9. CASE outcome = "unreached"
  <2>1. Walks /\ by_parent(current) = {} /\ n # Len(joints)
    BY <1>9 DEF Walks, IInv, Ended
  <2>2. n < Len(joints)
    BY <2>1, <1>1, <1>5
  <2>3. n + 1 \in Places /\ joints[order[n + 1]].parent = current
    BY <2>1, <2>2, <1>6
  <2> QED BY <2>1, <2>3, <1>3 DEF by_parent
<1> QED BY <1>1, <1>4, <1>7, <1>8, <1>9 DEF TypeOK

LEMMA WalkIInv == Spec => []IInv
BY InitIInv, NextIInv, PTL DEF Spec

-----------------------------------------------------------------------------
\* The walk of walk_urdf_chain passes no joint twice, so that it ends for every
\* file, however its joints lead in circles.
THEOREM WalkTypeOK == Spec => []TypeOK
<1>1. IInv => TypeOK
  BY DEF IInv
<1> QED BY <1>1, WalkIInv, PTL

\* Whatever list walk_urdf_chain returns is all the joints of the file in the
\* order of one chain.
THEOREM WalkReturnsTheChain == Spec => []ReturnsTheChain
BY IInvReturns, WalkIInv, PTL

\* walk_urdf_chain throws only for a file whose joints are in no order a chain.
THEOREM WalkRejectsNoChain == Spec => []RejectsNoChain
BY IInvRejects, WalkIInv, PTL
=============================================================================
