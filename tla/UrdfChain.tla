----------------------------- MODULE UrdfChain -----------------------------
(***************************************************************************)
(* walk_urdf_chain: the joints of a URDF file, in the order of the file,   *)
(* are put into the order of the kinematic chain by a walk from its root   *)
(* link, or rejected because they are no chain.  A joint is its two links; *)
(* what else it carries is copied.                                         *)
(***************************************************************************)
EXTENDS Naturals, FiniteSets, Sequences

CONSTANTS Links,  \* the names of links
          Inputs  \* the lists of joints that the walk is given

Joint == [parent : Links, child : Links]

ASSUME InputsAssumption == Inputs \subseteq Seq(Joint)

VARIABLES
  joints,   \* the argument
  current,  \* the link the walk is at
  visited,  \* the links it has been at
  ordered,  \* the places in joints of the joints it has passed, in that order
  outcome   \* "walking", "returned", or why the list was rejected

vars == <<joints, current, visited, ordered, outcome>>

Places == 1..Len(joints)

-----------------------------------------------------------------------------
all_parents  == {joints[i].parent : i \in Places}
all_children == {joints[i].child : i \in Places}

Roots == all_parents \ all_children

by_parent(link) == {i \in Places : joints[i].parent = link}

\* The walk starts at the only root, if there is one.
Init ==
  /\ joints \in Inputs
  /\ visited = {} /\ ordered = << >>
  /\ IF Cardinality(Roots) = 1
     THEN current \in Roots /\ outcome = "walking"
     ELSE current = "none" /\ outcome = "no single root"

Ends(result) ==
  /\ outcome' = result
  /\ UNCHANGED <<joints, current, visited, ordered>>

\* visited.insert(current) finds the link there.
Cycle == outcome = "walking" /\ current \in visited /\ Ends("cycle")

\* More than one joint leaves the link.
Branch ==
  /\ outcome = "walking" /\ current \notin visited
  /\ Cardinality(by_parent(current)) > 1
  /\ Ends("branch")

\* Mutant: a link that the walk comes back to is not noticed.
Advance_again ==
  /\ outcome = "walking"
  /\ \E i \in Places :
       /\ by_parent(current) = {i}
       /\ visited' = visited \cup {current}
       /\ ordered' = Append(ordered, i)
       /\ current' = joints[i].child
  /\ UNCHANGED <<joints, outcome>>

\* The only joint that leaves it leads to the next.
Advance ==
  /\ outcome = "walking" /\ current \notin visited
  /\ \E i \in Places :
       /\ by_parent(current) = {i}
       /\ visited' = visited \cup {current}
       /\ ordered' = Append(ordered, i)
       /\ current' = joints[i].child
  /\ UNCHANGED <<joints, outcome>>

\* Mutant: joints that the walk did not come by are dropped.
Stop_without_count ==
  /\ outcome = "walking" /\ current \notin visited
  /\ by_parent(current) = {}
  /\ Ends("returned")

\* Mutant: the links are counted against the joints.
Stop_counts_links ==
  /\ outcome = "walking" /\ current \notin visited
  /\ by_parent(current) = {}
  /\ Ends(IF Cardinality(visited) + 1 = Len(joints) THEN "returned" ELSE "unreached")

\* None does: the walk is over, and has to have passed every joint.
Stop ==
  /\ outcome = "walking" /\ current \notin visited
  /\ by_parent(current) = {}
  /\ Ends(IF Len(ordered) = Len(joints) THEN "returned" ELSE "unreached")

Next == Cycle \/ Branch \/ Advance \/ Stop

Spec == Init /\ [][Next]_vars

-----------------------------------------------------------------------------
(***************************************************************************)
(* Properties.                                                             *)
(***************************************************************************)

\* An order of all the joints in which each starts at the link where the one
\* before it ended, and no link is met twice.
IsChain(order) ==
  /\ order \in [Places -> Places]
  /\ joints # << >>
  /\ \A m \in Places : \E i \in Places : order[i] = m
  /\ \A i \in Places : i + 1 \in Places => joints[order[i]].child = joints[order[i + 1]].parent
  /\ \A i, k \in Places : joints[order[i]].parent = joints[order[k]].parent => i = k
  /\ \A i \in Places : joints[order[i]].parent # joints[order[Len(joints)]].child

\* Every variable has its type, and the walk passes no joint twice: that is what
\* ends it.
TypeOK ==
  /\ joints \in Seq(Joint)
  /\ current \in Links \cup {"none"} /\ visited \subseteq Links
  /\ ordered \in Seq(Places)
  /\ \A i, k \in DOMAIN ordered : ordered[i] = ordered[k] => i = k
  /\ outcome \in {"walking", "returned", "no single root", "cycle", "branch", "unreached"}

\* What the walk returns is all the joints, in the order of the chain.
ReturnsTheChain == outcome = "returned" => IsChain(ordered)

\* And it rejects nothing that is one chain, in whatever order the file has it.
RejectsNoChain ==
  outcome \notin {"walking", "returned"} => ~ \E order \in [Places -> Places] : IsChain(order)
=============================================================================
