--------------------------- MODULE ModuleContract ---------------------------
(***************************************************************************)
(* What viam-server may conclude from the answers of a module: the module  *)
(* is a set of configured resources, and a request is answered in one step *)
(* that does all it does to that set.  ModuleService gets there in many    *)
(* steps, on several threads.                                              *)
(***************************************************************************)
CONSTANTS Slots,     \* the requests that can be under way at a time
          Requests   \* what viam-server may ask for

VARIABLES configured,  \* the keys of the resources that the module has
          order,       \* the request under way in each slot
          reply,       \* the status of its last answer
          overlapping  \* an order may come before the last one is answered

vars == <<configured, order, reply, overlapping>>

Nothing == [kind |-> "none"]
Orders  == {"add", "reconfigure", "remove"}

Ask(s) ==
  /\ order[s] = Nothing
  /\ \E r \in Requests :
       /\ r.kind \in Orders /\ ~overlapping => \A u \in Slots : order[u].kind \notin Orders
       /\ order' = [order EXCEPT ![s] = r]
  /\ reply' = [reply EXCEPT ![s] = "none"]
  /\ UNCHANGED <<configured, overlapping>>

Asked(s, kind) == order[s].kind = kind

Answer(s, status) ==
  /\ order' = [order EXCEPT ![s] = Nothing]
  /\ reply' = [reply EXCEPT ![s] = status]
  /\ UNCHANGED overlapping

Refuse(s, statuses) ==
  /\ \E status \in statuses : Answer(s, status)
  /\ UNCHANGED configured

\* An add that is refused, whether for its dependencies, its constructor or a
\* resource that is there, leaves nothing behind.
AddResource(s) ==
  /\ Asked(s, "add")
  /\ \/ /\ order[s].key \notin configured
        /\ configured' = configured \cup {order[s].key}
        /\ Answer(s, "OK")
     \/ Refuse(s, {"INTERNAL", "UNKNOWN"})

\* The answer is OK also when the constructor threw and the resource is gone,
\* and when another order had removed it; but none is brought back.
ReconfigureResource(s) ==
  /\ Asked(s, "reconfigure")
  /\ \/ /\ order[s].key \in configured \/ overlapping
        /\ configured' \in {configured, configured \ {order[s].key}}
        /\ Answer(s, "OK")
     \/ Refuse(s, {"INTERNAL", "UNKNOWN"})

RemoveResource(s) ==
  /\ Asked(s, "remove")
  /\ \/ /\ order[s].key \in configured \/ overlapping
        /\ configured' = configured \ {order[s].key}
        /\ Answer(s, "OK")
     \/ Refuse(s, {"UNKNOWN"})

\* A call of a resource's method does not find it only if it is not configured;
\* one that is being rebuilt is waited for.
Call(s) ==
  /\ Asked(s, "use")
  /\ \/ Answer(s, "OK") /\ UNCHANGED configured
     \/ Refuse(s, {"INTERNAL"})
     \/ order[s].key \notin configured /\ Refuse(s, {"NOT_FOUND"})

Ready(s) ==
  /\ Asked(s, "ready")
  /\ \/ Answer(s, "OK") /\ UNCHANGED configured
     \/ Refuse(s, {"UNKNOWN"})

Init ==
  /\ configured = {}
  /\ order = [s \in Slots |-> Nothing]
  /\ reply = [s \in Slots |-> "none"]
  /\ overlapping \in BOOLEAN

Next ==
  \E s \in Slots :
    \/ Ask(s) \/ AddResource(s) \/ ReconfigureResource(s) \/ RemoveResource(s)
    \/ Call(s) \/ Ready(s)

Spec == Init /\ [][Next]_vars
=============================================================================
