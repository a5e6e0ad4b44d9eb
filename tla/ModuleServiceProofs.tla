------------------------ MODULE ModuleServiceProofs ------------------------
(***************************************************************************)
(* The safety properties of ModuleService for any number of gRPC threads,  *)
(* resources, models, addresses and requests.                              *)
(*                                                                         *)
(* That only an add adds, and that nothing leaves a lock behind, follows   *)
(* from which request can be at which label (Jobs).  That an instance is   *)
(* stopped before it goes needs two facts more, both for orders that do    *)
(* not overlap: one handler of an order is under way (OneAtATime), so that *)
(* what it looked up and stopped is still what the table has (Settled).    *)
(*                                                                         *)
(* Who is kept out of parent_, and what is in whose hands, are inductive   *)
(* on top of that (Kept, Clear), each in a part of its own at the end.     *)
(***************************************************************************)
EXTENDS ModuleService, TLAPS

Requested == req \in [Slots -> Requests \cup {NoRequest}]

Jobs ==
  \A s \in Slots :
    /\ pc[s] = "take_lock" => req[s].kind \in {"add", "ready"}
    /\ pc[s] \in {"connect", "connecting"} => req[s].kind = "ready"
    /\ pc[s] \in {"dependencies", "dialling"} => req[s].kind \in {"add", "reconfigure"}
    /\ pc[s] = "refreshing" => req[s].kind \in {"add", "reconfigure", "ready"}
    /\ pc[s] \in {"construct", "register"} => req[s].kind = "add"
    /\ pc[s] = "lookup" => req[s].kind \in {"reconfigure", "remove", "use"}
    /\ pc[s] = "invoke" => req[s].kind = "use"
    /\ pc[s] = "stop" => req[s].kind \in {"reconfigure", "remove"}
    /\ pc[s] \in {"replace", "rebuild"} => req[s].kind = "reconfigure"
    /\ pc[s] = "remove" => req[s].kind = "remove"

InHand == \A s \in Slots : pc[s] \in {"stop", "register"} => res[s] \in 1..made

Drains == phase \in {"drained", "gone"} => \A s \in Slots : pc[s] = "idle"

Ordered(s) == pc[s] # "idle" /\ req[s].kind \in Orders

OneAtATime == ~overlapping => \A s, u \in Slots : Ordered(s) /\ Ordered(u) => s = u

\* The resources of a module have no remotes, as viam-server names them.
LocalKeys == \A k \in Keys : Len(k) = 1

Settled ==
  LocalKeys /\ ~overlapping =>
    \A s \in Slots :
      Ordered(s) /\ req[s].key \in DOMAIN table.resources =>
        /\ pc[s] = "stop" => res[s] = table.resources[req[s].key]
        /\ pc[s] \in {"replace", "remove"} => table.resources[req[s].key] \in stopped

IInv ==
  /\ TypeOK /\ Requested /\ LockHolders /\ ParentIsThere
  /\ Jobs /\ InHand /\ Drains /\ OneAtATime /\ Settled

-----------------------------------------------------------------------------
(***************************************************************************)
(* What the operations of the manager do to resources_.                    *)
(***************************************************************************)
LEMMA AddsTheKey ==
  ASSUME NEW t, NEW key, NEW r
  PROVE  /\ DOMAIN do_add(t, key, r).resources = DOMAIN t.resources \cup {key}
         /\ \A k \in DOMAIN t.resources : do_add(t, key, r).resources[k] = t.resources[k]
         /\ key \notin DOMAIN t.resources => do_add(t, key, r).resources[key] = r
  BY DEF do_add, Emplace

LEMMA RemovesTheKey ==
  ASSUME NEW t, NEW key, NEW u \in do_remove(t, key)
  PROVE  /\ DOMAIN u.resources = DOMAIN t.resources \ {key}
         /\ \A k \in DOMAIN t.resources \ {key} : u.resources[k] = t.resources[k]
<1>1. u.resources = Erase(t.resources, key)
  BY DEF do_remove
<1> QED BY <1>1 DEF Erase, Restrict

\* What a lookup finds is an instance that was made.
LEMMA FindsAnInstance ==
  ASSUME TypeOK, NEW key, resource(table, key) # NoResource
  PROVE  /\ resource(table, key) \in 1..made
         /\ key \in DOMAIN table.resources => resource(table, key) = table.resources[key]
  BY DEF TypeOK, resource

\* A key of one part is its own shortcut.
LEMMA OwnShortcut ==
  ASSUME LocalKeys, NEW k \in Keys
  PROVE  get_shortcut_name(k) = k
<1>1. k \in Seq(STRING) /\ Len(k) = 1
  BY ConstantsAssumption DEF LocalKeys
<1>2. <<k[1]>> = k
  BY <1>1
<1> QED BY <1>1, <1>2 DEF get_shortcut_name

LEMMA RequestParts ==
  ASSUME NEW r \in Requests
  PROVE  /\ r.kind \in Orders \cup {"use", "ready"}
         /\ r.kind # "ready" => r.key \in Keys
  BY DEF Requests, Orders

\* The key of an order or of a component call.
LEMMA KeyOfRequest ==
  ASSUME Requested, NEW s \in Slots, req[s].kind \in Orders \cup {"use"}
  PROVE  req[s].key \in Keys
<1>1. req[s] \in Requests
  BY DEF Requested, Orders, NoRequest
<1> QED BY <1>1, RequestParts DEF Orders

\* Of local names, the handlers look up what was asked for.
LEMMA LooksItUp ==
  ASSUME LocalKeys, Requested, NEW s \in Slots,
         req[s].kind \in {"reconfigure", "remove", "use"}
  PROVE  resource(table, req[s].key) = resource(table, LookedUp(s))
<1>1. req[s].key \in Keys
  BY KeyOfRequest DEF Orders
<1> QED BY <1>1, OwnShortcut DEF LookedUp

-----------------------------------------------------------------------------
LEMMA InitIInv == Init => IInv
<1> SUFFICES ASSUME Init PROVE IInv
  OBVIOUS
<1>1. TypeOK
  <2>1. table.resources = << >> /\ made = 0 /\ stopped = {}
    BY DEF Init, EmptyTable
  <2>2. DOMAIN table.resources = {}
    BY <2>1
  <2>3. lock \in Slots \cup {NoSlot} /\ mlock \in Slots \cup {NoSlot}
    BY DEF Init
  <2>4. res \in [Slots -> 1..made \cup {NoResource}]
    BY DEF Init
  <2>5. made \in Nat /\ stopped \subseteq 1..made
    BY <2>1
  <2>6. pc \in [Slots -> {"idle"}]
    BY DEF Init
  <2> QED BY <2>2, <2>3, <2>4, <2>5, <2>6 DEF TypeOK
<1>2. Requested
  BY DEF Init, Requested
<1>3. LockHolders /\ ParentIsThere /\ InHand /\ Drains
  BY DEF Init, LockHolders, ParentIsThere, InHand, Drains
<1>4. Jobs
  BY DEF Init, Jobs
<1>5. OneAtATime /\ Settled
  BY DEF Init, OneAtATime, Settled, Ordered
<1> QED BY <1>1, <1>2, <1>3, <1>4, <1>5 DEF IInv

-----------------------------------------------------------------------------
\* Nothing the invariant is about changes.
LEMMA NothingChanges ==
  ASSUME IInv, UNCHANGED <<phase, locks, items, parent, frames, overlapping>>
  PROVE  IInv'
<1> USE DEF locks, items, frames
<1>1. TypeOK' /\ Requested' /\ LockHolders' /\ ParentIsThere'
  BY DEF IInv, TypeOK, Requested, LockHolders, ParentIsThere
<1>2. Jobs' /\ InHand' /\ Drains'
  BY DEF IInv, Jobs, InHand, Drains
<1>3. OneAtATime' /\ Settled'
  BY DEF IInv, OneAtATime, Settled, Ordered
<1> QED BY <1>1, <1>2, <1>3 DEF IInv

\* The process ends: what it had stays as it was.
LEMMA DeathKeeps ==
  ASSUME IInv, NEW how, Dies(how)
  PROVE  IInv'
  BY NothingChanges DEF Dies, link, server, main

(***************************************************************************)
(* A handler returns, in whatever way, and leaves the table as it is: the  *)
(* lock goes, and one handler fewer is under way.                          *)
(***************************************************************************)
LEMMA ReturnKeeps ==
  ASSUME IInv, NEW s \in Slots, NEW status, Returns(s, status),
         pc[s] \notin {"idle", "rebuild"},
         UNCHANGED <<mlock, items>>,
         parent' = parent \/ parent' # "none"
  PROVE  IInv'
<1>1. TypeOK'
  <2>1. pc' = [pc EXCEPT ![s] = "idle"] /\ res' = [res EXCEPT ![s] = NoResource]
    BY DEF Returns, Goto
  <2>2. lock' \in Slots \cup {NoSlot}
    BY DEF Returns, IInv, TypeOK
  <2> QED BY <2>1, <2>2 DEF IInv, TypeOK, items
<1>2. Requested' /\ Drains' /\ ParentIsThere' /\ Jobs'
  BY DEF IInv, TypeOK, Requested, Drains, ParentIsThere, Jobs, Returns, Goto, main
<1>3. LockHolders'
  <2>1. lock' # NoSlot => lock' = lock /\ lock # s
    BY SlotsAssumption DEF Returns
  <2>2. mlock # NoSlot => mlock # s
    BY DEF IInv, LockHolders
  <2> QED BY <2>1, <2>2 DEF IInv, TypeOK, LockHolders, Returns, Goto
<1>4. InHand'
  BY DEF IInv, TypeOK, InHand, Returns, Goto, items
<1>5. OneAtATime' /\ Settled'
  BY DEF IInv, TypeOK, OneAtATime, Settled, Ordered, Returns, Goto, items, server
<1> QED BY <1>1, <1>2, <1>3, <1>4, <1>5 DEF IInv

(***************************************************************************)
(* A handler goes on to another label, with nothing in its hands, the      *)
(* table as it is and lock_ either as it was or just taken.                *)
(***************************************************************************)
LEMMA GoKeeps ==
  ASSUME IInv, NEW s \in Slots, NEW label, Goto(s, label),
         pc[s] \in {"take_lock", "connect", "connecting", "dependencies", "dialling",
                    "refreshing"},
         label \in {"connect", "connecting", "dependencies", "dialling", "refreshing",
                    "construct", "lookup"},
         label \in {"connect", "connecting"} => req[s].kind = "ready",
         label \in {"dependencies", "dialling"} => req[s].kind \in {"add", "reconfigure"},
         label = "refreshing" => req[s].kind \in {"add", "reconfigure", "ready"},
         label = "construct" => req[s].kind = "add",
         label = "lookup" => req[s].kind = "reconfigure",
         lock' = lock \/ (lock' = s /\ req[s].kind \in {"add", "ready"}),
         UNCHANGED <<phase, mlock, items, req, res, overlapping>>,
         parent' = parent \/ parent' # "none",
         label = "refreshing" => parent' # "none"
  PROVE  IInv'
<1>1. TypeOK'
  <2>1. pc' = [pc EXCEPT ![s] = label]
    BY DEF Goto
  <2>2. lock' \in Slots \cup {NoSlot}
    BY DEF IInv, TypeOK
  <2> QED BY <2>1, <2>2 DEF IInv, TypeOK, items
<1>2. Requested' /\ Drains' /\ ParentIsThere'
  BY DEF IInv, TypeOK, Requested, Drains, ParentIsThere, Goto
<1>3. Jobs'
  BY DEF IInv, TypeOK, Jobs, Goto
<1>4. LockHolders'
  BY DEF IInv, TypeOK, LockHolders, Goto
<1>5. InHand' /\ OneAtATime' /\ Settled'
  BY DEF IInv, TypeOK, InHand, OneAtATime, Settled, Ordered, Goto, items
<1> QED BY <1>1, <1>2, <1>3, <1>4, <1>5 DEF IInv

-----------------------------------------------------------------------------
LEMMA ReceiveKeeps ==
  ASSUME IInv, NEW s \in Slots, NEW r \in Requests, Receive(s, r)
  PROVE  IInv'
<1>1. /\ pc' = [pc EXCEPT ![s] = pc'[s]] /\ req' = [req EXCEPT ![s] = r]
      /\ req'[s] = r /\ pc[s] = "idle" /\ phase = "serving"
      /\ UNCHANGED <<phase, lock, mlock, table, made, stopped, parent, res, overlapping>>
  BY DEF IInv, TypeOK, Requested, Receive, At, Goto, locks, items, link, main
<1>2. /\ r.kind \in {"add", "ready"} => pc'[s] = "take_lock"
      /\ r.kind = "reconfigure" => pc'[s] = "dependencies"
      /\ r.kind \in {"remove", "use"} => pc'[s] = "lookup"
      /\ r.kind \in {"add", "ready", "reconfigure", "remove", "use"}
  BY RequestParts DEF IInv, TypeOK, Receive, Goto, Orders
<1> HIDE DEF Receive
<1>3. TypeOK'
  BY <1>1, <1>2 DEF IInv, TypeOK
<1>4. Requested' /\ Jobs' /\ Drains' /\ ParentIsThere' /\ InHand'
  BY <1>1, <1>2 DEF IInv, TypeOK, Requested, Jobs, Drains, ParentIsThere, InHand
<1>5. LockHolders'
  BY <1>1, <1>2 DEF IInv, TypeOK, LockHolders, Requested
<1>6. OneAtATime'
  <2> SUFFICES ASSUME ~overlapping, NEW u \in Slots, NEW v \in Slots,
                      Ordered(u)', Ordered(v)', u # v
               PROVE  FALSE
    BY <1>1 DEF OneAtATime
  <2>1. \A w \in Slots \ {s} : Ordered(w)' <=> Ordered(w)
    BY <1>1 DEF IInv, TypeOK, Requested, Ordered
  <2>2. r.kind \in Orders => \A w \in Slots : ~Ordered(w)
    BY DEF Receive, Ordered
  <2>3. Ordered(s)' => r.kind \in Orders
    BY <1>1 DEF Ordered
  <2> QED BY <2>1, <2>2, <2>3 DEF IInv, OneAtATime
<1>7. Settled'
  BY <1>1, <1>2 DEF IInv, TypeOK, Requested, Settled, Ordered
<1> QED BY <1>3, <1>4, <1>5, <1>6, <1>7 DEF IInv

-----------------------------------------------------------------------------
(***************************************************************************)
(* lock_, Ready and get_dependencies_: the table stays as it is.           *)
(***************************************************************************)
LEMMA TakeLockKeeps ==
  ASSUME IInv, NEW s \in Slots, TakeLock(s)
  PROVE  IInv'
<1>1. req[s].kind \in {"add", "ready"} /\ pc[s] = "take_lock"
  BY DEF IInv, Jobs, TakeLock, At
<1>2. CASE req[s].kind = "add"
  BY <1>1, <1>2, GoKeeps DEF TakeLock, Is, link, server, main
<1>3. CASE req[s].kind = "ready"
  BY <1>1, <1>3, GoKeeps DEF TakeLock, Is, link, server, main
<1> QED BY <1>1, <1>2, <1>3

LEMMA ReadyKeeps ==
  ASSUME IInv, NEW s \in Slots,
         Connect(s) \/ Connected(s) \/ ConnectFails(s) \/ ParentLogs(s)
  PROVE  IInv'
<1>1. pc[s] \in {"connect", "connecting", "refreshing"} /\ req[s].kind = "ready"
  BY DEF IInv, Jobs, Connect, Connected, ConnectFails, ParentLogs, At, Is
<1>2. CASE Connect(s) /\ Goto(s, "connecting")
  <2>1. UNCHANGED <<phase, mlock, items, req, res, overlapping, lock, parent>>
    BY <1>2 DEF Connect, Goto, Returns, locks, server, main, At, IInv, TypeOK
  <2> QED BY <1>1, <1>2, <2>1, GoKeeps DEF Connect, At
<1>3. CASE (Connect(s) /\ Returns(s, "OK")) \/ ConnectFails(s)
  BY <1>1, <1>3, ReturnKeeps DEF Connect, ConnectFails, locks, link
<1>4. CASE Connected(s)
  <2>1. parent' # "none"
    BY <1>4 DEF Connected, Assign
  <2> QED BY <1>1, <1>4, <2>1, GoKeeps DEF Connected, locks, server, main
<1>5. CASE ParentLogs(s)
  BY <1>1, <1>5, ReturnKeeps DEF ParentLogs
<1> QED BY <1>2, <1>3, <1>4, <1>5 DEF Connect

LEMMA DependenciesKeep ==
  ASSUME IInv, NEW s \in Slots, Dependencies(s)
  PROVE  IInv'
<1>0. CASE ParentFreed(s)
  BY <1>0, DeathKeeps DEF ParentFreed
<1> SUFFICES ASSUME ~ParentFreed(s) PROVE IInv'
  BY <1>0
<1>1. /\ pc[s] \in {"dependencies", "dialling", "refreshing"}
      /\ req[s].kind \in {"add", "reconfigure"}
  BY DEF IInv, Jobs, Dependencies, NoDependencies, NeedsParent, UsesParent, ConnectsLazily,
         LazyConnected, LazyConnectFails, DependenciesFound, DependenciesMissing, At, Is
<1>2. /\ AfterDependencies(s) \in {"construct", "lookup"}
      /\ AfterDependencies(s) = "construct" => req[s].kind = "add"
      /\ AfterDependencies(s) = "lookup" => req[s].kind = "reconfigure"
  BY <1>1 DEF AfterDependencies, Is
<1>3. CASE NoDependencies(s) \/ DependenciesFound(s)
  BY <1>1, <1>2, <1>3, GoKeeps
     DEF NoDependencies, DependenciesFound, locks, link, server, main
<1>4. CASE UsesParent(s) \/ ConnectsLazily(s)
  BY <1>1, <1>4, GoKeeps DEF UsesParent, ConnectsLazily, locks, link, server, main
<1>5. CASE LazyConnected(s)
  <2>1. parent' # "none"
    BY <1>5 DEF LazyConnected, Assign
  <2> QED BY <1>1, <1>5, <2>1, GoKeeps DEF LazyConnected, locks, server, main
<1>6. CASE LazyConnectFails(s) \/ DependenciesMissing(s)
  BY <1>1, <1>6, ReturnKeeps DEF LazyConnectFails, DependenciesMissing, link
<1> QED BY <1>3, <1>4, <1>5, <1>6 DEF Dependencies

-----------------------------------------------------------------------------
(***************************************************************************)
(* AddResource.                                                            *)
(***************************************************************************)
LEMMA ConstructKeeps ==
  ASSUME IInv, NEW s \in Slots, Construct(s)
  PROVE  IInv'
<1>1. /\ pc[s] = "construct" /\ req[s].kind = "add"
      /\ pc' = [pc EXCEPT ![s] = "register"] /\ res' = [res EXCEPT ![s] = made + 1]
      /\ made' = made + 1
      /\ UNCHANGED <<phase, lock, mlock, table, stopped, parent, req, overlapping>>
  BY DEF IInv, Jobs, Construct, At, Goto, locks, link, server, main
<1>2. TypeOK'
  <2>0. made \in Nat
    BY DEF IInv, TypeOK
  <2>1. made' \in Nat /\ made + 1 \in 1..made' /\ 1..made \subseteq 1..made'
    BY <1>1, <2>0
  <2>2. res' \in [Slots -> 1..made' \cup {NoResource}]
    BY <1>1, <2>1 DEF IInv, TypeOK
  <2>3. pc' \in [Slots -> {"idle", "take_lock", "connect", "connecting", "dependencies",
                       "dialling", "refreshing", "construct", "register", "lookup", "invoke",
                       "stop", "replace", "rebuild", "remove"}]
    BY <1>1 DEF IInv, TypeOK
  <2>4. /\ stopped' \subseteq 1..made' /\ DOMAIN table'.resources \subseteq Keys
        /\ \A k \in DOMAIN table'.resources : table'.resources[k] \in 1..made'
    BY <1>1, <2>1 DEF IInv, TypeOK
  <2> QED BY <1>1, <2>1, <2>2, <2>3, <2>4 DEF IInv, TypeOK
<1>3. Requested' /\ LockHolders' /\ ParentIsThere' /\ Jobs' /\ Drains'
  BY <1>1 DEF IInv, TypeOK, Requested, LockHolders, ParentIsThere, Jobs, Drains
<1>4. InHand'
  <2>1. made \in Nat
    BY DEF IInv, TypeOK
  <2>2. made + 1 \in 1..made' /\ 1..made \subseteq 1..made'
    BY <1>1, <2>1
  <2>3. /\ pc'[s] = "register" /\ res'[s] = made + 1
        /\ \A u \in Slots \ {s} : pc'[u] = pc[u] /\ res'[u] = res[u]
    BY <1>1 DEF IInv, TypeOK
  <2> QED BY <2>2, <2>3 DEF IInv, InHand
<1>5. OneAtATime' /\ Settled'
  BY <1>1 DEF IInv, TypeOK, OneAtATime, Settled, Ordered
<1> QED BY <1>2, <1>3, <1>4, <1>5 DEF IInv

(***************************************************************************)
(* A handler returns and takes the table on to the next one, by one step   *)
(* of the manager: an instance that was made is entered, or one is taken   *)
(* out.  If orders do not overlap, no other handler has looked anything up *)
(* that changes.                                                           *)
(***************************************************************************)
LEMMA ChangeKeeps ==
  ASSUME IInv, NEW s \in Slots, NEW label \in {"idle", "rebuild"},
         pc[s] \notin {"idle", "rebuild"} \/ mlock' = NoSlot,
         Ordered(s), req[s].key \in Keys,
         label = "rebuild" =>
           req[s].kind = "reconfigure" /\ mlock' = s /\ lock' = lock /\ req' = req,
         label = "idle" => mlock' = mlock \/ mlock' = NoSlot,
         label = "idle" => (IF lock = s THEN lock' = NoSlot ELSE lock' = lock),
         phase' \in {phase}, Goto(s, label),
         res' = res \/ res' = [res EXCEPT ![s] = NoResource],
         made' \in Nat, made <= made',
         DOMAIN table'.resources \subseteq DOMAIN table.resources \cup {req[s].key},
         \A k \in DOMAIN table'.resources : table'.resources[k] \in 1..made',
         req' = req \/ req' = [req EXCEPT ![s] = NoRequest],
         UNCHANGED <<stopped, parent, overlapping>>
  PROVE  IInv'
<1>1. pc' = [pc EXCEPT ![s] = label] /\ phase' = phase
  BY DEF Goto
<1>0. /\ pc'[s] = label /\ \A u \in Slots \ {s} : pc'[u] = pc[u] /\ req'[u] = req[u]
      /\ Ordered(s)' => Ordered(s)
  BY <1>1 DEF IInv, TypeOK, Requested, Ordered
<1>2. 1..made \subseteq 1..made'
  <2>1. made \in Nat
    BY DEF IInv, TypeOK
  <2> QED BY <2>1
<1>3. TypeOK'
  <2>1. res' \in [Slots -> 1..made' \cup {NoResource}]
    BY <1>2 DEF IInv, TypeOK
  <2>2. pc' \in [Slots -> {"idle", "take_lock", "connect", "connecting", "dependencies",
                       "dialling", "refreshing", "construct", "register", "lookup", "invoke",
                       "stop", "replace", "rebuild", "remove"}]
    BY <1>1 DEF IInv, TypeOK
  <2>3. lock' \in Slots \cup {NoSlot} /\ mlock' \in Slots \cup {NoSlot}
    BY DEF IInv, TypeOK
  <2>4. stopped' \subseteq 1..made' /\ DOMAIN table'.resources \subseteq Keys
    BY <1>2 DEF IInv, TypeOK
  <2> QED BY <2>1, <2>2, <2>3, <2>4 DEF TypeOK
<1>4. Requested' /\ Drains' /\ ParentIsThere' /\ Jobs'
  BY <1>1 DEF IInv, TypeOK, Requested, Drains, ParentIsThere, Jobs, Ordered
<1>5. LockHolders'
  <2>1. CASE label = "rebuild"
    BY <1>1, <2>1 DEF IInv, TypeOK, LockHolders
  <2>2. CASE label = "idle"
    <3>1. lock' # NoSlot => lock' = lock /\ lock # s
      BY <2>2, SlotsAssumption
    <3>2. mlock' # NoSlot => mlock' = mlock /\ mlock # s
      BY <2>2 DEF IInv, LockHolders
    <3> QED BY <1>3, <1>0, <3>1, <3>2 DEF IInv, TypeOK, LockHolders
  <2> QED BY <2>1, <2>2
<1>6. InHand'
  BY <1>1, <1>2 DEF IInv, TypeOK, InHand
<1>7. OneAtATime'
  BY <1>0 DEF IInv, OneAtATime, Ordered
<1>8. Settled'
  <2> SUFFICES ASSUME LocalKeys, ~overlapping, NEW u \in Slots, Ordered(u)', u # s
               PROVE  FALSE
    BY <1>0 DEF Settled, Ordered
  <2>1. Ordered(u)
    BY <1>0 DEF Ordered
  <2> QED BY <2>1 DEF IInv, OneAtATime
<1> QED BY <1>3, <1>4, <1>5, <1>6, <1>7, <1>8 DEF IInv

LEMMA RegisterKeeps ==
  ASSUME IInv, NEW s \in Slots, Register(s)
  PROVE  IInv'
<1>1. /\ pc[s] = "register" /\ req[s].kind = "add" /\ Ordered(s)
      /\ req[s].key \in Keys /\ res[s] \in 1..made
  <2>1. pc[s] = "register"
    BY DEF Register, At
  <2>2. req[s].kind = "add" /\ res[s] \in 1..made
    BY <2>1 DEF IInv, Jobs, InHand
  <2> QED BY <2>1, <2>2, KeyOfRequest DEF IInv, Ordered, Orders
<1>2. CASE Returns(s, "INTERNAL") /\ UNCHANGED <<mlock, items, link>>
  BY <1>1, <1>2, ReturnKeeps DEF link
<1>3. CASE /\ ~AddThrows(table, req[s].key)
           /\ table' = do_add(table, req[s].key, res[s])
           /\ Returns(s, "OK")
           /\ UNCHANGED <<mlock, made, stopped, link>>
  <2>1. req[s].key \notin DOMAIN table.resources
    BY <1>3 DEF AddThrows
  <2>0. made \in Nat /\ \A k \in DOMAIN table.resources : table.resources[k] \in 1..made
    BY DEF IInv, TypeOK
  <2>2. /\ DOMAIN table'.resources = DOMAIN table.resources \cup {req[s].key}
        /\ \A k \in DOMAIN table.resources : table'.resources[k] = table.resources[k]
        /\ table'.resources[req[s].key] = res[s]
    BY <1>3, <2>1 DEF do_add, Emplace
  <2>4. \A k \in DOMAIN table'.resources : table'.resources[k] \in 1..made'
    BY <1>1, <1>3, <2>0, <2>2
  <2>3. made' \in Nat /\ made <= made'
    BY <1>3, <2>0
  <2> QED BY <1>1, <1>3, <2>2, <2>3, <2>4, ChangeKeeps DEF Returns, link, server, main
<1> QED BY <1>2, <1>3 DEF Register

LEMMA AddKeeps ==
  ASSUME IInv, NEW s \in Slots, Add(s)
  PROVE  IInv'
<1>1. CASE Construct(s)
  BY <1>1, ConstructKeeps
<1>2. CASE ConstructorThrows(s)
  BY <1>2, ReturnKeeps DEF ConstructorThrows, At, link
<1>3. CASE ConstructsNothing(s)
  <2>1. CASE Dies("null resource added")
    BY <2>1, DeathKeeps
  <2>2. CASE Returns(s, "INTERNAL") /\ UNCHANGED <<mlock, items, link>>
    BY <1>3, <2>2, ReturnKeeps DEF ConstructsNothing, At, link
  <2> QED BY <1>3, <2>1, <2>2 DEF ConstructsNothing
<1>4. CASE Register(s)
  BY <1>4, RegisterKeeps
<1> QED BY <1>1, <1>2, <1>3, <1>4 DEF Add

-----------------------------------------------------------------------------
(***************************************************************************)
(* ReconfigureResource, RemoveResource and component calls.                *)
(***************************************************************************)
LEMMA LookupKeeps ==
  ASSUME IInv, NEW s \in Slots, Lookup(s)
  PROVE  IInv'
<1> DEFINE found == resource(table, LookedUp(s))
           next  == IF Is(s, "use") THEN "invoke" ELSE "stop"
<1>1. pc[s] = "lookup" /\ req[s].kind \in {"reconfigure", "remove", "use"}
  BY DEF Lookup, At, IInv, Jobs
<1>2. CASE found = NoResource
  <2>1. \E status : Returns(s, status) /\ UNCHANGED <<mlock, items, link>>
    BY <1>2 DEF Lookup
  <2> QED BY <1>1, <2>1, ReturnKeeps DEF link
<1>3. CASE found # NoResource
  <2>1. /\ pc' = [pc EXCEPT ![s] = next] /\ res' = [res EXCEPT ![s] = found]
        /\ UNCHANGED <<phase, lock, mlock, table, made, stopped, parent, req, overlapping>>
    BY <1>3 DEF Lookup, Goto, locks, items, link, server, main
  <2>2. /\ found \in 1..made
        /\ LocalKeys /\ req[s].key \in DOMAIN table.resources =>
             found = table.resources[req[s].key]
    <3>1. found \in 1..made
      BY <1>3, FindsAnInstance DEF IInv
    <3>2. ASSUME LocalKeys, req[s].key \in DOMAIN table.resources
          PROVE  found = table.resources[req[s].key]
      BY <1>1, <3>2, LooksItUp DEF IInv, resource
    <3> QED BY <3>1, <3>2
  <2>3. /\ next \in {"invoke", "stop"}
        /\ next = "invoke" => req[s].kind = "use"
        /\ next = "stop" => req[s].kind \in {"reconfigure", "remove"}
    BY <1>1 DEF Is
  <2> HIDE DEF found, next
  <2>4. TypeOK'
    BY <2>1, <2>2, <2>3 DEF IInv, TypeOK
  <2>5. Requested' /\ Drains' /\ ParentIsThere' /\ Jobs'
    BY <1>1, <2>1, <2>3
       DEF IInv, TypeOK, Requested, Drains, ParentIsThere, Jobs
  <2>6. LockHolders' /\ InHand'
    BY <1>1, <2>1, <2>2, <2>3 DEF IInv, TypeOK, LockHolders, InHand
  <2>7. OneAtATime'
    BY <1>1, <2>1 DEF IInv, TypeOK, OneAtATime, Ordered
  <2>8. Settled'
    BY <1>1, <2>1, <2>2, <2>3 DEF IInv, TypeOK, Settled, Ordered
  <2> QED BY <2>4, <2>5, <2>6, <2>7, <2>8 DEF IInv
<1> QED BY <1>2, <1>3

LEMMA StopKeeps ==
  ASSUME IInv, NEW s \in Slots, Stop(s)
  PROVE  IInv'
<1> DEFINE next == IF Is(s, "reconfigure") THEN "replace" ELSE "remove"
<1>1. /\ pc[s] = "stop" /\ req[s].kind \in {"reconfigure", "remove"}
      /\ res[s] \in 1..made /\ Ordered(s)
  BY DEF Stop, At, IInv, Jobs, InHand, Ordered, Orders
<1>2. /\ pc' = [pc EXCEPT ![s] = next] /\ stopped' = stopped \cup {res[s]}
      /\ res' = [res EXCEPT ![s] = NoResource] \/ res' = res
      /\ UNCHANGED <<phase, lock, mlock, table, made, parent, req, overlapping>>
  BY DEF IInv, TypeOK, Stop, Goto, locks, link, server, main
<1>3. /\ next \in {"replace", "remove"}
      /\ next = "replace" => req[s].kind = "reconfigure"
      /\ next = "remove" => req[s].kind = "remove"
  BY <1>1 DEF Is
<1> HIDE DEF next
<1>4. TypeOK'
  BY <1>1, <1>2, <1>3 DEF IInv, TypeOK
<1>5. Requested' /\ Drains' /\ ParentIsThere' /\ Jobs'
  BY <1>1, <1>2, <1>3 DEF IInv, TypeOK, Requested, Drains, ParentIsThere, Jobs
<1>6. LockHolders' /\ InHand'
  BY <1>1, <1>2, <1>3 DEF IInv, TypeOK, LockHolders, InHand
<1>7. OneAtATime'
  BY <1>1, <1>2 DEF IInv, TypeOK, OneAtATime, Ordered
<1>8. Settled'
  <2> SUFFICES ASSUME LocalKeys, ~overlapping, NEW u \in Slots, Ordered(u)',
                      req[u].key \in DOMAIN table.resources
               PROVE  /\ pc'[u] = "stop" => res'[u] = table.resources[req[u].key]
                      /\ pc'[u] \in {"replace", "remove"} =>
                           table.resources[req[u].key] \in stopped'
    BY <1>2 DEF Settled
  <2>1. u = s
    BY <1>1, <1>2 DEF IInv, TypeOK, OneAtATime, Ordered
  <2>2. res[s] = table.resources[req[s].key]
    BY <1>1, <2>1 DEF IInv, Settled
  <2>3. pc'[s] # "stop"
    BY <1>2, <1>3 DEF IInv, TypeOK
  <2> QED BY <1>2, <2>1, <2>2, <2>3
<1> QED BY <1>4, <1>5, <1>6, <1>7, <1>8 DEF IInv

LEMMA ReplaceOneKeeps ==
  ASSUME IInv, NEW s \in Slots, ReplaceOne(s)
  PROVE  IInv'
<1>1. /\ pc[s] = "replace" /\ req[s].kind = "reconfigure" /\ Ordered(s)
      /\ req[s].key \in Keys
  BY KeyOfRequest DEF ReplaceOne, At, IInv, Jobs, Ordered, Orders
<1>2. CASE RemoveThrows(table, req[s].key)
  BY <1>1, <1>2, ReturnKeeps DEF ReplaceOne, link
<1>3. CASE ~RemoveThrows(table, req[s].key)
  <2>1. /\ table' \in do_remove(table, req[s].key) /\ mlock' = s /\ Goto(s, "rebuild")
        /\ UNCHANGED <<phase, lock, made, stopped, parent, req, res, overlapping>>
    BY <1>3 DEF ReplaceOne, link, server, main
  <2>0. /\ made \in Nat
        /\ \A k \in DOMAIN table.resources : table.resources[k] \in 1..made
    BY DEF IInv, TypeOK
  <2>2. made <= made
    BY <2>0
  <2>3. /\ DOMAIN table'.resources \subseteq DOMAIN table.resources
        /\ \A k \in DOMAIN table'.resources : table'.resources[k] = table.resources[k]
    BY <2>1, RemovesTheKey
  <2>4. \A k \in DOMAIN table'.resources : table'.resources[k] \in 1..made'
    BY <2>0, <2>1, <2>3
  <2> QED BY <1>1, <2>0, <2>1, <2>2, <2>3, <2>4, ChangeKeeps
<1> QED BY <1>2, <1>3

LEMMA RebuildKeeps ==
  ASSUME IInv, NEW s \in Slots, Rebuild(s) \/ RebuildThrows(s)
  PROVE  IInv'
<1>1. /\ pc[s] = "rebuild" /\ Ordered(s) /\ req[s].key \in Keys
      /\ made \in Nat /\ \A k \in DOMAIN table.resources : table.resources[k] \in 1..made
  BY KeyOfRequest DEF Rebuild, RebuildThrows, At, IInv, TypeOK, Jobs, Ordered, Orders
<1>2. /\ mlock' = NoSlot /\ Goto(s, "idle") /\ phase' = phase
      /\ res' = [res EXCEPT ![s] = NoResource]
      /\ IF lock = s THEN lock' = NoSlot ELSE lock' = lock
      /\ req' = [req EXCEPT ![s] = NoRequest]
      /\ UNCHANGED <<stopped, parent, overlapping>>
  BY DEF Rebuild, RebuildThrows, Returns, items, link, server, main
<1>3. CASE Rebuild(s)
  <2>1. table' = do_add(table, req[s].key, made + 1) /\ made' = made + 1
    BY <1>3 DEF Rebuild
  <2>2. /\ DOMAIN table'.resources = DOMAIN table.resources \cup {req[s].key}
        /\ \A k \in DOMAIN table'.resources :
             table'.resources[k] = made + 1 \/ (k \in DOMAIN table.resources
                                              /\ table'.resources[k] = table.resources[k])
    BY <2>1 DEF do_add, Emplace
  <2>3. /\ made' \in Nat /\ made <= made' /\ made + 1 \in 1..made'
        /\ 1..made \subseteq 1..made'
    BY <1>1, <2>1
  <2>4. \A k \in DOMAIN table'.resources : table'.resources[k] \in 1..made'
    BY <1>1, <2>2, <2>3
  <2> QED BY <1>1, <1>2, <2>2, <2>3, <2>4, ChangeKeeps
<1>4. CASE RebuildThrows(s)
  <2>1. UNCHANGED <<table, made>> /\ made <= made
    BY <1>1, <1>4 DEF RebuildThrows, items
  <2> QED BY <1>1, <1>2, <2>1, ChangeKeeps
<1> QED BY <1>3, <1>4

LEMMA RemoveKeeps ==
  ASSUME IInv, NEW s \in Slots, Remove(s)
  PROVE  IInv'
<1>0. /\ made \in Nat
      /\ \A k \in DOMAIN table.resources : table.resources[k] \in 1..made
  BY DEF IInv, TypeOK
<1>1. pc[s] = "remove" /\ Ordered(s) /\ req[s].key \in Keys
  BY KeyOfRequest DEF Remove, At, IInv, Jobs, Ordered, Orders
<1>2. /\ Goto(s, "idle") /\ phase' = phase
      /\ res' = [res EXCEPT ![s] = NoResource]
      /\ IF lock = s THEN lock' = NoSlot ELSE lock' = lock
      /\ req' = [req EXCEPT ![s] = NoRequest]
      /\ UNCHANGED <<stopped, parent, overlapping, made, mlock>>
  BY DEF Remove, Returns, link, server, main
<1>3. /\ DOMAIN table'.resources \subseteq DOMAIN table.resources
      /\ \A k \in DOMAIN table'.resources : table'.resources[k] = table.resources[k]
  BY RemovesTheKey DEF Remove
<1>4. \A k \in DOMAIN table'.resources : table'.resources[k] \in 1..made'
  BY <1>0, <1>2, <1>3
<1>5. made <= made
  BY <1>0
<1> QED BY <1>0, <1>1, <1>2, <1>3, <1>4, <1>5, ChangeKeeps

LEMMA ChangeStepKeeps ==
  ASSUME IInv, NEW s \in Slots, Change(s)
  PROVE  IInv'
<1>1. CASE Lookup(s)
  BY <1>1, LookupKeeps
<1>2. CASE Invoke(s)
  BY <1>2, ReturnKeeps DEF Invoke, At, link
<1>3. CASE Stop(s)
  BY <1>3, StopKeeps
<1>4. CASE StopThrows(s) \/ NoModel(s)
  BY <1>4, ReturnKeeps DEF StopThrows, NoModel, At, link
<1>5. CASE ReplaceOne(s)
  BY <1>5, ReplaceOneKeeps
<1>6. CASE Rebuild(s) \/ RebuildThrows(s)
  BY <1>6, RebuildKeeps
<1>7. CASE Remove(s)
  BY <1>7, RemoveKeeps
<1> QED BY <1>1, <1>2, <1>3, <1>4, <1>5, <1>6, <1>7 DEF Change

-----------------------------------------------------------------------------
\* The signal, serve() and the destructor.
LEMMA MainThreadKeeps ==
  ASSUME IInv, Signalled \/ MainThread
  PROVE  IInv'
<1>1. /\ UNCHANGED <<locks, items, frames, overlapping>>
      /\ phase' \in {"drained", "gone"} => \A s \in Slots : pc[s] = "idle"
      /\ parent' = parent \/ phase = "drained"
  BY DEF IInv, Drains, Signalled, MainThread, Start, WaitEnds, Drained, ParentReset, Phase,
         server, link
<1> USE DEF locks, items, frames
<1>2. TypeOK' /\ Requested' /\ LockHolders' /\ Drains'
  BY <1>1 DEF IInv, TypeOK, Requested, LockHolders, Drains
<1>3. ParentIsThere'
  BY <1>1 DEF IInv, ParentIsThere, Drains
<1>4. Jobs' /\ InHand'
  BY <1>1 DEF IInv, Jobs, InHand
<1>5. OneAtATime' /\ Settled'
  BY <1>1 DEF IInv, OneAtATime, Settled, Ordered
<1> QED BY <1>2, <1>3, <1>4, <1>5 DEF IInv

LEMMA NextIInv == IInv /\ [Next]_vars => IInv'
<1> SUFFICES ASSUME IInv, [Next]_vars PROVE IInv'
  OBVIOUS
<1>1. ASSUME NEW s \in Slots, NEW r \in Requests, Receive(s, r) PROVE IInv'
  BY <1>1, ReceiveKeeps
<1>2. ASSUME NEW s \in Slots, Handler(s) PROVE IInv'
  <2>1. CASE TakeLock(s)
    BY <2>1, TakeLockKeeps
  <2>2. CASE Connect(s) \/ Connected(s) \/ ConnectFails(s) \/ ParentLogs(s)
    BY <2>2, ReadyKeeps
  <2>3. CASE Dependencies(s)
    BY <2>3, DependenciesKeep
  <2>4. CASE Add(s)
    BY <2>4, AddKeeps
  <2>5. CASE Change(s)
    BY <2>5, ChangeStepKeeps
  <2> QED BY <1>2, <2>1, <2>2, <2>3, <2>4, <2>5 DEF Handler
<1>3. CASE Signalled \/ MainThread
  BY <1>3, MainThreadKeeps
<1>4. CASE UNCHANGED vars
  BY <1>4, NothingChanges DEF vars, link, server, main
<1> QED BY <1>1, <1>2, <1>3, <1>4 DEF Next

LEMMA Invariance == Spec => []IInv
  BY InitIInv, NextIInv, PTL DEF Spec

-----------------------------------------------------------------------------
(***************************************************************************)
(* The handlers stay at their labels; what the table and the handlers have *)
(* are instances that were constructed.                                    *)
(***************************************************************************)
THEOREM ModuleTypeOK == Spec => []TypeOK
<1>1. IInv => TypeOK
  BY DEF IInv
<1> QED BY Invariance, <1>1, PTL

-----------------------------------------------------------------------------
(***************************************************************************)
(* The action properties.  Four steps change the table; the rest leave it, *)
(* and which resources are being rebuilt, as they are.                     *)
(***************************************************************************)
Rest(s) ==
  \/ TakeLock(s) \/ Connect(s) \/ Connected(s) \/ ConnectFails(s) \/ ParentLogs(s)
  \/ Dependencies(s) \/ Construct(s) \/ ConstructorThrows(s) \/ ConstructsNothing(s)
  \/ Lookup(s) \/ Invoke(s) \/ Stop(s) \/ StopThrows(s) \/ NoModel(s) \/ RebuildThrows(s)

\* Whoever rebuilds after a step that keeps table did so before, for the same key.
Calm ==
  /\ table' = table
  /\ \A s \in Slots : pc'[s] = "rebuild" => pc[s] = "rebuild" /\ req'[s] = req[s]

LEMMA RestIsCalm ==
  ASSUME IInv, NEW s \in Slots, Rest(s)
  PROVE  Calm
<1>1. pc = [u \in Slots |-> pc[u]] /\ req = [u \in Slots |-> req[u]]
  BY DEF IInv, TypeOK, Requested
<1> USE DEF Calm, Goto, Returns, items, frames
<1>2. CASE TakeLock(s) \/ Connect(s) \/ Connected(s) \/ ConnectFails(s) \/ ParentLogs(s)
  BY <1>1, <1>2 DEF TakeLock, Connect, Connected, ConnectFails, ParentLogs
<1>3. CASE NoDependencies(s) \/ UsesParent(s) \/ ConnectsLazily(s)
             \/ LazyConnected(s) \/ LazyConnectFails(s)
  BY <1>1, <1>3
     DEF NoDependencies, UsesParent, ConnectsLazily, LazyConnected, LazyConnectFails,
         AfterDependencies
<1>4. CASE DependenciesFound(s) \/ DependenciesMissing(s) \/ ParentFreed(s)
  BY <1>1, <1>4
     DEF DependenciesFound, DependenciesMissing, ParentFreed, AfterDependencies, Dies
<1>5. CASE Construct(s) \/ ConstructorThrows(s) \/ ConstructsNothing(s)
  BY <1>1, <1>5 DEF Construct, ConstructorThrows, ConstructsNothing, Dies
<1>6. CASE Lookup(s) \/ Invoke(s) \/ Stop(s)
  BY <1>1, <1>6 DEF Lookup, Invoke, Stop
<1>7. CASE StopThrows(s) \/ NoModel(s) \/ RebuildThrows(s)
  BY <1>1, <1>7 DEF StopThrows, NoModel, RebuildThrows
<1> QED BY <1>2, <1>3, <1>4, <1>5, <1>6, <1>7 DEF Rest, Dependencies

LEMMA StepsOfTheTable ==
  ASSUME IInv, [Next]_vars
  PROVE  \/ Calm
         \/ \E s \in Slots : Register(s) \/ ReplaceOne(s) \/ Rebuild(s) \/ Remove(s)
<1>1. ASSUME NEW s \in Slots, NEW r \in Requests, Receive(s, r) PROVE Calm
  <2>1. pc'[s] # "rebuild"
    BY <1>1 DEF Receive, Goto, IInv, TypeOK
  <2>2. \A u \in Slots \ {s} : pc'[u] = pc[u] /\ req'[u] = req[u]
    BY <1>1 DEF Receive, Goto, IInv, TypeOK, Requested
  <2> QED BY <1>1, <2>1, <2>2 DEF Calm, Receive, items
<1>2. ASSUME NEW s \in Slots, Handler(s)
      PROVE  Rest(s) \/ Register(s) \/ ReplaceOne(s) \/ Rebuild(s) \/ Remove(s)
  BY <1>2 DEF Handler, Rest, Add, Change
<1>3. CASE Signalled \/ MainThread \/ UNCHANGED vars
  BY <1>3 DEF Signalled, MainThread, Start, WaitEnds, Drained, ParentReset, vars, items,
              frames, Calm
<1> QED BY <1>1, <1>2, <1>3, RestIsCalm DEF Next

LEMMA CalmAddsNothing ==
  ASSUME Calm
  PROVE  Present' \subseteq Present
  BY DEF Calm, Present

(***************************************************************************)
(* Only AddResource makes a resource appear, for any number of handlers    *)
(* that overlap.                                                           *)
(***************************************************************************)
THEOREM OnlyAddsAdd == Spec => OnlyAddAdds
<1> DEFINE Brings(k) == \E s \in Slots : pc[s] = "register" /\ Is(s, "add") /\ req[s].key = k
           A == \A k \in Present' \ Present : Brings(k)
<1>1. ASSUME IInv, [Next]_vars PROVE A
  <2>1. CASE Calm
    BY <2>1, CalmAddsNothing
  <2>2. ASSUME NEW s \in Slots, Register(s) PROVE A
    <3>1. pc[s] = "register" /\ Is(s, "add")
      BY <1>1, <2>2 DEF Register, At, Is, IInv, Jobs
    <3>2. DOMAIN table'.resources \subseteq DOMAIN table.resources \cup {req[s].key}
      BY <2>2 DEF Register, Returns, items, do_add, Emplace
    <3>3. \A u \in Slots : pc'[u] = "rebuild" => pc[u] = "rebuild" /\ req'[u] = req[u]
      BY <1>1, <2>2 DEF Register, Returns, Goto, IInv, TypeOK, Requested
    <3> QED BY <3>1, <3>2, <3>3 DEF Present
  <2>3. ASSUME NEW s \in Slots, ReplaceOne(s) PROVE A
    <3>1. \A u \in Slots : pc'[u] = "rebuild" =>
                             (pc[u] = "rebuild" \/ u = s) /\ req'[u] = req[u]
      BY <1>1, <2>3 DEF ReplaceOne, Returns, Goto, IInv, TypeOK, Requested
    <3>2. CASE RemoveThrows(table, req[s].key)
      <4>1. table' = table /\ pc'[s] # "rebuild"
        BY <1>1, <2>3, <3>2 DEF ReplaceOne, Returns, Goto, items, IInv, TypeOK
      <4> QED BY <3>1, <4>1 DEF Present
    <3>3. CASE ~RemoveThrows(table, req[s].key)
      <4>1. /\ req[s].key \in DOMAIN table.resources
            /\ DOMAIN table'.resources \subseteq DOMAIN table.resources
        BY <2>3, <3>3, RemovesTheKey DEF ReplaceOne, RemoveThrows
      <4> QED BY <3>1, <4>1 DEF Present
    <3> QED BY <3>2, <3>3
  <2>4. ASSUME NEW s \in Slots, Rebuild(s) PROVE A
    <3>1. \A u \in Slots : pc'[u] = "rebuild" => pc[u] = "rebuild" /\ req'[u] = req[u]
      BY <1>1, <2>4 DEF Rebuild, Returns, Goto, IInv, TypeOK, Requested
    <3>2. /\ pc[s] = "rebuild"
          /\ DOMAIN table'.resources \subseteq DOMAIN table.resources \cup {req[s].key}
      BY <2>4 DEF Rebuild, At, do_add, Emplace
    <3> QED BY <3>1, <3>2 DEF Present
  <2>5. ASSUME NEW s \in Slots, Remove(s) PROVE A
    <3>1. \A u \in Slots : pc'[u] = "rebuild" => pc[u] = "rebuild" /\ req'[u] = req[u]
      BY <1>1, <2>5 DEF Remove, Returns, Goto, IInv, TypeOK, Requested
    <3>2. DOMAIN table'.resources \subseteq DOMAIN table.resources
      BY <2>5, RemovesTheKey DEF Remove
    <3> QED BY <3>1, <3>2 DEF Present
  <2> QED BY <1>1, <2>1, <2>2, <2>3, <2>4, <2>5, StepsOfTheTable
<1>2. IInv /\ [Next]_vars => [A]_vars
  BY <1>1
<1> QED BY <1>2, Invariance, PTL DEF Spec, OnlyAddAdds

(***************************************************************************)
(* With one order at a time, no instance of a local name leaves the table  *)
(* unstopped.                                                              *)
(***************************************************************************)
THEOREM StoppedBeforeTheyGo ==
  ASSUME LocalKeys
  PROVE  Spec => StoppedBeforeGone
<1> DEFINE Leaves(k) == k \in DOMAIN table'.resources =>
                          table'.resources[k] # table.resources[k]
           A == ~overlapping =>
                  \A k \in DOMAIN table.resources :
                    Leaves(k) => table.resources[k] \in stopped
<1>1. ASSUME IInv, [Next]_vars PROVE A
  <2>1. CASE Calm
    BY <2>1 DEF Calm
  <2>2. ASSUME NEW s \in Slots, Register(s) \/ Rebuild(s) PROVE A
    BY <2>2 DEF Register, Rebuild, Returns, items, do_add, Emplace
  <2>3. ASSUME NEW s \in Slots, ReplaceOne(s) \/ Remove(s) PROVE A
    <3>1. pc[s] \in {"replace", "remove"} /\ Ordered(s)
      BY <1>1, <2>3 DEF ReplaceOne, Remove, At, IInv, Jobs, Ordered, Orders
    <3>2. ~overlapping /\ req[s].key \in DOMAIN table.resources =>
            table.resources[req[s].key] \in stopped
      BY <1>1, <3>1 DEF IInv, Settled
    <3>3. table' = table \/ table' \in do_remove(table, req[s].key)
      BY <2>3 DEF ReplaceOne, Remove, items
    <3> QED BY <3>2, <3>3, RemovesTheKey
  <2> QED BY <1>1, <2>1, <2>2, <2>3, StepsOfTheTable
<1>2. IInv /\ [Next]_vars => [A]_vars
  BY <1>1
<1> QED BY <1>2, Invariance, PTL DEF Spec, StoppedBeforeGone

-----------------------------------------------------------------------------
(***************************************************************************)
(* No return or exception of a handler leaves lock_ or the manager's lock  *)
(* behind, whatever the other handlers do.  The two are taken in one order *)
(* only: who has the manager's waits for nobody, and who has lock_ waits   *)
(* at most for the manager's.                                              *)
(***************************************************************************)
THEOREM LocksAlwaysReturned == Spec => []LocksAreReturned
<1>1. ASSUME IInv PROVE NoCircularWait
  <2> SUFFICES ASSUME NEW S \in (SUBSET Slots) \ {{}}
               PROVE  \E s \in S : \A u \in S : ~WaitsFor(s, u)
    BY DEF NoCircularWait
  <2>1. CASE mlock \in S
    <3>1. pc[mlock] = "rebuild"
      BY <1>1, <2>1, SlotsAssumption DEF IInv, LockHolders
    <3>2. \A u \in S : ~WaitsFor(mlock, u)
      BY <3>1 DEF WaitsFor
    <3> QED BY <2>1, <3>2
  <2>2. CASE mlock \notin S /\ lock \in S
    <3>1. pc[lock] # "take_lock"
      BY <1>1, <2>2, SlotsAssumption DEF IInv, LockHolders
    <3>2. \A u \in S : ~WaitsFor(lock, u)
      BY <2>2, <3>1 DEF WaitsFor
    <3> QED BY <2>2, <3>2
  <2>3. CASE mlock \notin S /\ lock \notin S
    <3>1. \A s, u \in S : ~WaitsFor(s, u)
      BY <2>3 DEF WaitsFor
    <3> QED BY <3>1
  <2> QED BY <2>1, <2>2, <2>3
<1>2. IInv => LocksAreReturned
  BY <1>1 DEF IInv, LocksAreReturned
<1> QED BY <1>2, Invariance, PTL

-----------------------------------------------------------------------------
(***************************************************************************)
(* parent_.  AddResource and Ready have lock_ from take_lock on; a parent_ *)
(* is assigned by a handler that is not in the old one, so that whoever is *)
(* torn is still inside, and is none of the two if it has an order.        *)
(***************************************************************************)
LockKept ==
  \A s \in Slots :
    req[s].kind \in {"add", "ready"} /\ pc[s] \notin {"idle", "take_lock"} => lock = s

TornInside ==
  /\ torn \in [Slots -> BOOLEAN]
  /\ \A s \in Slots : torn[s] => pc[s] = "refreshing"

Kept == LockKept /\ TornInside /\ AddKeepsItsParent

\* A handler goes on, or returns and gives lock_ back if it has it.
LEMMA GoingKeeps ==
  ASSUME IInv, Kept, NEW s \in Slots, NEW label, Goto(s, label),
         pc[s] \notin {"idle", "take_lock"}, label # "take_lock",
         overlapping' = overlapping,
         req' = req \/ (label = "idle" /\ req' = [req EXCEPT ![s] = NoRequest]),
         \/ torn' = torn /\ pc[s] # "refreshing"
         \/ torn' = [torn EXCEPT ![s] = FALSE],
         \/ lock' = lock
         \/ label = "idle" /\ lock' = IF lock = s THEN NoSlot ELSE lock
  PROVE  Kept'
<1>1. pc'[s] = label /\ \A u \in Slots \ {s} : pc'[u] = pc[u] /\ req'[u] = req[u]
  BY DEF Goto, IInv, TypeOK, Requested
<1>2. LockKept'
  BY <1>1 DEF Kept, LockKept
<1>3. /\ torn' \in [Slots -> BOOLEAN] /\ ~torn'[s]
      /\ \A u \in Slots \ {s} : torn'[u] = torn[u]
  BY DEF Kept, TornInside
<1>4. TornInside'
  BY <1>1, <1>3 DEF Kept, TornInside
<1>5. AddKeepsItsParent'
  BY <1>1, <1>3 DEF Kept, AddKeepsItsParent, Is
<1> QED BY <1>2, <1>4, <1>5 DEF Kept

LEMMA ReturnKeepsParent ==
  ASSUME IInv, Kept, NEW s \in Slots, NEW status, Returns(s, status),
         pc[s] \notin {"idle", "take_lock"},
         \/ torn' = torn /\ pc[s] # "refreshing"
         \/ torn' = [torn EXCEPT ![s] = FALSE]
  PROVE  Kept'
  BY GoingKeeps DEF Returns, server

LEMMA OthersKeepParent ==
  ASSUME Kept, UNCHANGED <<lock, pc, req, torn, overlapping>>
  PROVE  Kept'
  BY DEF Kept, LockKept, TornInside, AddKeepsItsParent, Is

LEMMA ReceiveKeepsParent ==
  ASSUME IInv, Kept, NEW s \in Slots, NEW r \in Requests, Receive(s, r)
  PROVE  Kept'
<1>1. /\ pc[s] = "idle" /\ UNCHANGED <<lock, torn, overlapping>>
      /\ req'[s] = r /\ \A u \in Slots \ {s} : pc'[u] = pc[u] /\ req'[u] = req[u]
  BY DEF Receive, At, Goto, IInv, TypeOK, Requested, locks, link
<1>2. r.kind \in {"add", "ready"} => pc'[s] = "take_lock"
  BY DEF Receive, Goto, IInv, TypeOK
<1>3. ~torn[s]
  BY <1>1 DEF Kept, TornInside
<1> QED BY <1>1, <1>2, <1>3 DEF Kept, LockKept, TornInside, AddKeepsItsParent, Is

LEMMA TakeLockKeepsParent ==
  ASSUME IInv, Kept, NEW s \in Slots, TakeLock(s)
  PROVE  Kept'
<1>1. /\ pc[s] = "take_lock" /\ lock = NoSlot /\ lock' = s
      /\ UNCHANGED <<req, torn, overlapping>>
      /\ \A u \in Slots \ {s} : pc'[u] = pc[u]
  BY DEF TakeLock, At, Goto, IInv, TypeOK, link, server
<1>2. LockKept'
  BY <1>1, SlotsAssumption DEF Kept, LockKept
<1>3. ~torn[s]
  BY <1>1 DEF Kept, TornInside
<1> QED BY <1>1, <1>2, <1>3 DEF Kept, TornInside, AddKeepsItsParent, Is

\* Who assigns parent_ is Ready, with lock_, or one order, the only one.
LEMMA AssignKeepsParent ==
  ASSUME IInv, Kept, NEW s \in Slots, Connected(s) \/ LazyConnected(s)
  PROVE  Kept'
<1>1. /\ pc[s] \in {"connecting", "dialling"}
      /\ pc[s] = "connecting" => req[s].kind = "ready"
      /\ pc[s] = "dialling" => req[s].kind \in {"add", "reconfigure"}
  BY DEF Connected, LazyConnected, At, IInv, Jobs
<1>2. /\ torn' = [u \in Slots |-> torn[u] \/ (u # s /\ pc[u] = "refreshing")]
      /\ UNCHANGED <<lock, req, overlapping>>
      /\ pc'[s] = "refreshing" /\ \A u \in Slots \ {s} : pc'[u] = pc[u]
  BY DEF Connected, LazyConnected, Assign, Goto, locks, server, IInv, TypeOK
<1>3. LockKept'
  BY <1>1, <1>2 DEF Kept, LockKept
<1>4. TornInside'
  BY <1>1, <1>2 DEF Kept, TornInside
<1>5. AddKeepsItsParent'
  <2> SUFFICES ASSUME ~overlapping, NEW u \in Slots, u # s, pc[u] = "refreshing",
                      Is(u, "add")
               PROVE  FALSE
    BY <1>2 DEF Kept, AddKeepsItsParent, Is
  <2>1. lock = u
    BY DEF Kept, LockKept, Is
  <2>2. lock # s
    BY <2>1
  <2>3. req[s].kind = "reconfigure"
    BY <1>1, <2>2 DEF Kept, LockKept
  <2> QED BY <1>1, <2>3 DEF IInv, OneAtATime, Ordered, Orders, Is
<1> QED BY <1>3, <1>4, <1>5 DEF Kept

LEMMA HandlerKeepsParent ==
  ASSUME IInv, Kept, NEW s \in Slots, Handler(s)
  PROVE  Kept'
<1>0. \/ pc[s] \notin {"idle", "take_lock"} \/ TakeLock(s)
  BY DEF Handler, Connect, Connected, ConnectFails, ParentLogs, Dependencies, NoDependencies,
         NeedsParent, UsesParent, ConnectsLazily, LazyConnected, LazyConnectFails,
         DependenciesFound, DependenciesMissing, ParentFreed, Add, Construct,
         ConstructorThrows, ConstructsNothing, Register, Change, Lookup, Invoke, Stop,
         StopThrows, NoModel, ReplaceOne, Rebuild, RebuildThrows, Remove, At
<1>1. CASE TakeLock(s)
  BY <1>1, TakeLockKeepsParent
<1>2. CASE Connect(s) \/ ConnectFails(s)
  <2>1. pc[s] # "refreshing" /\ torn' = torn
    BY <1>2 DEF Connect, ConnectFails, At, link
  <2>2. CASE \E status : Returns(s, status)
    BY <1>0, <1>2, <2>1, <2>2, ReturnKeepsParent DEF TakeLock, Connect, ConnectFails, At
  <2>3. CASE Goto(s, "connecting") /\ UNCHANGED <<main, locks, items, parent, torn, req, res, reply, server, fate>>
    BY <1>0, <1>2, <2>1, <2>3, GoingKeeps
       DEF TakeLock, Connect, ConnectFails, At, locks, server
  <2> QED BY <1>2, <2>2, <2>3 DEF Connect, ConnectFails
<1>3. CASE Connected(s) \/ LazyConnected(s)
  BY <1>3, AssignKeepsParent
<1>4. CASE ParentLogs(s) \/ DependenciesMissing(s)
  BY <1>4, ReturnKeepsParent DEF ParentLogs, DependenciesMissing, At
<1>5. CASE NoDependencies(s) \/ UsesParent(s) \/ ConnectsLazily(s)
  <2>1. /\ pc[s] = "dependencies" /\ UNCHANGED <<lock, req, overlapping, torn>>
        /\ \E label \in {"construct", "lookup", "refreshing", "dialling"} : Goto(s, label)
    BY <1>5 DEF NoDependencies, UsesParent, ConnectsLazily, NeedsParent, At, AfterDependencies,
                locks, link, server
  <2> QED BY <2>1, GoingKeeps
<1>6. CASE DependenciesFound(s)
  <2>1. /\ pc[s] = "refreshing" /\ UNCHANGED <<lock, req, overlapping>>
        /\ torn' = [torn EXCEPT ![s] = FALSE]
        /\ \E label \in {"construct", "lookup"} : Goto(s, label)
    BY <1>6 DEF DependenciesFound, At, AfterDependencies, locks, server
  <2> QED BY <2>1, GoingKeeps
<1>7. CASE LazyConnectFails(s) \/ ConstructorThrows(s) \/ Invoke(s) \/ StopThrows(s) \/ NoModel(s)
             \/ Register(s) \/ Rebuild(s) \/ RebuildThrows(s) \/ Remove(s)
  <2>1. /\ pc[s] \notin {"idle", "take_lock", "refreshing"} /\ torn' = torn
        /\ \E status : Returns(s, status)
    BY <1>7 DEF LazyConnectFails, ConstructorThrows, Invoke, StopThrows, NoModel, Register,
                Rebuild, RebuildThrows, Remove, At, link
  <2> QED BY <2>1, ReturnKeepsParent
<1>8. CASE Construct(s) \/ Stop(s)
  <2>1. /\ pc[s] \in {"construct", "stop"} /\ UNCHANGED <<lock, req, overlapping, torn>>
        /\ \E label \in {"register", "replace", "remove"} : Goto(s, label)
    BY <1>8 DEF Construct, Stop, At, locks, link, server
  <2> QED BY <2>1, GoingKeeps
<1>9. CASE Lookup(s) \/ ReplaceOne(s)
  <2>1. /\ pc[s] \in {"lookup", "replace"} /\ torn' = torn
        /\ \/ \E status : Returns(s, status)
           \/ /\ UNCHANGED <<lock, req, overlapping>>
              /\ \E label \in {"invoke", "stop", "rebuild"} : Goto(s, label)
    BY <1>9 DEF Lookup, ReplaceOne, At, locks, link, server
  <2> QED BY <2>1, GoingKeeps, ReturnKeepsParent
<1>10. CASE ConstructsNothing(s) \/ ParentFreed(s)
  <2>1. \/ UNCHANGED <<lock, pc, req, torn, overlapping>>
        \/ pc[s] = "construct" /\ torn' = torn /\ \E status : Returns(s, status)
    BY <1>10 DEF ConstructsNothing, ParentFreed, At, Dies, locks, link, frames, server
  <2> QED BY <2>1, OthersKeepParent, ReturnKeepsParent
<1> QED BY <1>1, <1>2, <1>3, <1>4, <1>5, <1>6, <1>7, <1>8, <1>9, <1>10
        DEF Handler, Dependencies, Add, Change

(***************************************************************************)
(* The destructor takes parent_ from no handler, and, with one order at a  *)
(* time, nobody takes it from an AddResource.                              *)
(***************************************************************************)
THEOREM ParentOutlives == Spec => []ParentOutlivesHandlers
<1>1. Init => Kept
  BY DEF Init, Kept, LockKept, TornInside, AddKeepsItsParent, Is
<1>2. ASSUME IInv, Kept, [Next]_vars PROVE Kept'
  <2>1. ASSUME NEW s \in Slots, NEW r \in Requests, Receive(s, r) PROVE Kept'
    BY <1>2, <2>1, ReceiveKeepsParent
  <2>2. ASSUME NEW s \in Slots, Handler(s) PROVE Kept'
    BY <1>2, <2>2, HandlerKeepsParent
  <2>3. CASE Signalled \/ MainThread \/ UNCHANGED vars
    <3>1. UNCHANGED <<lock, pc, req, torn, overlapping>>
      BY <2>3 DEF Signalled, MainThread, Start, WaitEnds, Drained, ParentReset, vars, locks,
                  link, frames, server
    <3> QED BY <1>2, <3>1, OthersKeepParent
  <2> QED BY <1>2, <2>1, <2>2, <2>3 DEF Next
<1>3. IInv /\ Kept /\ [Next]_vars => Kept'
  BY <1>2
<1>4. IInv /\ Kept => ParentOutlivesHandlers
  BY DEF IInv, Kept, ParentOutlivesHandlers
<1> QED BY <1>1, <1>3, <1>4, Invariance, PTL DEF Spec

-----------------------------------------------------------------------------
(***************************************************************************)
(* What is in hand.  replace_one keeps the manager's lock from the removal *)
(* to the addition, so that the key stays out of the table in between; and *)
(* a handler has an instance only where it works on one.                   *)
(***************************************************************************)
Rebuilding == \A s \in Slots : pc[s] = "rebuild" => mlock = s

Taken == \A s \in Slots : pc[s] = "rebuild" => req[s].key \notin DOMAIN table.resources

Held ==
  \A s \in Slots : res[s] # NoResource => pc[s] \in {"register", "invoke", "stop", "remove"}

Clear == Rebuilding /\ Taken /\ Held

\* A step outside of replace_one that keeps the table.
LEMMA CalmKeepsClear ==
  ASSUME IInv, Clear, NEW s \in Slots, NEW label, Goto(s, label),
         "rebuild" \notin {pc[s], label},
         UNCHANGED <<mlock, table, req>>,
         \A u \in Slots \ {s} : res'[u] = res[u],
         res'[s] # NoResource => label \in {"register", "invoke", "stop", "remove"}
  PROVE  Clear'
<1>1. pc'[s] = label /\ \A u \in Slots \ {s} : pc'[u] = pc[u]
  BY DEF Goto, IInv, TypeOK
<1> QED BY <1>1 DEF Clear, Rebuilding, Taken, Held

\* A handler that returns, with the manager's lock free.
LEMMA ReturnKeepsClear ==
  ASSUME IInv, Clear, NEW s \in Slots, NEW status, Returns(s, status),
         \/ pc[s] # "rebuild" /\ UNCHANGED <<mlock, table>>
         \/ mlock \in {NoSlot, s} /\ mlock' = NoSlot
  PROVE  Clear'
<1>1. /\ pc'[s] = "idle" /\ \A u \in Slots \ {s} : pc'[u] = pc[u] /\ res'[u] = res[u]
      /\ res'[s] = NoResource /\ \A u \in Slots \ {s} : req'[u] = req[u]
  BY DEF Returns, Goto, IInv, TypeOK, Requested
<1>2. CASE pc[s] # "rebuild" /\ UNCHANGED <<mlock, table>>
  BY <1>1, <1>2 DEF Clear, Rebuilding, Taken, Held
<1>3. CASE mlock \in {NoSlot, s} /\ mlock' = NoSlot
  <2>1. \A u \in Slots : pc'[u] # "rebuild"
    BY <1>1, <1>3, SlotsAssumption DEF Clear, Rebuilding
  <2> QED BY <1>1, <2>1 DEF Clear, Rebuilding, Taken, Held
<1> QED BY <1>2, <1>3

LEMMA OthersKeepClear ==
  ASSUME Clear, UNCHANGED <<mlock, table, pc, req, res>>
  PROVE  Clear'
  BY DEF Clear, Rebuilding, Taken, Held

LEMMA ReceiveKeepsClear ==
  ASSUME IInv, Clear, NEW s \in Slots, NEW r \in Requests, Receive(s, r)
  PROVE  Clear'
<1>1. /\ pc[s] = "idle" /\ pc'[s] # "rebuild" /\ UNCHANGED <<mlock, table, res>>
      /\ \A u \in Slots \ {s} : pc'[u] = pc[u] /\ req'[u] = req[u]
  BY DEF Receive, At, Goto, IInv, TypeOK, Requested, locks, items
<1>2. res[s] = NoResource
  BY <1>1 DEF Clear, Held
<1> QED BY <1>1, <1>2 DEF Clear, Rebuilding, Taken, Held

LEMMA ReplaceOneKeepsClear ==
  ASSUME IInv, Clear, NEW s \in Slots, ReplaceOne(s)
  PROVE  Clear'
<1>1. pc[s] = "replace" /\ mlock = NoSlot
  BY DEF ReplaceOne, At
<1>2. CASE RemoveThrows(table, req[s].key)
  BY <1>1, <1>2, ReturnKeepsClear DEF ReplaceOne, items
<1>3. CASE ~RemoveThrows(table, req[s].key)
  <2>1. /\ mlock' = s /\ table' \in do_remove(table, req[s].key)
        /\ pc'[s] = "rebuild" /\ \A u \in Slots \ {s} : pc'[u] = pc[u]
        /\ UNCHANGED <<req, res>>
    BY <1>3 DEF ReplaceOne, Goto, IInv, TypeOK
  <2>2. DOMAIN table'.resources = DOMAIN table.resources \ {req[s].key}
    BY <2>1, RemovesTheKey
  <2>3. \A u \in Slots : pc[u] # "rebuild"
    BY <1>1, SlotsAssumption DEF Clear, Rebuilding
  <2>4. res[s] = NoResource
    BY <1>1 DEF Clear, Held
  <2>5. Rebuilding' /\ Taken' /\ Held'
    BY <2>1, <2>2, <2>3, <2>4 DEF Clear, Rebuilding, Taken, Held
  <2> QED BY <2>5 DEF Clear
<1> QED BY <1>2, <1>3

LEMMA HandlerKeepsClear ==
  ASSUME IInv, Clear, NEW s \in Slots, Handler(s)
  PROVE  Clear'
<1>1. CASE TakeLock(s) \/ Connected(s) \/ NoDependencies(s) \/ UsesParent(s)
             \/ ConnectsLazily(s) \/ LazyConnected(s) \/ DependenciesFound(s)
  <2>1. /\ pc[s] \notin {"rebuild", "register", "invoke", "stop", "remove"}
        /\ UNCHANGED <<mlock, table, req, res>>
        /\ \E label \in {"dependencies", "connect", "refreshing", "dialling", "construct",
                         "lookup"} : Goto(s, label)
    BY <1>1 DEF TakeLock, Connected, NoDependencies, UsesParent, NeedsParent, ConnectsLazily,
                LazyConnected, DependenciesFound, AfterDependencies, At, locks, items
  <2>2. res[s] = NoResource
    BY <2>1 DEF Clear, Held
  <2> QED BY <2>1, <2>2, CalmKeepsClear
<1>2. CASE ConnectFails(s) \/ ParentLogs(s) \/ LazyConnectFails(s) \/ DependenciesMissing(s)
             \/ ConstructorThrows(s) \/ Invoke(s) \/ StopThrows(s) \/ NoModel(s)
  <2>1. /\ pc[s] # "rebuild" /\ UNCHANGED <<mlock, table>>
        /\ \E status : Returns(s, status)
    BY <1>2 DEF ConnectFails, ParentLogs, LazyConnectFails, DependenciesMissing,
                ConstructorThrows, Invoke, StopThrows, NoModel, At, items
  <2> QED BY <2>1, ReturnKeepsClear
<1>3. CASE Register(s) \/ Rebuild(s) \/ RebuildThrows(s) \/ Remove(s)
  <2>1. /\ mlock' = NoSlot /\ \E status : Returns(s, status)
        /\ mlock = NoSlot \/ pc[s] = "rebuild"
    BY <1>3 DEF Register, Rebuild, RebuildThrows, Remove, At
  <2> QED BY <2>1, ReturnKeepsClear DEF Clear, Rebuilding
<1>4. CASE Connect(s)
  <2>1. /\ pc[s] = "connect" /\ UNCHANGED <<mlock, table>>
        /\ (\E status : Returns(s, status)) \/ (Goto(s, "connecting") /\ UNCHANGED <<req, res>>)
    BY <1>4 DEF Connect, At, locks, items
  <2>2. res[s] = NoResource
    BY <2>1 DEF Clear, Held
  <2> QED BY <2>1, <2>2, ReturnKeepsClear, CalmKeepsClear
<1>5. CASE Construct(s) \/ Stop(s)
  <2>1. /\ pc[s] \in {"construct", "stop"} /\ UNCHANGED <<mlock, table, req>>
        /\ \A u \in Slots \ {s} : res'[u] = res[u]
    BY <1>5 DEF Construct, Stop, At, locks, IInv, TypeOK
  <2>2. \/ \E label \in {"register", "remove"} : Goto(s, label)
        \/ Goto(s, "replace") /\ res'[s] = NoResource
    BY <1>5 DEF Construct, Stop, IInv, TypeOK
  <2> QED BY <2>1, <2>2, CalmKeepsClear
<1>6. CASE Lookup(s)
  <2>1. /\ pc[s] = "lookup" /\ UNCHANGED <<mlock, table>>
        /\ \/ \E status : Returns(s, status)
           \/ /\ req' = req /\ \A u \in Slots \ {s} : res'[u] = res[u]
              /\ \E label \in {"invoke", "stop"} : Goto(s, label)
    BY <1>6 DEF Lookup, At, locks, items, IInv, TypeOK
  <2> QED BY <2>1, ReturnKeepsClear, CalmKeepsClear
<1>7. CASE ReplaceOne(s)
  BY <1>7, ReplaceOneKeepsClear
<1>8. CASE ConstructsNothing(s) \/ ParentFreed(s)
  <2>1. \/ UNCHANGED <<mlock, table, pc, req, res>>
        \/ pc[s] = "construct" /\ UNCHANGED <<mlock, table>> /\ \E status : Returns(s, status)
    BY <1>8 DEF ConstructsNothing, ParentFreed, At, Dies, locks, items, frames
  <2> QED BY <2>1, OthersKeepClear, ReturnKeepsClear
<1> QED BY <1>1, <1>2, <1>3, <1>4, <1>5, <1>6, <1>7, <1>8
        DEF Handler, Dependencies, Add, Change

(***************************************************************************)
(* When the new instance is constructed the old one has left the table     *)
(* and, with one order at a time, every scope but those of the calls that  *)
(* are still running on it.                                                *)
(***************************************************************************)
THEOREM OldAlwaysGoneBeforeNew == Spec => []OldGoneBeforeNew
<1>1. Init => Clear
  BY DEF Init, Clear, Rebuilding, Taken, Held
<1>2. ASSUME IInv, Clear, [Next]_vars PROVE Clear'
  <2>1. ASSUME NEW s \in Slots, NEW r \in Requests, Receive(s, r) PROVE Clear'
    BY <1>2, <2>1, ReceiveKeepsClear
  <2>2. ASSUME NEW s \in Slots, Handler(s) PROVE Clear'
    BY <1>2, <2>2, HandlerKeepsClear
  <2>3. CASE Signalled \/ MainThread \/ UNCHANGED vars
    <3>1. UNCHANGED <<mlock, table, pc, req, res>>
      BY <2>3 DEF Signalled, MainThread, Start, WaitEnds, Drained, ParentReset, vars, locks,
                  items, frames, server
    <3> QED BY <1>2, <3>1, OthersKeepClear
  <2> QED BY <1>2, <2>1, <2>2, <2>3 DEF Next
<1>3. ASSUME IInv, Clear PROVE OldGoneBeforeNew
  <2> SUFFICES ASSUME NEW s \in Slots, pc[s] = "rebuild"
               PROVE  /\ req[s].key \notin DOMAIN table.resources
                      /\ ~overlapping => \A u \in Slots : res[u] # NoResource => Is(u, "use")
    BY DEF OldGoneBeforeNew
  <2>1. req[s].key \notin DOMAIN table.resources
    BY <1>3 DEF Clear, Taken
  <2>2. ASSUME ~overlapping, NEW u \in Slots, res[u] # NoResource PROVE Is(u, "use")
    <3>1. pc[u] \in {"register", "invoke", "stop", "remove"} /\ u # s
      BY <1>3, <2>2 DEF Clear, Held
    <3>2. Ordered(s)
      BY <1>3 DEF IInv, Jobs, Ordered, Orders
    <3>3. ~Ordered(u)
      BY <1>3, <2>2, <3>1, <3>2 DEF IInv, OneAtATime
    <3> QED BY <1>3, <3>1, <3>3 DEF IInv, Jobs, Ordered, Orders, Is
  <2> QED BY <2>1, <2>2
<1>4. IInv /\ Clear /\ [Next]_vars => Clear'
  BY <1>2
<1>5. IInv /\ Clear => OldGoneBeforeNew
  BY <1>3
<1> QED BY <1>1, <1>4, <1>5, Invariance, PTL DEF Spec
=============================================================================
