------------------------ MODULE ModuleContractProofs ------------------------
(***************************************************************************)
(* ModuleService implements ModuleContract, for any number of handlers and *)
(* requests, when the resources of a module have local names, that is,     *)
(* keys of one part, as viam-server gives them.  With others a lookup by   *)
(* short name could find a resource that the removal by key then misses.   *)
(*                                                                         *)
(* What a request does to the set of resources that are Present it does in *)
(* the step that answers it: the entry that replace_one takes out stays    *)
(* Present under the manager's lock, which whoever else looks must wait    *)
(* for.  So most steps are hidden, and the others are those of Returns.    *)
(***************************************************************************)
EXTENDS ModuleServiceProofs

NoShortcuts == DOMAIN table.short_names = {}

\* One order at a time finds the resource where its lookup did.
Changing == {"stop", "replace", "remove"}
Found ==
  ~overlapping =>
    \A s \in Slots : pc[s] \in Changing => req[s].key \in DOMAIN table.resources

CInv == IInv /\ Rebuilding /\ NoShortcuts /\ Found

-----------------------------------------------------------------------------
(***************************************************************************)
(* Keys of one part have no shortcuts.                                     *)
(***************************************************************************)
LEMMA AddKeepsNoShortcuts ==
  ASSUME LocalKeys, NoShortcuts, NEW k \in Keys, NEW r
  PROVE  DOMAIN do_add(table, k, r).short_names = {}
  BY OwnShortcut DEF do_add, NoShortcuts

LEMMA RemoveKeepsNoShortcuts ==
  ASSUME LocalKeys, NoShortcuts, NEW k \in Keys, NEW u \in do_remove(table, k)
  PROVE  DOMAIN u.short_names = {}
<1>1. Heirs(table, k) = {}
  BY OwnShortcut DEF Heirs
<1>2. u.short_names = Erase(table.short_names, get_shortcut_name(k))
  BY <1>1 DEF do_remove
<1> QED BY <1>2 DEF Erase, Restrict, NoShortcuts

LEMMA LookupsFindWhatIsThere ==
  ASSUME IInv, NoShortcuts, NEW k
  PROVE  resource(table, k) = NoResource <=> k \notin DOMAIN table.resources
<1>1. \A x \in DOMAIN table.resources : table.resources[x] # NoResource
  <2>1. made \in Nat /\ \A x \in DOMAIN table.resources : table.resources[x] \in 1..made
    BY DEF IInv, TypeOK
  <2>2. \A i \in 1..made : i \in Nat
    BY <2>1
  <2> QED BY <2>1, <2>2, NullAssumption
<1> QED BY <1>1 DEF resource, NoShortcuts

-----------------------------------------------------------------------------
(***************************************************************************)
(* The resources that are Present.                                         *)
(***************************************************************************)
LEMMA PresentWhenFree ==
  ASSUME Rebuilding, mlock = NoSlot
  PROVE  /\ Present = DOMAIN table.resources
         /\ \A s \in Slots : pc[s] # "rebuild"
<1>1. \A s \in Slots : pc[s] # "rebuild"
  BY SlotsAssumption DEF Rebuilding
<1> QED BY <1>1 DEF Present

LEMMA PresentInRebuild ==
  ASSUME Rebuilding, NEW s \in Slots, pc[s] = "rebuild"
  PROVE  /\ Present = DOMAIN table.resources \cup {req[s].key}
         /\ \A u \in Slots \ {s} : pc[u] # "rebuild"
<1>1. \A u \in Slots \ {s} : pc[u] # "rebuild"
  BY DEF Rebuilding
<1> QED BY <1>1 DEF Present

-----------------------------------------------------------------------------
(***************************************************************************)
(* A step that keeps the table, and is not one of replace_one.             *)
(***************************************************************************)
LEMMA KeepsTheTable ==
  ASSUME CInv, NEW s \in Slots, NEW label, Goto(s, label),
         "rebuild" \notin {pc[s], label},
         UNCHANGED <<mlock, table, overlapping>>,
         \A u \in Slots : u # s \/ label # "idle" => req'[u] = req[u],
         label \in Changing => pc[s] \in Changing \/ req[s].key \in DOMAIN table.resources
  PROVE  Rebuilding' /\ NoShortcuts' /\ Found' /\ Present' = Present
<1>1. pc'[s] = label /\ \A u \in Slots \ {s} : pc'[u] = pc[u]
  BY DEF Goto, CInv, IInv, TypeOK
<1>2. Rebuilding'
  BY <1>1 DEF Rebuilding, CInv
<1>3. NoShortcuts'
  BY DEF NoShortcuts, CInv
<1>4. Found'
  BY <1>1 DEF Found, CInv, Changing
<1>5. {req'[u].key : u \in {v \in Slots : pc'[v] = "rebuild"}}
        = {req[u].key : u \in {v \in Slots : pc[v] = "rebuild"}}
  BY <1>1
<1>6. Present' = Present
  BY <1>5 DEF Present
<1> QED BY <1>2, <1>3, <1>4, <1>6

\* A handler at work has a request of a kind.
LEMMA AtWork ==
  ASSUME IInv, NEW s \in Slots, pc[s] # "idle"
  PROVE  /\ Unanswered[s] = req[s]
         /\ req[s].kind \in Orders \cup {"use", "ready"}
  BY DEF IInv, TypeOK, Jobs, Unanswered, Orders

\* A handler returns, with its request.
LEMMA Leaving ==
  ASSUME IInv, NEW s \in Slots, NEW status, Returns(s, status)
  PROVE  /\ Goto(s, "idle") /\ pc'[s] = "idle" /\ overlapping' = overlapping
         /\ \A u \in Slots \ {s} : pc'[u] = pc[u] /\ req'[u] = req[u]
  BY DEF Returns, Goto, server, IInv, TypeOK, Requested

\* What viam-server does not see.
LEMMA Hidden ==
  ASSUME IInv, NEW s \in Slots, NEW label, Goto(s, label),
         "idle" \notin {pc[s], label},
         UNCHANGED <<req, reply, overlapping>>,
         Present' = Present
  PROVE  UNCHANGED Contract!vars
<1>1. Unanswered' = Unanswered
  BY DEF Goto, Unanswered, IInv, TypeOK
<1> QED BY <1>1 DEF Contract!vars

\* What it sees.
LEMMA Answered ==
  ASSUME IInv, NEW s \in Slots, NEW status, Returns(s, status)
  PROVE  Contract!Answer(s, status)
<1>1. Unanswered' = [Unanswered EXCEPT ![s] = NoRequest]
  BY Leaving DEF Unanswered
<1> QED BY <1>1 DEF Returns, server, Contract!Answer, Contract!Nothing, NoRequest

-----------------------------------------------------------------------------
(***************************************************************************)
(* Each step keeps what CInv adds to IInv, and is hidden or an answer.     *)
(***************************************************************************)
CSteps ==
  /\ Rebuilding' /\ NoShortcuts' /\ Found'
  /\ Contract!Next \/ UNCHANGED Contract!vars

LEMMA HiddenStep ==
  ASSUME CInv, NEW s \in Slots, NEW label, Goto(s, label),
         pc[s] \notin {"idle", "rebuild"}, label \notin {"idle", "rebuild"},
         UNCHANGED <<mlock, table, req, reply, overlapping>>,
         label \in Changing => pc[s] \in Changing \/ req[s].key \in DOMAIN table.resources
  PROVE  CSteps
<1>1. Rebuilding' /\ NoShortcuts' /\ Found' /\ Present' = Present
  BY KeepsTheTable
<1>2. UNCHANGED Contract!vars
  BY <1>1, Hidden DEF CInv
<1> QED BY <1>1, <1>2 DEF CSteps

\* A request that is answered and changes nothing.
Innocent(kind, status) ==
  \/ kind \in {"add", "reconfigure"} /\ status \in {"INTERNAL", "UNKNOWN"}
  \/ kind = "remove" /\ status = "UNKNOWN"
  \/ kind = "use" /\ status \in {"OK", "INTERNAL"}
  \/ kind = "ready" /\ status \in {"OK", "UNKNOWN"}

LEMMA InnocentAnswer ==
  ASSUME CInv, NEW s \in Slots, NEW status, Returns(s, status),
         pc[s] # "idle", Innocent(req[s].kind, status), Present' = Present
  PROVE  Contract!Next
<1>1. Contract!Answer(s, status) /\ Unanswered[s] = req[s]
  BY Answered, AtWork DEF CInv
<1>2. status \in {"INTERNAL", "UNKNOWN"} => Contract!Refuse(s, {"INTERNAL", "UNKNOWN"})
  BY <1>1 DEF Contract!Refuse
<1>3. status = "UNKNOWN" => Contract!Refuse(s, {"UNKNOWN"})
  BY <1>1 DEF Contract!Refuse
<1>4. status = "INTERNAL" => Contract!Refuse(s, {"INTERNAL"})
  BY <1>1 DEF Contract!Refuse
<1>5. CASE req[s].kind \in {"add", "reconfigure"}
  BY <1>1, <1>2, <1>5
     DEF Innocent, Contract!Next, Contract!AddResource, Contract!ReconfigureResource, Contract!Asked
<1>6. CASE req[s].kind = "remove"
  BY <1>1, <1>3, <1>6 DEF Innocent, Contract!Next, Contract!RemoveResource, Contract!Asked
<1>7. CASE req[s].kind = "use"
  BY <1>1, <1>4, <1>7 DEF Innocent, Contract!Next, Contract!Call, Contract!Asked
<1>8. CASE req[s].kind = "ready"
  BY <1>1, <1>3, <1>8 DEF Innocent, Contract!Next, Contract!Ready, Contract!Asked
<1> QED BY <1>5, <1>6, <1>7, <1>8 DEF Innocent

LEMMA InnocentStep ==
  ASSUME CInv, NEW s \in Slots, NEW status, Returns(s, status),
         pc[s] \notin {"idle", "rebuild"}, Innocent(req[s].kind, status),
         UNCHANGED <<mlock, table>>
  PROVE  CSteps
<1>1. Rebuilding' /\ NoShortcuts' /\ Found' /\ Present' = Present
  BY Leaving, KeepsTheTable DEF CInv, Changing
<1> QED BY <1>1, InnocentAnswer DEF CSteps

\* Nothing of this changes.
LEMMA NothingSeen ==
  ASSUME CInv, UNCHANGED <<mlock, table, frames, overlapping>>
  PROVE  CSteps
<1> USE DEF frames
<1>1. Rebuilding' /\ NoShortcuts' /\ Found'
  BY DEF CInv, Rebuilding, NoShortcuts, Found
<1>2. UNCHANGED Contract!vars
  BY DEF Contract!vars, Unanswered, Present
<1> QED BY <1>1, <1>2 DEF CSteps

LEMMA Death ==
  ASSUME CInv, NEW how, Dies(how)
  PROVE  CSteps
  BY NothingSeen DEF Dies, items, locks, server

-----------------------------------------------------------------------------
LEMMA ReceiveStep ==
  ASSUME CInv, NEW s \in Slots, NEW r \in Requests, Receive(s, r)
  PROVE  CSteps
<1>1. /\ pc[s] = "idle" /\ pc'[s] \notin {"idle", "rebuild"} \cup Changing
      /\ \A u \in Slots \ {s} : pc'[u] = pc[u] /\ req'[u] = req[u]
      /\ req' = [req EXCEPT ![s] = r] /\ reply' = [reply EXCEPT ![s] = "none"]
      /\ UNCHANGED <<mlock, table, overlapping>>
  BY DEF Receive, At, Goto, locks, items, CInv, IInv, TypeOK, Requested, Changing
<1>2. Rebuilding' /\ NoShortcuts' /\ Found'
  BY <1>1 DEF CInv, Rebuilding, NoShortcuts, Found, Changing
<1>3. Present' = Present
  <2>1. {req'[u].key : u \in {v \in Slots : pc'[v] = "rebuild"}}
          = {req[u].key : u \in {v \in Slots : pc[v] = "rebuild"}}
    BY <1>1
  <2> QED BY <1>1, <2>1 DEF Present
<1>4. Unanswered[s] = Contract!Nothing
  BY <1>1 DEF Unanswered, Contract!Nothing, NoRequest
<1>5. Unanswered' = [Unanswered EXCEPT ![s] = r]
  BY <1>1 DEF Unanswered, CInv, IInv, Requested
<1>6. r.kind \in Orders /\ ~overlapping => \A u \in Slots : Unanswered[u].kind \notin Orders
  BY DEF Receive, Unanswered, Orders, NoRequest
<1>7. Contract!Ask(s)
  BY <1>1, <1>3, <1>4, <1>5, <1>6 DEF Contract!Ask, Contract!Orders, Orders
<1> QED BY <1>2, <1>7 DEF CSteps, Contract!Next

LEMMA TakeLockStep ==
  ASSUME CInv, NEW s \in Slots, TakeLock(s)
  PROVE  CSteps
<1> DEFINE label == IF Is(s, "add") THEN "dependencies" ELSE "connect"
<1>1. pc[s] = "take_lock" /\ Goto(s, label) /\ label \in {"dependencies", "connect"}
  BY DEF TakeLock, At
<1>2. UNCHANGED <<mlock, table, req, reply, overlapping>>
  BY DEF TakeLock, items, server
<1> HIDE DEF label
<1> QED BY <1>1, <1>2, HiddenStep DEF Changing

LEMMA ReadyStep ==
  ASSUME CInv, NEW s \in Slots,
         Connect(s) \/ Connected(s) \/ ConnectFails(s) \/ ParentLogs(s)
  PROVE  CSteps
<1>1. pc[s] \in {"connect", "connecting", "refreshing"} /\ req[s].kind = "ready"
  BY DEF CInv, IInv, Jobs, Connect, Connected, ConnectFails, ParentLogs, At, Is
<1>2. ASSUME NEW status \in {"OK", "UNKNOWN"}, Returns(s, status), UNCHANGED <<mlock, items>>
      PROVE  CSteps
  BY <1>1, <1>2, InnocentStep DEF Innocent, items
<1>3. ASSUME NEW label \in {"connecting", "refreshing"}, Goto(s, label),
             UNCHANGED <<locks, items, req, reply, server>>
      PROVE  CSteps
  BY <1>1, <1>3, HiddenStep DEF locks, items, server, Changing
<1> QED BY <1>2, <1>3 DEF Connect, Connected, ConnectFails, ParentLogs

LEMMA DependenciesStep ==
  ASSUME CInv, NEW s \in Slots, Dependencies(s)
  PROVE  CSteps
<1>0. CASE ParentFreed(s)
  BY <1>0, Death DEF ParentFreed
<1> SUFFICES ASSUME ~ParentFreed(s) PROVE CSteps
  BY <1>0
<1>1. /\ pc[s] \in {"dependencies", "dialling", "refreshing"}
      /\ req[s].kind \in {"add", "reconfigure"}
  BY DEF CInv, IInv, Jobs, Dependencies, NoDependencies, NeedsParent, UsesParent,
         ConnectsLazily, LazyConnected, LazyConnectFails, DependenciesFound,
         DependenciesMissing, At, Is
<1>2. CASE LazyConnectFails(s) \/ DependenciesMissing(s)
  <2>1. Returns(s, "UNKNOWN") /\ UNCHANGED <<mlock, table>>
    BY <1>2 DEF LazyConnectFails, DependenciesMissing, items
  <2> QED BY <1>1, <2>1, InnocentStep DEF Innocent
<1>3. ASSUME NEW label \in {"construct", "lookup", "dialling", "refreshing"}, Goto(s, label),
             UNCHANGED <<locks, items, req, reply, server>>
      PROVE  CSteps
  BY <1>1, <1>3, HiddenStep DEF locks, items, server, Changing
<1>4. AfterDependencies(s) \in {"construct", "lookup"}
  BY DEF AfterDependencies
<1> QED BY <1>2, <1>3, <1>4
        DEF Dependencies, NoDependencies, UsesParent, ConnectsLazily, LazyConnected,
            DependenciesFound

LEMMA RegisterStep ==
  ASSUME LocalKeys, CInv, NEW s \in Slots, Register(s)
  PROVE  CSteps
<1>1. pc[s] = "register" /\ req[s].kind = "add" /\ req[s].key \in Keys
  BY KeyOfRequest DEF Register, At, CInv, IInv, Jobs, Orders
<1>2. CASE Returns(s, "INTERNAL") /\ UNCHANGED <<mlock, items, link>>
  BY <1>1, <1>2, InnocentStep DEF Innocent, items
<1>3. CASE /\ ~AddThrows(table, req[s].key)
           /\ table' = do_add(table, req[s].key, res[s])
           /\ Returns(s, "OK")
           /\ UNCHANGED <<mlock, made, stopped, link>>
  <2>1. /\ mlock = NoSlot /\ mlock' = NoSlot /\ overlapping' = overlapping
        /\ pc'[s] = "idle" /\ \A u \in Slots \ {s} : pc'[u] = pc[u] /\ req'[u] = req[u]
    BY <1>3, Leaving DEF Register, CInv
  <2>2. /\ DOMAIN table'.resources = DOMAIN table.resources \cup {req[s].key}
        /\ req[s].key \notin DOMAIN table.resources
    BY <1>3, AddsTheKey DEF AddThrows
  <2>3. Rebuilding' /\ Found'
    BY <2>1, <2>2 DEF CInv, Rebuilding, Found, Changing
  <2>4. NoShortcuts'
    BY <1>1, <1>3, AddKeepsNoShortcuts DEF NoShortcuts, CInv
  <2>5. Present = DOMAIN table.resources /\ \A u \in Slots : pc[u] # "rebuild"
    BY <2>1, PresentWhenFree DEF CInv
  <2>6. Present' = DOMAIN table'.resources
    BY <2>1, <2>5 DEF Present
  <2>7. Contract!Answer(s, "OK") /\ Unanswered[s] = req[s]
    BY <1>1, <1>3, Answered, AtWork DEF CInv
  <2>8. Contract!AddResource(s)
    BY <1>1, <2>2, <2>5, <2>6, <2>7 DEF Contract!AddResource, Contract!Asked
  <2> QED BY <2>3, <2>4, <2>8 DEF CSteps, Contract!Next
<1> QED BY <1>2, <1>3 DEF Register

LEMMA AddStep ==
  ASSUME LocalKeys, CInv, NEW s \in Slots, Add(s)
  PROVE  CSteps
<1>1. CASE Construct(s)
  <2>1. /\ pc[s] = "construct" /\ Goto(s, "register")
        /\ UNCHANGED <<mlock, table, req, reply, overlapping>>
    BY <1>1 DEF Construct, At, locks, server
  <2> QED BY <2>1, HiddenStep DEF Changing
<1>2. CASE ConstructorThrows(s) \/ ConstructsNothing(s)
  <2>1. pc[s] = "construct" /\ req[s].kind = "add"
    BY <1>2 DEF ConstructorThrows, ConstructsNothing, At, CInv, IInv, Jobs
  <2>2. CASE Returns(s, "INTERNAL") /\ UNCHANGED <<mlock, items, link>>
    BY <2>1, <2>2, InnocentStep DEF Innocent, items
  <2>3. CASE Dies("null resource added")
    BY <2>3, Death
  <2> QED BY <1>2, <2>2, <2>3 DEF ConstructorThrows, ConstructsNothing
<1>3. CASE Register(s)
  BY <1>3, RegisterStep
<1> QED BY <1>1, <1>2, <1>3 DEF Add

-----------------------------------------------------------------------------
LEMMA LookupStep ==
  ASSUME LocalKeys, CInv, NEW s \in Slots, Lookup(s)
  PROVE  CSteps
<1> DEFINE found  == resource(table, req[s].key)
           next   == IF Is(s, "use") THEN "invoke" ELSE "stop"
           status == IF Is(s, "use") THEN "NOT_FOUND" ELSE "UNKNOWN"
<1>1. /\ pc[s] = "lookup" /\ req[s].kind \in {"reconfigure", "remove", "use"}
      /\ mlock = NoSlot
  BY DEF Lookup, At, CInv, IInv, Jobs
<1>0. found = resource(table, LookedUp(s))
  BY <1>1, LooksItUp DEF CInv, IInv
<1>2. found = NoResource <=> req[s].key \notin DOMAIN table.resources
  BY LookupsFindWhatIsThere DEF CInv
<1>3. CASE found # NoResource
  <2>1. Goto(s, next) /\ UNCHANGED <<locks, items, link, req, reply, server>>
    BY <1>0, <1>3 DEF Lookup
  <2>2. next \in {"invoke", "stop"}
    OBVIOUS
  <2> HIDE DEF next
  <2> QED BY <1>1, <1>2, <1>3, <2>1, <2>2, HiddenStep DEF locks, items, server
<1>4. CASE found = NoResource
  <2>1. Returns(s, status) /\ UNCHANGED <<mlock, table>>
    BY <1>0, <1>4 DEF Lookup, items
  <2>2. CASE req[s].kind # "use"
    BY <1>1, <2>1, <2>2, InnocentStep DEF Innocent, Is
  <2>3. CASE req[s].kind = "use"
    <3>1. Returns(s, "NOT_FOUND")
      BY <2>1, <2>3 DEF Is
    <3>2. Rebuilding' /\ NoShortcuts' /\ Found' /\ Present' = Present
      BY <1>1, <2>1, <3>1, Leaving, KeepsTheTable DEF CInv, Changing
    <3>3. req[s].key \notin Present
      BY <1>1, <1>2, <1>4, PresentWhenFree DEF CInv
    <3>4. Contract!Answer(s, "NOT_FOUND") /\ Unanswered[s] = req[s]
      BY <1>1, <3>1, Answered, AtWork DEF CInv
    <3>5. Contract!Call(s)
      BY <2>3, <3>2, <3>3, <3>4 DEF Contract!Call, Contract!Asked, Contract!Refuse
    <3> QED BY <3>2, <3>5 DEF CSteps, Contract!Next
  <2> QED BY <2>2, <2>3
<1> QED BY <1>3, <1>4

LEMMA StopStep ==
  ASSUME CInv, NEW s \in Slots, Stop(s)
  PROVE  CSteps
<1> DEFINE next == IF Is(s, "reconfigure") THEN "replace" ELSE "remove"
<1>1. /\ pc[s] = "stop" /\ Goto(s, next) /\ next \in {"replace", "remove"}
      /\ UNCHANGED <<mlock, table, req, reply, overlapping>>
  BY DEF Stop, At, locks, server
<1> HIDE DEF next
<1> QED BY <1>1, HiddenStep DEF Changing

\* With one order at a time, whoever is about to change the table is alone with it.
LEMMA Alone ==
  ASSUME CInv, NEW s \in Slots, pc[s] \in Changing \cup {"rebuild"}, ~overlapping
  PROVE  \A u \in Slots \ {s} : pc[u] \notin Changing
BY DEF CInv, IInv, Jobs, OneAtATime, Ordered, Orders, Changing

LEMMA ReplaceOneStep ==
  ASSUME LocalKeys, CInv, NEW s \in Slots, ReplaceOne(s)
  PROVE  CSteps
<1>1. /\ pc[s] = "replace" /\ req[s].kind = "reconfigure" /\ req[s].key \in Keys
      /\ mlock = NoSlot /\ overlapping' = overlapping
  BY KeyOfRequest DEF ReplaceOne, At, CInv, IInv, Jobs, Orders, Returns, server
<1>2. Present = DOMAIN table.resources /\ \A u \in Slots : pc[u] # "rebuild"
  BY <1>1, PresentWhenFree DEF CInv
<1>3. CASE RemoveThrows(table, req[s].key)
  <2>1. Returns(s, "OK") /\ UNCHANGED <<mlock, table>>
    BY <1>3 DEF ReplaceOne, items
  <2>2. Rebuilding' /\ NoShortcuts' /\ Found' /\ Present' = Present
    BY <1>1, <2>1, Leaving, KeepsTheTable DEF CInv, Changing
  <2>3. overlapping
    BY <1>1, <1>3 DEF CInv, Found, Changing, RemoveThrows, IInv, TypeOK
  <2>4. Contract!Answer(s, "OK") /\ Unanswered[s] = req[s]
    BY <1>1, <2>1, Answered, AtWork DEF CInv
  <2>5. Contract!ReconfigureResource(s)
    BY <1>1, <2>2, <2>3, <2>4 DEF Contract!ReconfigureResource, Contract!Asked
  <2> QED BY <2>2, <2>5 DEF CSteps, Contract!Next
<1>4. CASE ~RemoveThrows(table, req[s].key)
  <2>1. /\ mlock' = s /\ table' \in do_remove(table, req[s].key) /\ Goto(s, "rebuild")
        /\ UNCHANGED <<req, reply>>
    BY <1>4 DEF ReplaceOne
  <2>2. pc'[s] = "rebuild" /\ \A u \in Slots \ {s} : pc'[u] = pc[u]
    BY <2>1 DEF Goto, CInv, IInv, TypeOK
  <2>3. Rebuilding'
    BY <1>2, <2>1, <2>2 DEF Rebuilding
  <2>4. NoShortcuts'
    BY <1>1, <2>1, RemoveKeepsNoShortcuts DEF NoShortcuts, CInv
  <2>5. Found'
    BY <1>1, <2>1, <2>2, Alone DEF Found, Changing
  <2>6. /\ DOMAIN table'.resources = DOMAIN table.resources \ {req[s].key}
        /\ req[s].key \in DOMAIN table.resources
    BY <1>4, <2>1, RemovesTheKey DEF RemoveThrows
  <2>7. Present' = Present
    BY <1>1, <1>2, <2>1, <2>2, <2>6 DEF Present
  <2>8. UNCHANGED Contract!vars
    BY <1>1, <2>1, <2>7, Hidden DEF CInv
  <2> QED BY <2>3, <2>4, <2>5, <2>8 DEF CSteps
<1> QED BY <1>3, <1>4

LEMMA RebuildStep ==
  ASSUME LocalKeys, CInv, NEW s \in Slots, Rebuild(s) \/ RebuildThrows(s)
  PROVE  CSteps
<1>1. /\ pc[s] = "rebuild" /\ req[s].kind = "reconfigure" /\ req[s].key \in Keys
      /\ Returns(s, "OK") /\ mlock' = NoSlot /\ overlapping' = overlapping
  BY KeyOfRequest DEF Rebuild, RebuildThrows, At, CInv, IInv, Jobs, Orders, Returns, server
<1>2. pc'[s] = "idle" /\ \A u \in Slots \ {s} : pc'[u] = pc[u] /\ req'[u] = req[u]
  BY <1>1, Leaving DEF CInv
<1>3. /\ Present = DOMAIN table.resources \cup {req[s].key}
      /\ \A u \in Slots \ {s} : pc[u] # "rebuild"
  BY <1>1, PresentInRebuild DEF CInv
<1>4. /\ DOMAIN table'.resources \in {DOMAIN table.resources, Present}
      /\ NoShortcuts'
  <2>1. CASE Rebuild(s)
    BY <1>1, <1>3, <2>1, AddsTheKey, AddKeepsNoShortcuts DEF Rebuild, NoShortcuts, CInv
  <2>2. CASE RebuildThrows(s)
    BY <2>2 DEF RebuildThrows, items, NoShortcuts, CInv
  <2> QED BY <2>1, <2>2
<1>5. Rebuilding' /\ Present' = DOMAIN table'.resources
  BY <1>2, <1>3 DEF Rebuilding, Present
<1>6. Found'
  BY <1>1, <1>2, Alone DEF Found, Changing
<1>7. Present' \in {Present, Present \ {req[s].key}}
  <2>1. CASE DOMAIN table'.resources = Present
    BY <1>5, <2>1
  <2>2. CASE DOMAIN table'.resources = DOMAIN table.resources
    <3>1. Present' = Present \/ req[s].key \notin Present'
      BY <1>3, <1>5, <2>2
    <3> QED BY <1>3, <1>5, <2>2, <3>1
  <2> QED BY <1>4, <2>1, <2>2
<1>8. Contract!Answer(s, "OK") /\ Unanswered[s] = req[s]
  BY <1>1, Answered, AtWork DEF CInv
<1>9. Contract!ReconfigureResource(s)
  BY <1>1, <1>3, <1>7, <1>8 DEF Contract!ReconfigureResource, Contract!Asked
<1> QED BY <1>4, <1>5, <1>6, <1>9 DEF CSteps, Contract!Next

LEMMA RemoveStep ==
  ASSUME LocalKeys, CInv, NEW s \in Slots, Remove(s)
  PROVE  CSteps
<1>1. /\ pc[s] = "remove" /\ req[s].kind = "remove" /\ req[s].key \in Keys
      /\ Returns(s, "OK") /\ mlock = NoSlot /\ UNCHANGED <<mlock, overlapping>>
  BY KeyOfRequest DEF Remove, At, CInv, IInv, Jobs, Orders, Returns, server
<1>2. pc'[s] = "idle" /\ \A u \in Slots \ {s} : pc'[u] = pc[u]
  BY <1>1 DEF Returns, Goto, CInv, IInv, TypeOK
<1>3. Present = DOMAIN table.resources /\ \A u \in Slots : pc[u] # "rebuild"
  BY <1>1, PresentWhenFree DEF CInv
<1>4. DOMAIN table'.resources = DOMAIN table.resources \ {req[s].key} /\ NoShortcuts'
  <2>1. CASE RemoveThrows(table, req[s].key)
    BY <2>1 DEF Remove, RemoveThrows, NoShortcuts, CInv
  <2>2. CASE ~RemoveThrows(table, req[s].key)
    BY <1>1, <2>2, RemovesTheKey, RemoveKeepsNoShortcuts DEF Remove, NoShortcuts, CInv
  <2> QED BY <2>1, <2>2
<1>5. Rebuilding' /\ Present' = DOMAIN table'.resources
  BY <1>2, <1>3 DEF Rebuilding, Present
<1>6. Found'
  BY <1>1, <1>2, Alone DEF Found, Changing
<1>7. req[s].key \in Present \/ overlapping
  BY <1>1, <1>3 DEF CInv, Found, Changing
<1>8. Contract!Answer(s, "OK") /\ Unanswered[s] = req[s]
  BY <1>1, Answered, AtWork DEF CInv
<1>9. Contract!RemoveResource(s)
  BY <1>1, <1>3, <1>4, <1>5, <1>7, <1>8 DEF Contract!RemoveResource, Contract!Asked
<1> QED BY <1>4, <1>5, <1>6, <1>9 DEF CSteps, Contract!Next

LEMMA ChangeStep ==
  ASSUME LocalKeys, CInv, NEW s \in Slots, Change(s)
  PROVE  CSteps
<1>1. CASE Lookup(s)
  BY <1>1, LookupStep
<1>2. CASE Invoke(s)
  <2>1. pc[s] = "invoke" /\ req[s].kind = "use"
    BY <1>2 DEF Invoke, At, CInv, IInv, Jobs
  <2>2. PICK status \in {"OK", "INTERNAL"} : Returns(s, status)
    BY <1>2 DEF Invoke
  <2> QED BY <1>2, <2>1, <2>2, InnocentStep DEF Innocent, Invoke, items
<1>3. CASE Stop(s)
  BY <1>3, StopStep
<1>4. CASE StopThrows(s)
  <2>1. pc[s] = "stop" /\ req[s].kind \in {"reconfigure", "remove"}
    BY <1>4 DEF StopThrows, At, CInv, IInv, Jobs
  <2> QED BY <1>4, <2>1, InnocentStep DEF Innocent, StopThrows, items
<1>5. CASE NoModel(s)
  <2>1. pc[s] = "replace" /\ req[s].kind = "reconfigure"
    BY <1>5 DEF NoModel, At, CInv, IInv, Jobs
  <2> QED BY <1>5, <2>1, InnocentStep DEF Innocent, NoModel, items
<1>6. CASE ReplaceOne(s)
  BY <1>6, ReplaceOneStep
<1>7. CASE Rebuild(s) \/ RebuildThrows(s)
  BY <1>7, RebuildStep
<1>8. CASE Remove(s)
  BY <1>8, RemoveStep
<1> QED BY <1>1, <1>2, <1>3, <1>4, <1>5, <1>6, <1>7, <1>8 DEF Change

LEMMA EveryStep ==
  ASSUME LocalKeys, CInv, [Next]_vars
  PROVE  CSteps
<1>1. ASSUME NEW s \in Slots, NEW r \in Requests, Receive(s, r) PROVE CSteps
  BY <1>1, ReceiveStep
<1>2. ASSUME NEW s \in Slots, Handler(s) PROVE CSteps
  BY <1>2, TakeLockStep, ReadyStep, DependenciesStep, AddStep, ChangeStep DEF Handler
<1>3. CASE Signalled \/ MainThread \/ UNCHANGED vars
  <2>1. UNCHANGED <<mlock, table, frames, overlapping>>
    BY <1>3 DEF Signalled, MainThread, Start, WaitEnds, Drained, ParentReset, vars, locks,
                items, server
  <2> QED BY <2>1, NothingSeen
<1> QED BY <1>1, <1>2, <1>3 DEF Next

-----------------------------------------------------------------------------
(***************************************************************************)
(* What the handlers do, lock by lock and step by step, is for viam-server *)
(* one step for each request, done or refused as its answer says.          *)
(***************************************************************************)
THEOREM ModuleKeepsItsContract ==
  ASSUME LocalKeys
  PROVE  Spec => ImplementsContract
<1>1. Init => CInv /\ Contract!Init
  <2> SUFFICES ASSUME Init PROVE CInv /\ Contract!Init
    OBVIOUS
  <2>0. table.resources = << >> /\ table.short_names = << >>
    BY DEF Init, EmptyTable
  <2>1. DOMAIN table.resources = {}
    BY <2>0
  <2>2. DOMAIN table.short_names = {}
    BY <2>0
  <2>3. \A s \in Slots : pc[s] = "idle"
    BY DEF Init
  <2>4. Rebuilding /\ NoShortcuts /\ Found
    BY <2>2, <2>3 DEF Rebuilding, NoShortcuts, Found, Changing
  <2>5. Present = {}
    BY <2>1, <2>3 DEF Present
  <2>6. Unanswered = [s \in Slots |-> Contract!Nothing]
    BY DEF Init, Unanswered, Contract!Nothing, NoRequest
  <2> QED BY <2>4, <2>5, <2>6, InitIInv DEF Init, CInv, Contract!Init
<1>2. CInv /\ [Next]_vars => CInv'
  BY EveryStep, NextIInv DEF CInv, CSteps
<1>3. CInv /\ [Next]_vars => [Contract!Next]_(Contract!vars)
  BY EveryStep DEF CSteps
<1> QED BY <1>1, <1>2, <1>3, PTL DEF Spec, Contract!Spec, ImplementsContract
=============================================================================
