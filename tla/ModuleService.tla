--------------------------- MODULE ModuleService ---------------------------
(***************************************************************************)
(* viam::sdk::ModuleService: viam-server's orders to a module, each run by *)
(* a gRPC thread, here a slot: Ready, AddResource, ReconfigureResource,    *)
(* RemoveResource, and the component calls (use) that a resource server    *)
(* answers through ServiceHelper.  ValidateConfig changes no state.        *)
(*                                                                         *)
(* All resources are of one API, so there is one resource server with one  *)
(* ResourceManager, whose lock is mlock; lock is ModuleService::lock_,     *)
(* which only AddResource and Ready take.  An instance of a resource is    *)
(* the number of its construction.  It lives as long as the table or a     *)
(* handler has a shared_ptr to it.                                         *)
(*                                                                         *)
(* The parent's RobotClient is a module of its own; here it is what the    *)
(* handlers see of it: not there, made by Ready, or made lazily.           *)
(*                                                                         *)
(* The main thread is in serve() and then in the destructor; phase says    *)
(* where.  SignalManager's constructor blocks the two signals, so one that *)
(* comes before wait() stays pending until then.                           *)
(***************************************************************************)
EXTENDS ResourceTable

CONSTANTS Slots,        \* gRPC threads
          Keys,         \* the resources viam-server configures
          Addresses,    \* the parent addresses it sends
          Models,       \* the models it asks for
          Registered,   \* those that have a registration
          NoParent,     \* VIAM_NO_MODULE_PARENT is set
          MaxRequests   \* bound: how many requests there are

ASSUME ConstantsAssumption ==
  /\ Keys \subseteq Seq(STRING) \ {<< >>}
  /\ \A k \in Keys : Len(k) <= 2   \* RemoveResource keeps one remote of a key
  /\ Registered \subseteq Models
  /\ NoParent \in BOOLEAN
  /\ MaxRequests \in Nat
  /\ "" \notin Addresses

NoSlot == "none"
ASSUME SlotsAssumption == NoSlot \notin Slots

\* An instance is a number, and the null pointer is no instance.
ASSUME NullAssumption == NoResource \notin Nat

VARIABLES
  phase,        \* of the main thread: building, serving or deaf (that is, in
                \* wait(), with or without a server), draining, drained or gone
  signalled,    \* SIGINT or SIGTERM has been sent
  lock, mlock,  \* the slot that holds the lock
  table,        \* resources_ and short_names_ of the manager
  made,         \* the number of instances constructed
  stopped,      \* the instances stop() has been called on
  parent_addr,
  parent,       \* parent_: none, checked (made by Ready) or lazy
  req,          \* the request of each slot
  pc,           \* where its handler is
  res,          \* the shared_ptr<Resource> in its scope
  torn,         \* parent_ was assigned while it is inside parent_->refresh()
  reply,        \* the status of its last answer
  overlapping,  \* viam-server may send an order before the last is answered
  asked,        \* counts requests
  fate          \* "running", or what ended the process

locks  == <<lock, mlock>>
items  == <<table, made, stopped>>
link   == <<parent_addr, parent, torn>>
frames == <<req, pc, res, reply>>
server == <<overlapping, asked>>
main   == <<phase, signalled>>
vars   == <<main, locks, items, link, frames, server, fate>>

At(s, label) == fate = "running" /\ pc[s] = label

Goto(s, label) == pc' = [pc EXCEPT ![s] = label]

Is(s, kind) == req[s].kind = kind

Orders == {"add", "reconfigure", "remove"}

NoRequest == [kind |-> "none"]

Requests ==
  [kind : {"add", "reconfigure"}, key : Keys, model : Models, deps : BOOLEAN]
    \cup [kind : {"remove", "use"}, key : Keys] \cup [kind : {"ready"}, addr : Addresses]

\* A handler returns: its locals go, and with them the lock_guard.
Returns(s, status) ==
  /\ Goto(s, "idle")
  /\ req' = [req EXCEPT ![s] = NoRequest]
  /\ res' = [res EXCEPT ![s] = NoResource]
  /\ reply' = [reply EXCEPT ![s] = status]
  /\ lock' = IF lock = s THEN NoSlot ELSE lock
  /\ UNCHANGED <<main, server, fate>>

Dies(how) ==
  fate' = how /\ UNCHANGED <<main, locks, items, link, frames, server>>

-----------------------------------------------------------------------------
(* Requests arrive *)

Receive(s, r) ==
  /\ At(s, "idle") /\ phase = "serving" /\ asked < MaxRequests
  /\ (r.kind \in Orders /\ ~overlapping) =>
       \A u \in Slots : pc[u] = "idle" \/ req[u].kind \notin Orders
  /\ req' = [req EXCEPT ![s] = r]
  /\ reply' = [reply EXCEPT ![s] = "none"]
  /\ Goto(s, CASE r.kind \in {"add", "ready"} -> "take_lock"
               [] r.kind = "reconfigure"      -> "dependencies"
               [] OTHER                       -> "lookup")
  /\ asked' = asked + 1
  /\ UNCHANGED <<main, locks, items, link, res, overlapping, fate>>

\* Mutant: a lock_ that is taken is not waited for.
TakeLock_without_lock(s) ==
  /\ At(s, "take_lock")
  /\ lock' = s
  /\ Goto(s, IF Is(s, "add") THEN "dependencies" ELSE "connect")
  /\ UNCHANGED <<main, mlock, items, link, req, res, reply, server, fate>>

TakeLock(s) ==
  /\ At(s, "take_lock") /\ lock = NoSlot
  /\ lock' = s
  /\ Goto(s, IF Is(s, "add") THEN "dependencies" ELSE "connect")
  /\ UNCHANGED <<main, mlock, items, link, req, res, reply, server, fate>>

-----------------------------------------------------------------------------
(* Ready *)

\* parent_ is assigned: whoever is inside the old one, in whichever of its
\* calls (refreshing), is in trouble.
Assign(s, how) ==
  /\ parent' = how
  /\ torn' = [u \in Slots |-> torn[u] \/ (u # s /\ pc[u] = "refreshing")]

Connect(s) ==
  /\ At(s, "connect")
  /\ IF NoParent \/ parent_addr = req[s].addr
     THEN Returns(s, "OK") /\ UNCHANGED <<mlock, items, link>>
     ELSE /\ parent_addr' = req[s].addr
          /\ Goto(s, "connecting")
          /\ UNCHANGED <<main, locks, items, parent, torn, req, res, reply, server, fate>>

Connected(s) ==
  /\ At(s, "connecting")
  /\ Assign(s, "checked")
  /\ Goto(s, "refreshing")
  /\ UNCHANGED <<main, locks, items, parent_addr, req, res, reply, server, fate>>

\* connect_logging and connect_tracing of what is parent_ by now.
ParentLogs(s) ==
  /\ At(s, "refreshing") /\ Is(s, "ready")
  /\ torn' = [torn EXCEPT ![s] = FALSE]
  /\ Returns(s, "OK")
  /\ UNCHANGED <<mlock, items, parent_addr, parent>>

\* at_local_socket throws: parent_ keeps its value, parent_addr_ is the new one.
ConnectFails(s) ==
  /\ At(s, "connecting")
  /\ Returns(s, "UNKNOWN")
  /\ UNCHANGED <<mlock, items, link>>

-----------------------------------------------------------------------------
(* get_dependencies_, for AddResource and, without lock_, for              *)
(* ReconfigureResource                                                     *)

AfterDependencies(s) == IF Is(s, "add") THEN "construct" ELSE "lookup"

\* With no parent address and no dependency there is nothing to look up.
NoDependencies(s) ==
  /\ At(s, "dependencies")
  /\ parent_addr = "" /\ ~req[s].deps
  /\ Goto(s, AfterDependencies(s))
  /\ UNCHANGED <<main, locks, items, link, req, res, reply, server, fate>>

NeedsParent(s) == At(s, "dependencies") /\ (parent_addr # "" \/ req[s].deps)

UsesParent(s) ==
  /\ NeedsParent(s) /\ parent # "none"
  /\ Goto(s, "refreshing")
  /\ UNCHANGED <<main, locks, items, link, req, res, reply, server, fate>>

\* "LS: I think maybe this is never hit": parent_ is made here, and by the time
\* at_local_socket is through, another handler may have made one.
ConnectsLazily(s) ==
  /\ NeedsParent(s) /\ parent = "none"
  /\ Goto(s, "dialling")
  /\ UNCHANGED <<main, locks, items, link, req, res, reply, server, fate>>

LazyConnected(s) ==
  /\ At(s, "dialling")
  /\ Assign(s, "lazy")
  /\ Goto(s, "refreshing")
  /\ UNCHANGED <<main, locks, items, parent_addr, req, res, reply, server, fate>>

LazyConnectFails(s) ==
  /\ At(s, "dialling")
  /\ Returns(s, "UNKNOWN")
  /\ UNCHANGED <<mlock, items, link>>

\* parent_->refresh() and resource_by_name find every dependency ...
DependenciesFound(s) ==
  /\ At(s, "refreshing") /\ ~Is(s, "ready")
  /\ torn' = [torn EXCEPT ![s] = FALSE]
  /\ Goto(s, AfterDependencies(s))
  /\ UNCHANGED <<main, locks, items, parent_addr, parent, req, res, reply, server, fate>>

\* ... or one is missing, or the parent cannot be reached: an exception that
\* no try block of the handler surrounds.
DependenciesMissing(s) ==
  /\ At(s, "refreshing") /\ ~Is(s, "ready")
  /\ torn' = [torn EXCEPT ![s] = FALSE]
  /\ Returns(s, "UNKNOWN")
  /\ UNCHANGED <<mlock, items, parent_addr, parent>>

\* Calling into a client that another handler has destroyed is undefined
\* behaviour: it may return, throw, or end the process.
ParentFreed(s) == At(s, "refreshing") /\ torn[s] /\ Dies("parent freed in use")

Dependencies(s) ==
  \/ NoDependencies(s) \/ UsesParent(s)
  \/ ConnectsLazily(s) \/ LazyConnected(s) \/ LazyConnectFails(s)
  \/ DependenciesFound(s) \/ DependenciesMissing(s) \/ ParentFreed(s)

-----------------------------------------------------------------------------
(* AddResource *)

Construct(s) ==
  /\ At(s, "construct") /\ req[s].model \in Registered
  /\ made' = made + 1
  /\ res' = [res EXCEPT ![s] = made + 1]
  /\ Goto(s, "register")
  /\ UNCHANGED <<main, locks, table, stopped, link, req, reply, server, fate>>

\* Mutant: the exception is logged and the handler goes on without a resource.
ConstructorThrows_goes_on(s) ==
  /\ At(s, "construct") /\ req[s].model \in Registered
  /\ Goto(s, "register")
  /\ UNCHANGED <<main, locks, items, link, req, res, reply, server, fate>>

ConstructorThrows(s) ==
  /\ At(s, "construct") /\ req[s].model \in Registered
  /\ Returns(s, "INTERNAL")
  /\ UNCHANGED <<mlock, items, link>>

\* No registration: a null resource is handed to Server::add_resource, which
\* asks it for its api() unless the deadline has passed.
ConstructsNothing(s) ==
  /\ At(s, "construct") /\ req[s].model \notin Registered
  /\ \/ Dies("null resource added")
     \/ Returns(s, "INTERNAL") /\ UNCHANGED <<mlock, items, link>>

\* Mutant: a resource that is there already is taken for the one to be added.
Register_swallows(s) ==
  /\ At(s, "register") /\ mlock = NoSlot
  /\ \/ /\ ~AddThrows(table, req[s].key)
        /\ table' = do_add(table, req[s].key, res[s])
        /\ Returns(s, "OK")
        /\ UNCHANGED <<mlock, made, stopped, link>>
     \/ Returns(s, IF AddThrows(table, req[s].key) THEN "OK" ELSE "INTERNAL")
        /\ UNCHANGED <<mlock, items, link>>

\* Server::add_resource: the manager takes the instance or throws; a deadline
\* that has passed is an exception too.
Register(s) ==
  /\ At(s, "register") /\ mlock = NoSlot
  /\ \/ /\ ~AddThrows(table, req[s].key)
        /\ table' = do_add(table, req[s].key, res[s])
        /\ Returns(s, "OK")
        /\ UNCHANGED <<mlock, made, stopped, link>>
     \/ Returns(s, "INTERNAL") /\ UNCHANGED <<mlock, items, link>>

Add(s) == Construct(s) \/ ConstructorThrows(s) \/ ConstructsNothing(s) \/ Register(s)

-----------------------------------------------------------------------------
(* ReconfigureResource, RemoveResource and component calls *)

\* A component call looks up what it was given, an order the name without its
\* remote.
LookedUp(s) == IF Is(s, "use") THEN req[s].key ELSE get_shortcut_name(req[s].key)

Lookup(s) ==
  /\ At(s, "lookup") /\ mlock = NoSlot
  /\ LET found == resource(table, LookedUp(s))
     IN  IF found = NoResource
         THEN /\ Returns(s, IF Is(s, "use") THEN "NOT_FOUND" ELSE "UNKNOWN")
              /\ UNCHANGED <<mlock, items, link>>
         ELSE /\ res' = [res EXCEPT ![s] = found]
              /\ Goto(s, IF Is(s, "use") THEN "invoke" ELSE "stop")
              /\ UNCHANGED <<main, locks, items, link, req, reply, server, fate>>

\* A component call returns or throws; the instance is kept alive until then.
Invoke(s) ==
  /\ At(s, "invoke")
  /\ \E status \in {"OK", "INTERNAL"} : Returns(s, status)
  /\ UNCHANGED <<mlock, items, link>>

\* Mutant: the resource is only looked up.
Stop_omitted(s) ==
  /\ At(s, "stop")
  /\ res' = [res EXCEPT ![s] = IF Is(s, "reconfigure") THEN NoResource ELSE res[s]]
  /\ Goto(s, IF Is(s, "reconfigure") THEN "replace" ELSE "remove")
  /\ UNCHANGED <<main, locks, items, link, req, reply, server, fate>>

\* Mutant: the scope of res ends with the handler.
Stop_keeps_it(s) ==
  /\ At(s, "stop")
  /\ stopped' = stopped \cup {res[s]}
  /\ Goto(s, IF Is(s, "reconfigure") THEN "replace" ELSE "remove")
  /\ UNCHANGED <<main, locks, table, made, link, req, res, reply, server, fate>>

\* The scope of res ends here for a reconfiguration, not for a removal.
Stop(s) ==
  /\ At(s, "stop")
  /\ stopped' = stopped \cup {res[s]}
  /\ res' = [res EXCEPT ![s] = IF Is(s, "reconfigure") THEN NoResource ELSE res[s]]
  /\ Goto(s, IF Is(s, "reconfigure") THEN "replace" ELSE "remove")
  /\ UNCHANGED <<main, locks, table, made, link, req, reply, server, fate>>

StopThrows(s) ==
  /\ At(s, "stop")
  /\ Returns(s, "UNKNOWN")
  /\ UNCHANGED <<mlock, items, link>>

NoModel(s) ==
  /\ At(s, "replace") /\ req[s].model \notin Registered
  /\ Returns(s, "INTERNAL")
  /\ UNCHANGED <<mlock, items, link>>

\* Mutant: an entry that is gone is added anyway.
ReplaceOne_adds_anyway(s) ==
  /\ At(s, "replace") /\ req[s].model \in Registered /\ mlock = NoSlot
  /\ mlock' = s
  /\ table' \in IF RemoveThrows(table, req[s].key) THEN {table}
                                                   ELSE do_remove(table, req[s].key)
  /\ Goto(s, "rebuild")
  /\ UNCHANGED <<main, lock, made, stopped, link, req, res, reply, server, fate>>

\* replace_one: the manager is locked and the old entry removed.  An entry
\* that is gone by now is an exception, which replace_one swallows.
ReplaceOne(s) ==
  /\ At(s, "replace") /\ req[s].model \in Registered /\ mlock = NoSlot
  /\ IF RemoveThrows(table, req[s].key)
     THEN Returns(s, "OK") /\ UNCHANGED <<mlock, items, link>>
     ELSE /\ mlock' = s
          /\ table' \in do_remove(table, req[s].key)
          /\ Goto(s, "rebuild")
          /\ UNCHANGED <<main, lock, made, stopped, link, req, res, reply, server, fate>>

\* The constructor runs under the manager's lock, then its product is added.
Rebuild(s) ==
  /\ At(s, "rebuild")
  /\ made' = made + 1
  /\ table' = do_add(table, req[s].key, made + 1)
  /\ mlock' = NoSlot
  /\ Returns(s, "OK")
  /\ UNCHANGED <<stopped, link>>

\* Mutant: the lock of the manager is not released when the constructor throws.
RebuildThrows_keeps_lock(s) ==
  /\ At(s, "rebuild")
  /\ Returns(s, "OK")
  /\ UNCHANGED <<mlock, items, link>>

\* The constructor throws: replace_one logs it, the handler answers OK.
RebuildThrows(s) ==
  /\ At(s, "rebuild")
  /\ mlock' = NoSlot
  /\ Returns(s, "OK")
  /\ UNCHANGED <<items, link>>

\* manager->remove: an entry that is gone by now is logged.
Remove(s) ==
  /\ At(s, "remove") /\ mlock = NoSlot
  /\ table' \in IF RemoveThrows(table, req[s].key) THEN {table}
                                                   ELSE do_remove(table, req[s].key)
  /\ Returns(s, "OK")
  /\ UNCHANGED <<mlock, made, stopped, link>>

Change(s) ==
  \/ Lookup(s) \/ Invoke(s) \/ Stop(s) \/ StopThrows(s) \/ NoModel(s)
  \/ ReplaceOne(s) \/ Rebuild(s) \/ RebuildThrows(s) \/ Remove(s)

-----------------------------------------------------------------------------
(* The main thread: serve(), the signal it waits for, and the destructor,  *)
(* whose Server::shutdown waits for the handlers                           *)

Phase(now, next) == fate = "running" /\ phase = now /\ phase' = next

Signalled ==
  /\ fate = "running" /\ phase # "gone" /\ ~signalled
  /\ signalled' = TRUE
  /\ UNCHANGED <<phase, locks, items, link, frames, server, fate>>

\* BuildAndStart gives a server or, if the address cannot be bound, a null
\* pointer, which start() stores all the same.
Start ==
  /\ Phase("building", "serving") \/ Phase("building", "deaf")
  /\ UNCHANGED <<signalled, locks, items, link, frames, server, fate>>

WaitEnds ==
  /\ signalled
  /\ Phase("serving", "draining") \/ Phase("deaf", "draining")
  /\ UNCHANGED <<signalled, locks, items, link, frames, server, fate>>

\* Mutant: the parent goes before the server is shut down.
Drained_at_once ==
  /\ Phase("draining", "drained")
  /\ UNCHANGED <<signalled, locks, items, link, frames, server, fate>>

Drained ==
  /\ Phase("draining", "drained")
  /\ \A s \in Slots : pc[s] = "idle"
  /\ UNCHANGED <<signalled, locks, items, link, frames, server, fate>>

ParentReset ==
  /\ Phase("drained", "gone")
  /\ parent' = "none"
  /\ UNCHANGED <<signalled, locks, items, parent_addr, torn, frames, server, fate>>

-----------------------------------------------------------------------------
Init ==
  /\ phase = "building" /\ signalled = FALSE /\ lock = NoSlot /\ mlock = NoSlot
  /\ table = EmptyTable /\ made = 0 /\ stopped = {}
  /\ parent_addr = "" /\ parent = "none" /\ torn = [s \in Slots |-> FALSE]
  /\ req = [s \in Slots |-> NoRequest]
  /\ pc = [s \in Slots |-> "idle"]
  /\ res = [s \in Slots |-> NoResource]
  /\ reply = [s \in Slots |-> "none"]
  /\ overlapping \in BOOLEAN /\ asked = 0 /\ fate = "running"

Handler(s) ==
  \/ TakeLock(s) \/ Connect(s) \/ Connected(s) \/ ConnectFails(s) \/ ParentLogs(s)
  \/ Dependencies(s) \/ Add(s) \/ Change(s)

MainThread == Start \/ WaitEnds \/ Drained \/ ParentReset

Next ==
  \/ \E s \in Slots : (\E r \in Requests : Receive(s, r)) \/ Handler(s)
  \/ Signalled \/ MainThread

\* gRPC's threads and the main thread run; user code (constructors, stop) and
\* RPCs return.
Fairness == (\A s \in Slots : WF_vars(Handler(s))) /\ WF_vars(MainThread)

Spec == Init /\ [][Next]_vars /\ Fairness

-----------------------------------------------------------------------------
(* Properties *)

\* The types of the variables the handlers' control flow depends on.
TypeOK ==
  /\ pc \in [Slots -> {"idle", "take_lock", "connect", "connecting", "dependencies",
                       "dialling", "refreshing", "construct", "register", "lookup", "invoke",
                       "stop", "replace", "rebuild", "remove"}]
  /\ lock \in Slots \cup {NoSlot} /\ mlock \in Slots \cup {NoSlot}
  /\ made \in Nat /\ stopped \subseteq 1..made
  /\ res \in [Slots -> 1..made \cup {NoResource}]
  /\ DOMAIN table.resources \subseteq Keys
  /\ \A k \in DOMAIN table.resources : table.resources[k] \in 1..made

\* The resources the module has, one that is being rebuilt included.
Present ==
  DOMAIN table.resources \cup {req[s].key : s \in {u \in Slots : pc[u] = "rebuild"}}

(***************************************************************************)
(* Only AddResource makes a resource appear: a reconfiguration that finds  *)
(* the resource removed by the time it gets to replace_one does not bring  *)
(* it back.                                                                *)
(***************************************************************************)
OnlyAddAdds ==
  [][\A k \in Present' \ Present :
       \E s \in Slots : pc[s] = "register" /\ Is(s, "add") /\ req[s].key = k]_vars

\* The requests that have not been answered.
Unanswered == [s \in Slots |-> IF pc[s] = "idle" THEN NoRequest ELSE req[s]]

Contract == INSTANCE ModuleContract WITH configured <- Present, order <- Unanswered

(***************************************************************************)
(* Whatever the handlers do between a request and its answer, and however  *)
(* they overlap, what viam-server can see of them is that each request is  *)
(* done, or refused and not done, in one step, with the status that        *)
(* ModuleContract gives for it: no answer tells of a resource that is not  *)
(* there but for a reconfiguration's, and no call misses one that is.      *)
(***************************************************************************)
ImplementsContract == Contract!Spec

(***************************************************************************)
(* Unless viam-server overlaps its orders, an instance leaves the table,   *)
(* for good or for a new one, only after it has been stopped.  This is of  *)
(* local names: the handlers look a resource up by its name and take it    *)
(* out by its remote and name, and with two remotes the one that is        *)
(* stopped may be another than the one that goes.                          *)
(***************************************************************************)
StoppedBeforeGone ==
  [][~overlapping =>
       \A k \in DOMAIN table.resources :
         (k \in DOMAIN table'.resources => table'.resources[k] # table.resources[k]) =>
           table.resources[k] \in stopped]_vars

\* What the holder of a lock is doing.
LockHolders ==
  /\ lock # NoSlot => pc[lock] \notin {"idle", "take_lock"} /\ req[lock].kind \in {"add", "ready"}
  /\ mlock # NoSlot => pc[mlock] = "rebuild"

\* The handlers wait for each other in no circle.
WaitsFor(s, u) ==
  \/ pc[s] = "take_lock" /\ lock = u
  \/ pc[s] \in {"register", "lookup", "replace", "remove"} /\ mlock = u

NoCircularWait == \A S \in (SUBSET Slots) \ {{}} : \E s \in S : \A u \in S : ~WaitsFor(s, u)

(***************************************************************************)
(* Two handlers never hold the manager's lock or lock_ at once, and lock_  *)
(* is free when neither AddResource nor Ready is running: no early return  *)
(* or exception of a handler leaves it behind.  Nor do handlers that have  *)
(* one lock and want the other keep each other from returning theirs.      *)
(***************************************************************************)
LocksAreReturned == LockHolders /\ NoCircularWait

ParentIsThere == \A s \in Slots : pc[s] = "refreshing" => parent # "none"

AddKeepsItsParent == ~overlapping => \A s \in Slots : torn[s] => ~Is(s, "add")

(***************************************************************************)
(* A handler that is inside a call of the parent's RobotClient has one:    *)
(* the destructor resets parent_ only after the last handler has ended.    *)
(* Unless viam-server overlaps its orders, an AddResource is also safe     *)
(* from Ready, which replaces parent_ and is kept out by lock_.  Others    *)
(* are not: a ReconfigureResource does not take lock_, and a lazy parent_  *)
(* may be made while Ready makes one.                                      *)
(***************************************************************************)
ParentOutlivesHandlers == ParentIsThere /\ AddKeepsItsParent

(***************************************************************************)
(* "Explicitly open a scope to control the lifetime of the                 *)
(* shared_ptr<Resource>": when a reconfiguration constructs the new        *)
(* instance the old one is out of the table, whatever other handlers do,   *)
(* and, unless viam-server overlaps its orders, gone, but for component    *)
(* calls that are still running on it.                                     *)
(***************************************************************************)
OldGoneBeforeNew ==
  \A s \in Slots : pc[s] = "rebuild" =>
    /\ req[s].key \notin DOMAIN table.resources
    /\ ~overlapping => \A u \in Slots : res[u] # NoResource => Is(u, "use")

(***************************************************************************)
(* A signal ends the process, also one that comes before the wait or when  *)
(* there is no server: the shutdown of the server waits for the handlers   *)
(* in flight, and none of them waits forever for lock_, for the manager's  *)
(* lock or for another handler.                                            *)
(***************************************************************************)
ShutdownEnds == signalled ~> (phase = "gone" \/ fate # "running")

=============================================================================
