---------------------------- MODULE RobotClient ----------------------------
(***************************************************************************)
(* viam::sdk::RobotClient: the connection to a machine and the table of    *)
(* resource clients, shared without a common lock by three threads:        *)
(*                                                                         *)
(*   user       the thread that made the client; it constructs it, calls   *)
(*              its methods, closes it and destroys it                     *)
(*   refresher  refresh_thread_, which runs refresh_every()                *)
(*   checker    check_connection_thread_, which runs check_connection():   *)
(*              it pings, and re-dials when three pings in a row fail      *)
(*                                                                         *)
(* lock_ protects resource_names_ and the replacement of the table only    *)
(* while refresh() writes them.  viam_channel_ and impl_ have no lock: the *)
(* checker replaces them under the feet of the other two.  What such a     *)
(* race can do is a nondeterministic choice here, and fate says how the    *)
(* process ended when it did.                                              *)
(*                                                                         *)
(* The machine and the connection to it are the environment.  A resource   *)
(* is reported as [api, name], name being a key of ResourceTable.          *)
(***************************************************************************)
EXTENDS ResourceTable

CONSTANTS Lists,           \* the answers ResourceNames can give: sets of [api, name]
          KnownApis,       \* the APIs with a client registration
          FragileApis,     \* those whose clients' constructors may throw, which they
                           \* do after they have made a stub on the channel
          RefreshInterval, \* options.refresh_interval(), 0 for none
          CheckEvery,      \* options.check_every_interval(), 0 for reconnect_every
          ReconnectEvery,  \* options.reconnect_every_interval()
          AddressKept,     \* uri_ points to an address that is still there
          NeedsCredentials, \* the machine refuses a dial without credentials
          SelfHealing,     \* whether a broken channel can reconnect on its own
          MaxDowns,        \* bound: how often the machine becomes unreachable
          MaxChanges,      \* bound: how often its list of resources changes
          MaxOps           \* bound: how many calls the user makes

ASSUME ConstantsAssumption ==
  /\ RefreshInterval \in Nat /\ CheckEvery \in Nat /\ ReconnectEvery \in Nat
  /\ SelfHealing \in BOOLEAN /\ AddressKept \in BOOLEAN /\ NeedsCredentials \in BOOLEAN
  /\ MaxDowns \in Nat /\ MaxChanges \in Nat /\ MaxOps \in Nat

\* viam-server reports no name that starts with a colon, nor an empty remote.
ASSUME ListsAssumption ==
  \A list \in Lists :
    /\ list \subseteq [api : STRING, name : Seq(STRING) \ {<< >>}]
    /\ \A p \in list : Len(p.name) > 1 => p.name[1] # ""

Threads == {"user", "refresher", "checker"}
NoThread == "none"

\* for (int i = 0; i < 3; ++i), both when pinging and when re-dialling.
Tries == 3

VARIABLES
  \* the machine, and the counters that bound it and the user
  up,        \* the machine can be reached
  machine,   \* what ResourceNames answers
  downs, changes, ops,
  \* the connection
  link,      \* the connection behind viam_channel_ works
  chan,      \* viam_channel_: "open", or "closed" when its pimpl_ is null
  impl,      \* impl_: "null", "live", or "old" when its stub is on a dead channel
  using,     \* the RPC of each thread: none, live, cut (off) or freed
  \* logging
  sink,      \* impl_->log_sink is installed
  console,   \* console logging is enabled
  \* what refresh() writes, and its local variables in each thread
  names,     \* resource_names_
  table,     \* resource_manager_
  lock,      \* the thread that holds lock_
  attached,  \* whose resource clients are on the channel that viam_channel_ now
             \* has: those of the table, those that a thread's refresh() has built
  got,       \* the answer a refresh() works with
  \* control
  should_refresh, should_check,
  i,         \* the loop counter of check_connection
  connected, \* the flag of check_connection
  job,       \* what the user thread is in: ctor, op, close or dtor
  pc,        \* where each thread is
  fate       \* "running", or what ended the process

world  == <<up, machine, downs, changes, ops>>
conn   == <<link, chan, impl, using>>
logs   == <<sink, console>>
data   == <<names, table, lock, attached>>
flags  == <<should_refresh, should_check>>
checks == <<i, connected>>
vars   == <<world, conn, logs, data, got, flags, checks, job, pc, fate>>

-----------------------------------------------------------------------------
(* Names and clients *)

\* from_proto: the remote is everything before the last colon, if that is anything.
from_proto(p) ==
  LET prefix == SubSeq(p.name, 1, Len(p.name) - 1)
  IN  [api    |-> p.api,
       remote |-> IF prefix = <<"">> THEN << >> ELSE prefix,
       name   |-> get_shortcut_name(p.name)]

NamesOf(list) == {from_proto(p) : p \in list}

\* The clients that refresh() sets out to build: one for every reported resource
\* whose API has a registration, under a Name that holds the full string and no
\* remote.  A client is identified by the resource it talks to.
Clients(list) ==
  LET known  == {p \in list : p.api \in KnownApis}
      key(p) == [api |-> p.api, remote |-> << >>, name |-> p.name]
  IN  [n \in {key(p) : p \in known} |-> [api |-> n.api, name |-> n.name]]

\* What it hands to replace_all: those whose constructor did not throw.  The
\* exception is logged, and the Name stays among current_resources.
Builds(list) ==
  LET sturdy == {n \in DOMAIN Clients(list) : n.api \notin FragileApis}
  IN  {Restrict(Clients(list), kept) : kept \in {k \in SUBSET DOMAIN Clients(list) : sturdy \subseteq k}}

\* Mutant: the comparison looks only at whether there is anything.
SameNames_by_size(list) == (list = {}) = (names = {})

\* The comparison that makes refresh() return early.
SameNames(list) == NamesOf(list) = names

\* resource_by_name: of the Name, only what from_proto left as its name is looked
\* up, neither the API nor the remote.  (The frame system is built, not looked up.)
resource_by_name(n) == resource(table, n.name)

-----------------------------------------------------------------------------
(* Control *)

At(t, label) == fate = "running" /\ pc[t] = label

Goto(t, label) == pc' = [pc EXCEPT ![t] = label]

\* A step that only moves on.
Moves(t, label) ==
  Goto(t, label) /\ UNCHANGED <<world, conn, logs, data, got, flags, checks, job, fate>>

\* The process ends: a null or freed object is used, or terminate is called.
Dies(how) ==
  fate' = how /\ UNCHANGED <<world, conn, logs, data, got, flags, checks, job, pc>>

\* Where a thread goes when the call it is in throws ...
OnThrow(t) ==
  CASE t = "refresher" -> "done"
    [] t = "checker"   -> IF pc[t] \in {"ping", "pinging"} THEN "ping_failed"
                                                           ELSE "dial_failed"
    [] t = "user"      -> CASE job = "ctor"  -> "unwind"
                            [] job = "op"    -> "idle"
                            [] job = "close" -> "close_threw"
                            [] job = "dtor"  -> "destroy"

\* ... and when refresh() returns.
OnReturn(t) ==
  CASE t = "refresher" -> "loop"
    [] t = "checker"   -> "dialled"
    [] t = "user"      -> "idle"

(***************************************************************************)
(* A unary RPC through impl::client_helper.  It throws when impl_ is null. *)
(* ClientContext asks the channel for its token, which a closed channel    *)
(* has no object for.  The helper keeps a raw pointer to the impl and its  *)
(* stub: by the time the answer is there they may have been freed.         *)
(***************************************************************************)
Begin(t, label) ==
  \/ impl = "null" /\ Moves(t, OnThrow(t))
  \/ impl # "null" /\ chan = "closed" /\ Dies("closed_channel_used")
  \/ /\ impl # "null" /\ chan = "open"
     /\ using' = [using EXCEPT ![t] = IF impl = "live" THEN "live" ELSE "cut"]
     /\ Goto(t, label)
     /\ UNCHANGED <<world, link, chan, impl, logs, data, got, flags, checks, job, fate>>

\* The answer is there.
Answers(t, label) ==
  /\ using[t] = "live" /\ link
  /\ using' = [using EXCEPT ![t] = "none"]
  /\ Goto(t, label)
  /\ UNCHANGED <<world, link, chan, impl, logs, data, flags, job, fate>>

\* The call ends in an error: the default handler throws GRPCException.
Fails(t) ==
  \/ /\ using[t] \in {"cut", "freed"} \/ (using[t] = "live" /\ ~link)
     /\ using' = [using EXCEPT ![t] = "none"]
     /\ Goto(t, OnThrow(t))
     /\ UNCHANGED <<world, link, chan, impl, logs, data, got, flags, checks, job, fate>>
  \/ using[t] = "freed" /\ Dies("freed_object_used")

-----------------------------------------------------------------------------
(* refresh(), called by all three threads *)

CallRefresh(t) == At(t, "refresh") /\ Begin(t, "refreshing")

RefreshAnswered(t) ==
  /\ At(t, "refreshing")
  /\ Answers(t, "build")
  /\ got' = [got EXCEPT ![t] = machine]
  /\ UNCHANGED checks

RefreshFails(t) == At(t, "refreshing") /\ Fails(t)

(***************************************************************************)
(* A client is built for every known resource, on viam_channel_ as it is   *)
(* now (which constructors have thrown shows when the table is written:    *)
(* an answer that names the same resources builds the clients in vain, and *)
(* those that are missing stay so); then the names are compared with resource_names_, without lock_.   *)
(* Both are vectors: two or more resources in another order are not equal. *)
(* A comparison while another thread writes them is a data race, with any  *)
(* result.                                                                 *)
(***************************************************************************)
Racing(t) == \E u \in Threads \ {t} : pc[u] = "write_names"

Compared(t, same) ==
  /\ Goto(t, IF same THEN OnReturn(t) ELSE "wait_lock")
  /\ got' = IF same THEN [got EXCEPT ![t] = {}] ELSE got
  /\ attached' = IF same THEN attached ELSE attached \cup {t}
  /\ UNCHANGED <<world, conn, logs, names, table, lock, flags, checks, job, fate>>

Build(t) ==
  /\ At(t, "build")
  /\ \/ /\ chan = "closed" /\ Clients(got[t]) # << >>
        /\ Dies("closed_channel_used")
     \/ /\ chan = "open" \/ Clients(got[t]) = << >>
        /\ \/ Compared(t, SameNames(got[t]))
           \/ (\E p, q \in got[t] : p # q) /\ Compared(t, FALSE)
           \/ Racing(t) /\ \E same \in BOOLEAN : Compared(t, same)
           \/ Racing(t) /\ Dies("names_torn")

\* Mutant: the lock is not waited for.
TakeLock_without_lock(t) ==
  /\ At(t, "wait_lock")
  /\ lock' = t
  /\ Goto(t, "write_names")
  /\ UNCHANGED <<world, conn, logs, names, table, attached, got, flags, checks, job, fate>>

TakeLock(t) ==
  /\ At(t, "wait_lock") /\ lock = NoThread
  /\ lock' = t
  /\ Goto(t, "write_names")
  /\ UNCHANGED <<world, conn, logs, names, table, attached, got, flags, checks, job, fate>>

\* Mutant: the names are added to those that are there.
WriteNames_adds(t) ==
  /\ At(t, "write_names")
  /\ names' = names \cup NamesOf(got[t])
  /\ Goto(t, "write_table")
  /\ UNCHANGED <<world, conn, logs, table, lock, attached, got, flags, checks, job, fate>>

WriteNames(t) ==
  /\ At(t, "write_names")
  /\ names' = NamesOf(got[t])
  /\ Goto(t, "write_table")
  /\ UNCHANGED <<world, conn, logs, table, lock, attached, got, flags, checks, job, fate>>

WriteTable(t) ==
  /\ At(t, "write_table")
  /\ \E built \in Builds(got[t]) : table' \in replace_all(built)
  /\ attached' = (attached \ {t, "table"}) \cup {c \in {"table"} : t \in attached}
  /\ lock' = NoThread
  /\ got' = [got EXCEPT ![t] = {}]
  /\ Goto(t, OnReturn(t))
  /\ UNCHANGED <<world, conn, logs, names, flags, checks, job, fate>>

Refresh(t) ==
  \/ CallRefresh(t) \/ RefreshAnswered(t) \/ RefreshFails(t) \/ Build(t)
  \/ TakeLock(t) \/ WriteNames(t) \/ WriteTable(t)

-----------------------------------------------------------------------------
(* refresh_every(): any exception of refresh() ends the thread *)

\* Mutant: the flag is read only once, before the loop.
RefreshLoop_for_ever == At("refresher", "loop") /\ Moves("refresher", "refresh")

RefreshLoop ==
  /\ At("refresher", "loop")
  /\ Moves("refresher", IF should_refresh THEN "refresh" ELSE "done")

Refresher == RefreshLoop \/ Refresh("refresher")

-----------------------------------------------------------------------------
(* check_connection() *)

\* viam_channel_ gets another value, or none: calls in flight are cut off, and
\* the clients that were built on it stay where they are.
Disconnects ==
  /\ attached' = {}
  /\ impl' = IF impl = "null" THEN "null" ELSE "old"
  /\ using' = [t \in Threads |-> IF using[t] = "live" THEN "cut" ELSE using[t]]

\* Mutant: the sink is left installed.
DestroyImpl_keeps_sink ==
  /\ using' = [t \in Threads |-> IF using[t] = "none" THEN "none" ELSE "freed"]
  /\ UNCHANGED <<sink, console>>

\* ~impl(): the sink is removed and the console enabled; calls that use the
\* stub are left with a dangling pointer.
DestroyImpl ==
  /\ using' = [t \in Threads |-> IF using[t] = "none" THEN "none" ELSE "freed"]
  /\ sink' = FALSE
  /\ console' = (console \/ sink)

CheckStart ==
  /\ At("checker", "start")
  /\ should_check' = (should_check /\ (CheckEvery # 0 \/ ReconnectEvery # 0))
  /\ Goto("checker", "check")
  /\ UNCHANGED <<world, conn, logs, data, got, should_refresh, checks, job, fate>>

Check ==
  /\ At("checker", "check")
  /\ i' = 0
  /\ Goto("checker", IF should_check THEN "ping" ELSE "done")
  /\ UNCHANGED <<world, conn, logs, data, got, flags, connected, job, fate>>

Ping == At("checker", "ping") /\ Begin("checker", "pinging")

Pong ==
  /\ At("checker", "pinging")
  /\ Answers("checker", "check")
  /\ connected' = TRUE
  /\ UNCHANGED <<got, i>>

NoPong == At("checker", "pinging") /\ Fails("checker")

\* Mutant: a failed ping does not clear the flag.
PingFailed_stays_connected ==
  /\ At("checker", "ping_failed")
  /\ i' = i + 1
  /\ Goto("checker", IF i + 1 < Tries THEN "ping"
                     ELSE IF connected THEN "check" ELSE "lost")
  /\ UNCHANGED <<world, conn, logs, data, got, flags, connected, job, fate>>

PingFailed ==
  /\ At("checker", "ping_failed")
  /\ connected' = FALSE
  /\ i' = i + 1
  /\ Goto("checker", IF i + 1 < Tries THEN "ping" ELSE "lost")
  /\ UNCHANGED <<world, conn, logs, data, got, flags, job, fate>>

Lost ==
  /\ At("checker", "lost")
  /\ chan' = "closed" /\ link' = FALSE /\ Disconnects
  /\ i' = 0
  /\ Goto("checker", "dial")
  /\ UNCHANGED <<world, logs, names, table, lock, got, flags, connected, job, fate>>

\* uri_ is a pointer into the string at_address was given, which may be gone;
\* at_local_socket never sets it.  Logging it or dialling it may go wrong.
BadAddress == At("checker", "lost") /\ ~AddressKept /\ Dies("bad_address_used")

\* The re-dial has default options: those of the first dial are not kept.
Dialled ==
  /\ At("checker", "dial") /\ up /\ ~NeedsCredentials
  /\ chan' = "open" /\ link' = TRUE /\ Disconnects
  /\ Goto("checker", "new_impl")
  /\ UNCHANGED <<world, logs, names, table, lock, got, flags, checks, job, fate>>

DialFails ==
  /\ At("checker", "dial")
  /\ ~up \/ ~AddressKept \/ NeedsCredentials
  /\ Moves("checker", "dial_failed")

\* impl_ is replaced; the new one has no log sink.
NewImpl ==
  /\ At("checker", "new_impl")
  /\ impl' = "live" /\ DestroyImpl
  /\ Goto("checker", "refresh")
  /\ UNCHANGED <<world, link, chan, data, got, flags, checks, job, fate>>

\* Mutant: the loop runs once more.
AfterDial_one_more == IF i + 1 <= Tries THEN "dial" ELSE "tries_over"

AfterDial == IF i + 1 < Tries THEN "dial" ELSE "tries_over"

\* refresh() returned.  There is no break: the next dial follows.
NextDial ==
  /\ At("checker", "dialled")
  /\ connected' = TRUE /\ i' = i + 1
  /\ Goto("checker", AfterDial)
  /\ UNCHANGED <<world, conn, logs, data, got, flags, job, fate>>

\* The catch block: the channel is closed, connected keeps its value.
DialFailed ==
  /\ At("checker", "dial_failed")
  /\ chan' = "closed" /\ link' = FALSE /\ Disconnects
  /\ i' = i + 1
  /\ Goto("checker", AfterDial)
  /\ UNCHANGED <<world, logs, names, table, lock, got, flags, connected, job, fate>>

Reconnected == At("checker", "tries_over") /\ connected /\ Moves("checker", "check")

\* close() on the checker: the flags, the join of the refresher, then the
\* join of the checker by itself.  That throws, and nothing catches it.
CheckerCloses ==
  /\ At("checker", "tries_over") /\ ~connected
  /\ should_refresh' = FALSE /\ should_check' = FALSE
  /\ Goto("checker", "joining")
  /\ UNCHANGED <<world, conn, logs, data, got, checks, job, fate>>

CheckerJoinsItself ==
  At("checker", "joining") /\ pc["refresher"] = "done" /\ Dies("terminated")

Checker ==
  \/ Refresh("checker")
  \/ CheckStart \/ Check \/ Ping \/ Pong \/ NoPong \/ PingFailed
  \/ Lost \/ BadAddress \/ Dialled \/ DialFails \/ NewImpl \/ NextDial \/ DialFailed
  \/ Reconnected \/ CheckerCloses \/ CheckerJoinsItself

-----------------------------------------------------------------------------
(* The user thread: what it decides to call *)

Calls(j, label) ==
  /\ At("user", "idle") /\ ops < MaxOps
  /\ ops' = ops + 1
  /\ job' = j
  /\ Goto("user", label)
  /\ UNCHANGED <<up, machine, downs, changes, conn, logs, data, got, flags,
                 checks, fate>>

\* resource_by_name for the frame system builds a client there and then.
UserFrameSystem ==
  At("user", "idle") /\ impl # "null" /\ chan = "closed" /\ Dies("closed_channel_used")

\* connect_logging, called by ModuleService once it has its parent.
ConnectLogging ==
  /\ At("user", "idle") /\ ops < MaxOps /\ impl # "null" /\ ~sink
  /\ ops' = ops + 1
  /\ sink' = TRUE /\ console' = FALSE
  /\ UNCHANGED <<up, machine, downs, changes, conn, data, got, flags, checks,
                 job, pc, fate>>

\* An rpc is get_operations, get_machine_status, stop_all, transform_pose ...
UserChooses ==
  \/ Calls("op", "refresh") \/ Calls("op", "rpc")
  \/ Calls("close", "close") \/ Calls("dtor", "close")
  \/ UserFrameSystem \/ ConnectLogging

(* ... and the rest of the call once it is made *)

UserRpc == At("user", "rpc") /\ Begin("user", "rpc_wait")

UserAnswer ==
  /\ At("user", "rpc_wait")
  /\ \/ Answers("user", "idle") /\ UNCHANGED <<got, checks>>
     \/ Fails("user")

\* with_channel throws: the shared_ptr goes, and with it the client.
Unwind ==
  /\ At("user", "unwind")
  /\ job' = "dtor"
  /\ Goto("user", "close")
  /\ UNCHANGED <<world, conn, logs, data, got, flags, checks, fate>>

\* Mutant: close() does not stop the refresher.
CloseFlags_keeps_refreshing ==
  /\ At("user", "close")
  /\ should_check' = FALSE
  /\ Goto("user", "join_refresher")
  /\ UNCHANGED <<should_refresh, world, conn, logs, data, got, checks, job, fate>>

\* Mutant: close() is under lock_.
CloseFlags_under_lock ==
  /\ At("user", "close") /\ lock = NoThread
  /\ should_refresh' = FALSE /\ should_check' = FALSE
  /\ lock' = "user"
  /\ Goto("user", "join_refresher")
  /\ UNCHANGED <<names, table, attached, world, conn, logs, got, checks, job, fate>>

\* Mutant: stop_all comes first, and its exception skips the joins.
CloseFlags_stops_first ==
  /\ At("user", "close")
  /\ should_refresh' = FALSE /\ should_check' = FALSE
  /\ Goto("user", "stop_all")
  /\ UNCHANGED <<world, conn, logs, data, got, checks, job, fate>>

CloseFlags ==
  /\ At("user", "close")
  /\ should_refresh' = FALSE /\ should_check' = FALSE
  /\ Goto("user", "join_refresher")
  /\ UNCHANGED <<world, conn, logs, data, got, checks, job, fate>>

JoinRefresher ==
  At("user", "join_refresher") /\ pc["refresher"] = "done" /\ Moves("user", "join_checker")

\* Mutant: the checker is detached rather than joined.
JoinChecker_detaches == At("user", "join_checker") /\ Moves("user", "stop_all")

JoinChecker ==
  At("user", "join_checker") /\ pc["checker"] = "done" /\ Moves("user", "stop_all")

StopAll == At("user", "stop_all") /\ Begin("user", "stopping")

StopAllEnds ==
  /\ At("user", "stopping")
  /\ \/ Answers("user", "close_channel") /\ UNCHANGED <<got, checks>>
     \/ Fails("user")

\* The exception of stop_all leaves close().
CloseThrew == At("user", "close_threw") /\ Moves("user", "idle")

\* viam_channel_ is closed and impl_ reset: the end of close(), and of the
\* destructor, after which the members go whether or not close() threw.
Release(label) ==
  /\ chan' = "closed" /\ link' = FALSE /\ impl' = "null" /\ DestroyImpl
  /\ attached' = {}
  /\ Goto("user", label)
  /\ UNCHANGED <<world, names, table, lock, got, flags, checks, job, fate>>

CloseEnds ==
  At("user", "close_channel") /\ Release(IF job = "close" THEN "idle" ELSE "destroy")

Destroy == At("user", "destroy") /\ Release("gone")

UserContinues ==
  \/ Refresh("user") \/ UserRpc \/ UserAnswer \/ Unwind
  \/ CloseFlags \/ JoinRefresher \/ JoinChecker \/ StopAll \/ StopAllEnds
  \/ CloseThrew \/ CloseEnds \/ Destroy

-----------------------------------------------------------------------------
(* The machine *)

GoesDown ==
  /\ fate = "running" /\ up /\ downs < MaxDowns
  /\ up' = FALSE /\ link' = FALSE /\ downs' = downs + 1
  /\ UNCHANGED <<machine, changes, ops, chan, impl, using, logs, data, got,
                 flags, checks, job, pc, fate>>

ComesUp ==
  /\ fate = "running" /\ ~up
  /\ up' = TRUE
  /\ link' \in {FALSE, SelfHealing /\ chan = "open"}
  /\ UNCHANGED <<machine, downs, changes, ops, chan, impl, using, logs, data,
                 got, flags, checks, job, pc, fate>>

Reconfigured ==
  /\ fate = "running" /\ changes < MaxChanges
  /\ machine' \in Lists \ {machine}
  /\ changes' = changes + 1
  /\ UNCHANGED <<up, downs, ops, conn, logs, data, got, flags, checks, job, pc, fate>>

-----------------------------------------------------------------------------
\* with_channel has started both threads and is about to call refresh().
Init ==
  /\ up = TRUE /\ machine \in Lists /\ downs = 0 /\ changes = 0 /\ ops = 0
  /\ link = TRUE /\ chan = "open" /\ impl = "live"
  /\ using = [t \in Threads |-> "none"]
  /\ sink = FALSE /\ console = TRUE
  /\ names = {} /\ table = EmptyTable /\ lock = NoThread /\ attached = {}
  /\ got = [t \in Threads |-> {}]
  /\ should_refresh = (RefreshInterval > 0) /\ should_check = TRUE
  /\ i = 0 /\ connected = TRUE /\ job = "ctor" /\ fate = "running"
  /\ pc = [t \in Threads |-> CASE t = "user" -> "refresh"
                               [] t = "checker" -> "start"
                               [] t = "refresher" ->
                                    IF RefreshInterval > 0 THEN "loop" ELSE "done"]

Next ==
  \/ UserChooses \/ UserContinues \/ Refresher \/ Checker
  \/ GoesDown \/ ComesUp \/ Reconfigured

(***************************************************************************)
(* The operating system runs every thread that can run, and sleeps and     *)
(* RPCs end.  What the user calls and what the machine does is up to them. *)
(***************************************************************************)
Fairness == WF_vars(UserContinues) /\ WF_vars(Refresher) /\ WF_vars(Checker)

Spec == Init /\ [][Next]_vars /\ Fairness

-----------------------------------------------------------------------------
(* Properties *)

Labels ==
  {"start", "check", "ping", "pinging", "ping_failed", "lost", "dial", "new_impl",
   "dialled", "dial_failed", "tries_over", "joining", "refresh", "refreshing",
   "build", "wait_lock", "write_names", "write_table", "loop", "done", "idle",
   "rpc", "rpc_wait", "unwind", "close", "join_refresher", "join_checker",
   "stop_all", "stopping", "close_threw", "close_channel", "destroy", "gone"}

\* The types of the variables whose values the control flow depends on.
TypeOK ==
  /\ pc \in [Threads -> Labels]
  /\ using \in [Threads -> {"none", "live", "cut", "freed"}]
  /\ lock \in Threads \cup {NoThread}
  /\ chan \in {"open", "closed"} /\ impl \in {"null", "live", "old"}
  /\ job \in {"ctor", "op", "close", "dtor"}
  /\ i \in 0..Tries

(***************************************************************************)
(* Whenever lock_ is free, the table of resource clients is one that       *)
(* replace_all makes of clients for the resources in resource_names_: no   *)
(* interleaving of the refreshes of the three threads mixes two answers.   *)
(* Of the clients only such may be missing whose constructor may throw     *)
(* (until the list changes: an equal answer does not build them again).    *)
(***************************************************************************)
ReportedBy(ns) == {[api |-> n.api, name |-> short_name(n)] : n \in ns}

TableMatchesNames ==
  lock = NoThread =>
    \E built \in Builds(ReportedBy(names)) : table \in replace_all(built)

(***************************************************************************)
(* A Name out of resource_names_ finds, by its last part alone, nothing    *)
(* but a client of a reported resource with that last part: its own, when  *)
(* no other has it, or else any of those that share it, the API and the    *)
(* remote that the caller gave not being looked at.  It finds none only if *)
(* the constructors of all of them may throw, or if two clients have the   *)
(* same whole name (where replace_all stops, and any may be missing).      *)
(***************************************************************************)
Bearers(n) ==
  {p \in ReportedBy(names) : p.api \in KnownApis /\ get_shortcut_name(p.name) = n.name}

LookupFindsTheOne ==
  lock = NoThread =>
    \A n \in names :
      \/ resource_by_name(n) \in Bearers(n)
      \/ /\ resource_by_name(n) = NoResource
         /\ \/ \A p \in Bearers(n) : p.api \in FragileApis
            \/ ~Loadable(DOMAIN Clients(ReportedBy(names)))

(***************************************************************************)
(* Once impl_ is reset by close() or the destructor, both threads are gone *)
(* and nothing opens the channel again: no refresh or re-dial is left      *)
(* running on a client that the user has closed.                           *)
(***************************************************************************)
ClosedIsQuiet ==
  impl = "null" => /\ chan = "closed" /\ lock = NoThread
                   /\ pc["refresher"] = "done" /\ pc["checker"] = "done"

(***************************************************************************)
(* Log records have somewhere to go: the sink that sends them through the  *)
(* client never outlives the client's impl_, and whenever it is removed,   *)
(* by a close or by a reconnection, the console is on again.               *)
(***************************************************************************)
LogsHaveADestination == (sink => impl # "null") /\ (sink \/ console)

(***************************************************************************)
(* Nobody waits for ever for lock_ or in a join: the threads never wait    *)
(* for each other in a circle, nor for one that has come to an end or is   *)
(* back with the user without having returned lock_.                       *)
(***************************************************************************)
WaitsFor(t, u) ==
  \/ pc[t] = "wait_lock" /\ lock = u
  \/ pc[t] \in {"join_refresher", "joining"} /\ u = "refresher" /\ pc[u] # "done"
  \/ pc[t] = "join_checker" /\ u = "checker" /\ pc[u] # "done"

NoCircularWait ==
  /\ \A t, u \in Threads : WaitsFor(t, u) => pc[u] \notin {"done", "idle", "gone"}
  /\ \A S \in (SUBSET Threads) \ {{}} : \E t \in S : \A u \in S : ~WaitsFor(t, u)

(***************************************************************************)
(* A close() that has come to its end, be it by the exception of stop_all, *)
(* leaves neither a thread nor a held lock behind; the destructor, however *)
(* the close() in it ended, leaves no connection and no sink either.       *)
(***************************************************************************)
CloseLeavesNothing ==
  LET joined == pc["refresher"] = "done" /\ pc["checker"] = "done" /\ lock = NoThread
  IN  /\ pc["user"] = "idle" /\ job = "close" => joined
      /\ pc["user"] = "gone" => /\ joined
                                /\ impl = "null" /\ chan = "closed" /\ attached = {}
                                /\ ~sink /\ console

(***************************************************************************)
(* Once the flag of a background thread is down it stays down, and each    *)
(* step of the thread brings it nearer its end: the joins of close() wait  *)
(* for the pings, dials and refreshes of one round, three of each at most. *)
(***************************************************************************)
\* How far it is to the end of a try, or of a refresh() that returns.
Ahead(l) ==
  CASE l = "dial"        -> 9
    [] l = "new_impl"    -> 8
    [] l = "refresh"     -> 7
    [] l = "refreshing"  -> 6
    [] l = "build"       -> 5
    [] l = "wait_lock"   -> 4
    [] l \in {"write_names", "ping"}   -> 3
    [] l \in {"write_table", "pinging"} -> 2
    [] l \in {"dialled", "dial_failed", "ping_failed", "loop"} -> 1
    [] OTHER -> 0

\* How many steps thread t has left at most, once its flag is down, when it is
\* at label l and the loop counter of check_connection is n.
StepsLeft(t, l, n) ==
  CASE l \in {"check", "joining"} -> 1
    [] l \in {"start", "tries_over"} -> 2
    [] l = "lost" -> 30
    [] l \in {"ping", "pinging", "ping_failed"} -> 30 + 3 * (Tries - 1 - n) + Ahead(l)
    [] t = "checker" /\ Ahead(l) > 0 /\ l \notin {"ping", "pinging", "ping_failed"} ->
         2 + 9 * (Tries - 1 - n) + Ahead(l)
    [] OTHER -> Ahead(l)

ComesNearer(t) ==
  \/ StepsLeft(t, pc'[t], i') < StepsLeft(t, pc[t], i)
  \/ pc'[t] = pc[t] /\ StepsLeft(t, pc[t], i') = StepsLeft(t, pc[t], i)

ThreadsWindDown ==
  [][/\ ~should_refresh => ~should_refresh' /\ ComesNearer("refresher")
     /\ ~should_check => ~should_check' /\ ComesNearer("checker")]_vars

(***************************************************************************)
(* resource_names_ is a view of the machine, as MachineView has it: every  *)
(* change of it puts one whole answer, of those the changing thread asked  *)
(* for in this very refresh(), in the place of the whole list; an answer   *)
(* is not applied only if the list shows it already or another thread is   *)
(* applying one; and nothing is applied any more once impl_ is reset.      *)
(***************************************************************************)
HeldAnswers ==
  [t \in Threads |-> IF pc[t] \in {"build", "wait_lock", "write_names"} THEN {got[t]} ELSE {}]

View == INSTANCE MachineView
          WITH view <- ReportedBy(names), answers <- HeldAnswers, closed <- (impl = "null")

FollowsMachine == View!Spec

(***************************************************************************)
(* close() and the destructor come to an end, by returning or by throwing, *)
(* whatever the two threads are in the middle of: the joins do not wait    *)
(* for a thread that loops on or waits for a lock.                         *)
(***************************************************************************)
CloseTerminates ==
  (pc["user"] = "close") ~> (pc["user"] \in {"idle", "gone"} \/ fate # "running")

(***************************************************************************)
(* As long as the machine stays reachable and the client is not closed,    *)
(* periodic refreshes bring resource_names_ to what the machine reports    *)
(* and keep it there, though refreshes of several threads may be applied   *)
(* in another order than they were answered.                               *)
(***************************************************************************)
RefreshConverges ==
  []up => <>[](names = NamesOf(machine) \/ ~should_refresh \/ fate # "running")

(***************************************************************************)
(* A client that checks its connection gets a working one back after the   *)
(* machine has become reachable for good, unless it was closed or the      *)
(* process ended, or it does not have the machine's address any more.      *)
(***************************************************************************)
ConnectionRecovers ==
  <>[]up => <>[](link \/ ~should_check \/ fate # "running")
-----------------------------------------------------------------------------
(* What the documentation says and the code does not do: each of these is  *)
(* violated, by a run of its own.                                          *)

\* registry.hpp:61, of create_rpc_client: "The lifetime of the returned resource
\* must be a subset of the lifetime of the @p channel with which it was
\* created."  When check_connection has put a new channel in the place of the
\* old one, and its refresh() has returned, the table has no client left that
\* was created with the old one.
ClientsFollowChannel ==
  pc["checker"] = "dialled" => table = EmptyTable \/ "table" \in attached

\* client.hpp:179, of close(): "Disconnect this robot client from any robot
\* to which it is connected."  When check_connection() calls it because it
\* gives up, the process survives that.
CheckerCloseDisconnects == fate # "terminated"

\* dial.hpp:124, of ViamChannel::close(): "No further operations can be
\* performed on the channel afterwards except to assign a new value to it."
\* No call by the client's own threads uses a channel that was closed.
ClosedChannelUnused == fate # "closed_channel_used"

=============================================================================
