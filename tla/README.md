# A TLA+ verification of the Viam C++ SDK

The SDK lets a C++ program talk to a *machine* (a robot run by viam-server), and lets a C++ program *be* a module of
such a machine. This directory models the parts of it that keep state across calls and threads, checks them with TLC
on small instances, and proves their safety properties with TLAPS for every value of the constants. Paths below
are relative to `src/src/viam/sdk/`.

## 1. Inventory: the parts of the system

| part | source | state | operations | used by |
|---|---|---|---|---|
| ResourceManager | `resource/resource_manager.*` | `resources_` (key to resource), `short_names_` (last part of a key to key), a mutex | add, remove, replace_one, replace_all, resource | Server, RobotClient, ModuleService |
| RobotClient | `robot/client.*` | channel, `impl_` (stub, log sink), `resource_names_`, a ResourceManager, `lock_`, two threads and their flags | with_channel, refresh, refresh_every, check_connection, close, resource_by_name, connect_logging, connect_tracing, send_traces, some 15 unary RPCs | user programs; ModuleService, as its parent |
| ModuleService | `module/service.*` | handler map, `parent_`, `parent_addr_`, `lock_`, a Server, a SignalManager | Ready, AddResource, ReconfigureResource, RemoveResource, ValidateConfig, serve, destructor | viam-server, over gRPC |
| Server | `rpc/server.*` | gRPC builder or server, a resource server (and manager) per API | add_resource, lookup_resource_server, register_service, start, wait, shutdown | ModuleService |
| ViamChannel, dial | `rpc/dial.*` | the gRPC channel, the Rust runtime and its proxy path, address, token | dial, dial_initial, dial_direct, close | RobotClient, ViamClient |
| ClientHelper, ClientContext | `common/client_helper.*` | a context per call, debug key, metadata | invoke, invoke_stream | every client |
| ServiceHelper, GrpcContextObserver | `common/private/service_helper.*`, `rpc/grpc_context_observer.*` | thread-local observer, span of the call | operator(), lookup, status | every resource server |
| API, Name, Model | `resource/resource_api.*`, `common/utils.*` | values | from_string, to_string, from_proto, short_name | everything |
| Registry, Instance, Module | `registry/`, `common/instance.*`, `module/module.*` | registrations under a lock; one Instance per process | register, lookup, initialize | RobotClient, Server, ModuleService |
| SignalManager | `module/signal_manager*` | signal mask | wait | ModuleService |
| Logging | `log/` | logger instance, console sink, the core's sinks, level map | init, set level, enable and disable the console | RobotClient |
| Tracing | `tracing/` | provider and its worker, span of a thread | initialize_provider, shutdown_provider, Export | RobotClient, ModuleService, ServiceHelper |
| Component clients and servers | `components/` | none beyond streams and, in a few, extra parameters | some 150 unary RPCs, the streams of board and audio | user programs, viam-server |
| Services | `services/` | as above | as above | as above |
| Data and app clients | `app/` | a channel | queries | user programs |
| Kinematics and reference frames | `referenceframe/`, `common/kinematics.*` | values | parse a kinematics file, walk a chain | arm, gripper, frame system |
| Spatial mathematics | `spatialmath/`, `common/pose.*`, `common/linear_algebra.*` | values | convert poses and orientations | as above |
| ProtoValue, Config | `common/proto_value*`, `config/` | values | copy, move, convert | everything |

**What is hard.** A `RobotClient` is used by three threads that share `viam_channel_` and `impl_` without a lock, and
`resource_names_` with a lock on the writing side only; the checker thread closes and re-opens the connection while
the others use it, and may be the one that closes the client. A module runs one gRPC thread per order and holds
different locks in different orders; user constructors and stops run inside, fail, and take time; the same resources
are used by component calls meanwhile; and a signal may arrive at any point. The two maps of a `ResourceManager` are
kept consistent by hand, over keys that share their last part, in the iteration order of an `unordered_map`, and
exceptions can leave each operation between the two. Logging and tracing are single objects of the process that the
life of *every* client switches on and off, with a worker thread of OpenTelemetry that holds a raw pointer to one of
them. A stream ends in four ways that look alike to the loop that reads it, on a thread that a pool uses again.
`PROJECT.json` lists the hazards one by one, each at its line with the properties aimed at it.

**What makes each part correct.**

- *ResourceManager*: a short name resolves to a registered resource of that name, goes on resolving while a resource of
  that name is there, and is not taken over by a later one; the string of a Name leads to its resource; to other
  threads, and whatever throws, each operation is one step.
- *RobotClient*: the table and the list of names come from one answer of the machine and follow it; a lost connection
  comes back; a close ends, releases the connection and leaves nothing running.
- *ModuleService*: only an add adds; an instance is stopped before it is dropped; a failed step leaves no lock held; the
  parent outlives its users; a signal ends the process.
- *Logging and tracing*: a record goes to one place; a span goes to the parent, also at the end; the exporter
  uses nothing that is gone.
- *Calls and streams*: a thread has the context of its own call; a span tells what the caller was told; the reader of a
  stream that was cut learns it; an abandoned stream gives its thread back.
- *Kinematics*: the walk returns the whole chain in order, and rejects exactly the lists that are none.

## 2. Modules

| module | models | state and actions |
|---|---|---|
| `ResourceTable` | the private operations of ResourceManager (`do_add`, `do_remove`, `replace_all`, `resource`) and `short_name` of Name, as operators on a value `[resources, short_names]` | none: shared by the modules about resources |
| `ResourceManager` | the class, abstractly | `table`; one action per public operation |
| `ResourceStrings` | `to_string` and `from_string` of Name, and where the strings lead in a ResourceManager | extends `ResourceManager` with operators only |
| `ResourceManagerSteps` | the class, statement by statement, on several threads | the two maps, `lock`, and per thread a `pc`, arguments and what its loop has left |
| `RobotClient` | RobotClient, its two threads, one user thread, and the machine | see below |
| `MachineView` | what a RobotClient is to its user | `machine`, `view`, `answers`, `closed`; ask, apply an answer as a whole, drop one, close |
| `ModuleService` | ModuleService, its main thread, the component calls, the Server, the signal | see below |
| `ModuleContract` | what viam-server may conclude from a module's answers | `configured`, `order`, `reply`; one action per kind of request |
| `Telemetry` | log sinks, console and tracer over all the RobotClients of a process | see below |
| `Streams` | a streaming call from invoke_stream to the resource and back | see below |
| `UrdfChain` | walk_urdf_chain | `joints`, `current`, `visited`, `ordered`, `outcome`; `Advance` along the chain, `Stop` |
| `MC*` | the constants of the runs | |
| `*Proofs` | theorems and proofs of the module they are named after | |

**ResourceTable, ResourceManager, ResourceManagerSteps.** A *key* is the string that both maps are indexed by, modelled as the
sequence of its parts between colons: all the code ever does with the string is to split it at colons and to join it
again. A *Name* is `[api, remote, name]`; a part may be empty, as the parts of ":a" are, and has its beginning up to a slash (`BeforeSlash`), since `from_string` splits at
slashes first. Operations whose outcome depends on the iteration order of an `unordered_map`
are relations: `do_remove` is a set of choices of the remote that inherits a shortcut, and `replace_all` the set of tables
its loop can end in, given that the exception of an entry ends it. That operator is declarative. `ResourceManagerSteps`
has the loop itself, and every other statement: it takes the lock, looks a key up, writes one map, then
the other, iterates, and may be left by an exception where the code may. Its `ImplementsResourceManager` is
`Abstract!Spec`, where `Abstract` is `ResourceManager` with `table` replaced by the two maps while the lock is free,
and by what they were when it was taken (`before`) while it is not. So the statements implement the operation exactly, the half-emptied table of a `replace_all` that threw included.

**RobotClient.** Each thread has a `pc`. A unary RPC is two steps, `Begin` and `Answers` or `Fails`, with the impl_ and the channel
possibly replaced in between; `using` remembers whether the stub a call uses is still alive. `refresh()` is: call, answer,
build the clients on the channel as it is, compare *without* the lock, take the lock, write the names, write the table,
and is run by all three threads. The checker pings three times, then closes the channel and dials three times, with no
break on success, as the code does. A client whose constructor throws is left out of what
`refresh()` loads while its Name stays in `resource_names_` (`Builds`, over `FragileApis`); an equal answer returns early, so it is not tried again until the list changes. Where the code races (a call on a closed channel, an answer after its stub was freed,
a comparison during an assignment) the outcome is a choice, and where it can be fatal a variable `fate` says
what ended the process. `close()` is one step per statement: flags, joins, `stop_all`, channel, impl_. `attached` says
whose resource clients were built on the channel that is there now. The address that
the checker logs and dials is a raw pointer: `AddressKept` says whether it still points somewhere; `NeedsCredentials` whether
the machine refuses the re-dial, which has none; `SelfHealing` whether gRPC *may* mend a broken channel by itself.

`MachineView` is the client without its steps: a list that threads replace, as a whole, by an answer that they have got from the
machine, and that nothing changes once the client is closed. It says nothing of the order in which answers are applied, because the code
does not keep it. `FollowsMachine` is the refinement: `view` is `resource_names_`, `closed` is that `impl_` is null, and `answers` holds what a refresh
that has its answer is still going to write (`HeldAnswers`). `CloseLeavesNothing` looks at a close() where the user
gets back control, by a return or by the exception of `stop_all`. `StepsLeft` counts how far a background thread is from its end if its flag is down: the rest of its pings,
of its dials and of one refresh.

**ModuleService.** A *slot* is a gRPC thread; an *instance* is the number of its construction; it is alive while the table
or a handler's local `shared_ptr` has it. `lock` is the service's lock, `mlock` the manager's (held by `replace_one` across the
user's constructor). `torn` records that `parent_` was reassigned while a handler is inside `parent_->refresh()`: what follows
is a choice between going on and dying. A lazy connection is three steps, as in the code: `parent_` is found to be null
(`ConnectsLazily`), the parent is dialled, and `parent_` is assigned (`LazyConnected`), by which time Ready may have assigned it too; and Ready goes on using what it has assigned, to
connect logs and traces (`ParentLogs`). A component call is looked up by what it was given, an order by
the last part of its key (`LookedUp`). `overlapping`, fixed at the start, says whether viam-server sends an order before the last was
answered; component calls overlap with everything in any case. `phase` is the main thread: registering services and starting the server
(which may leave it *deaf*, waiting for a signal without a server), serving, draining the handlers in flight, and destroyed. A signal may be sent in any
phase and stays pending until the wait, because the constructor of SignalManager blocks it.

`ModuleContract` is the same from outside: a set of configured resources, and requests that are each answered in one step that does
all it does to that set. An order that is refused has done nothing; an add that is OK has added; a removal or a reconfiguration that is OK found its resource, unless
orders overlap; a component call is told NOT_FOUND only of a resource that is not configured, and waits for one that is being rebuilt. A reconfiguration that is OK may have
lost the resource, because `replace_one` swallows what the constructor throws. `ImplementsContract` is the refinement, with `configured` replaced by the
keys of the table and of what is being rebuilt under the manager's lock (`Present`).

**Telemetry.** A process has one console, one core of log sinks, and one Tracer. They are connected by Ready (`MakeParent`,
`Connect`) and disconnected by the destructor of *any* `RobotClient::impl` (`DestroyImpl`), of which there is one at the end of each
client and one at each re-dial. An *impl* is a client and a number, and every statement that changes where something goes is a
step of the gRPC thread in Ready, of the main thread in the destructor, or of the thread of a
client that the program has made for itself. The parent itself is not re-dialled: it comes from `at_local_socket`, whose channel has no address (`dial.cpp:61-62`),
so its checker, having lost it, ends the process (`BadAddress` in `RobotClient`), which here is a behaviour that stops.

Two races are outcomes of the model and not excluded by it. `sdk_provider_` has no lock (`tracer.cpp:108-142`): a thread that comes to the Tracer while
another is there takes `MeetInTracer`. `parent_` is read and made without `lock_` by a ReconfigureResource (`service.cpp:282-299`): `HandlersMeet` is such a handler beside a
Ready that is at it. What follows either is undefined; `fate` says which it was, no step is taken after it, and the properties are of the time before. `EndSpan`, `Export` and `Exported` are the processor and its worker.

**Streams.** The client's loop (`Read`, `ReadEnds`, `Finish`), the transport with its window, and the thread that runs
the resource server (`Enter`, `Tick`, `Write`, `Return`, `Throw`, `Leave`). `Disturb` ends a call from the transport's side:
a broken connection, or the viam-server between program and module that cancels; the server learns of it at once. The two callables that stream are void: that
a callable may return a `grpc::Status` of its own, as some unary ones do (`service_helper.hpp:102-106`, `span_guard.cpp:108-117`), is not modelled. `gap` observes whether a message was lost.

**External parts**, modelled from how the code uses them: the machine (`GoesDown`, `ComesUp`, `Reconfigured`), gRPC's
threads and its draining shutdown, the transport, viam-server's requests, and OpenTelemetry's batch processor.

## 3. Runs

All bounds are named constants.

| run | checks | shows |
|---|---|---|
| `resource_manager` | `TypeOK`, `NoDanglingShortcut`, `StringsReachResources`, `ShortcutOutlivesRemoval`, `AddKeepsResolution` | for every sequence of operations on six Names, a colon in front and an empty name included: shortcuts lead to resources of that name, survive removals, are not taken over; the string of a Name with at most one remote, no slash and no colon in front leads to the entry of its Name (of others `from_string` makes another Name) |
| `manager_steps` | `ImplementsResourceManager`, `LookupsAreAtomic` | two threads, every iteration order, every exception: each operation is one step of `ResourceManager`, and a lookup, which reads both maps, answers from one table |
| `robot_client` | `TypeOK`, `TableMatchesNames`, `LookupFindsTheOne`, `ClosedIsQuiet`, `LogsHaveADestination`, `NoCircularWait`, `CloseLeavesNothing` | refreshes of three threads do not mix, and of the clients of `resource_names_` only such are missing whose constructor may throw; a lookup finds a client with the last part it asks for, and one that can be made and does not clash is found; nothing runs on a closed client; the log sink never outlives what it refers to; no threads wait for each other in a circle; a close() that has come back, even by an exception, has left no thread and no lock, and the destructor no connection |
| `robot_liveness` | `CloseTerminates`, `RefreshConverges`, `ConnectionRecovers`, `ThreadsWindDown`, `FollowsMachine` | the client implements `MachineView`; once close() was called every step of a background thread brings it nearer its end; close() and the destructor end, whatever the threads are doing; while the machine is reachable, the names become and stay what it reports, although answers are applied out of order; a checked connection comes back when the machine does |
| `module_service` | `TypeOK`, `LocksAreReturned`, `ParentOutlivesHandlers`, `OldGoneBeforeNew`, `ImplementsContract`, `OnlyAddAdds`, `StoppedBeforeGone`, `ShutdownEnds` | each request is, for viam-server, done or refused in one step, as its status says; failures at every step, overlapping orders and a signal leave no lock held and nobody waiting in a circle, no handler without its parent, and nothing in the table that no add put there; if orders come one at a time and names are local, an instance is stopped before it leaves the table (with overlapping orders it need not be), out of every hand but that of a component call when the new one is made, and no AddResource is inside a parent that was replaced; after a signal the process ends |
| `telemetry` | `TypeOK`, `ExporterClientAlive`, `RecordsGoToOnePlace`, `SpansSurviveExit` | Ready, the destructor and two clients of the program's own, each step between any two of the others, until two threads meet in the Tracer or two handlers at `parent_`: the worker's client and stub are there, a record goes to one place, and the end of the module drops no span; meeting in the Tracer takes a client of the program's own |
| `streams` | `TypeOK`, `ObserverIsOwn`, `SpanTellsTheOutcome`, `NoSilentTruncation`, `AbandonedStreamsEnd`, `AbandonedStreamsWindDown` | exceptions and cancellations from any side leave no observer behind and no span open; invoke_stream returns normally only after all that the resource sent, or at the handler's own wish; a thread goes straight to its end, and comes back, when the reader is gone |
| `urdf_chain` | `TypeOK`, `ReturnsTheChain`, `RejectsNoChain` | on every list of up to four joints between four links: the whole chain in order, or a rejection of what is no chain |

Four times the code does something else than its documentation says. Each has a run with a single property, stating the
quoted sentence, that TLC finds violated:

| run | property | what TLC finds |
|---|---|---|
| `checker_close` | `CheckerCloseDisconnects` | the machine wants credentials, which a re-dial does not have; the checker gives up, calls close(), joins itself: std::terminate |
| `closed_channel` | `ClosedChannelUnused` | a call through a channel that the checker closed, also by the checker's own next ping after a dial that failed |
| `clients_follow` | `ClientsFollowChannel` | after a re-dial an unchanged list makes refresh() return early, and the table keeps the clients of the closed channel (the sentence is a remark on `create_rpc_client`: a client's lifetime must be within its channel's) |
| `telemetry_spans` | `SpansFlowToParent` | closing a RobotClient that the module's code made for itself shuts down the provider that exports through the parent, and nothing installs one again |

The models also have, without a run of their own:

- a throwing constructor in `replace_one` leaves the key unregistered, since the old entry went first (`resource_manager.hpp` calls it
  a no-op for another reason, the entry's absence), and ReconfigureResource then answers OK, because `replace_one` swallows the exception;
- close() on a lost connection throws out of `stop_all` and stays connected until the destructor;
- a client whose constructor throws is missing until the list of resources changes, as is what an entry that clashes keeps from being loaded;
- with orders that overlap, an instance that another order put in between a stop and a removal leaves the table without having been stopped;
- one failed refresh ends the refresh thread for good;
- the old instance of a resource may still be in a component call while its replacement is constructed (but nowhere else, `OldGoneBeforeNew`);
- a ReconfigureResource that makes a parent lazily and a Ready that makes one at the same time assign `parent_` under each other: either may be left inside a client
  that is destroyed (`torn`), the Ready in its `connect_logging` included;
- a connection is checked and re-dialled although `reconnect_every_interval` is 0 when only `check_every_interval` is set;
- a re-dial of an address pointer that was never set or dangles (`BadAddress`);
- a Ready that fails to connect, and whose retry with the same address does nothing (`ConnectFails`).

**Bounds and why they are enough.**

- *ResourceManager*: the state is finite once the Names are, so there is no bound on the
  length of a sequence of operations; six Names give every relation two keys can have (same key under two APIs, one
  last part locally, behind one remote and behind two, the two spellings of a remote resource, the empty name, a colon in front). For the
  statements, two threads are the fewest that interleave, and four Names keep a shortcut with two possible heirs and
  a key under two APIs; threads and resources are symmetric.
- *RobotClient*: `MaxDowns` and `MaxChanges` 1 let a failure and a change fall between any two steps of the three threads (`closed_channel` takes two
  failures, the second into the recovery from the first); `MaxOps` 2 gives a call and a close, or a close and the destructor. `Tries` is the code's
  own 3. The lists grow, shrink, have the same last part behind two remotes, clash under two APIs, hold an unregistered API and one whose clients'
  constructors may throw. `ConnectionRecovers` is therefore about one loss of the connection and what that leads to, and only where the process goes on (`fate`).
- *ModuleService*: two slots are the fewest that overlap, and four requests suffice to add, change and look at a resource twice;
  one key is enough for slots to contend for, since resources of different keys meet only in the locks.
- *Telemetry*: a parent that is replaced once, two clients of the program's own, so that they also meet each other, and two impls for each client (`MaxGen`): every
  destruction falls between the steps of another one's connection. `telemetry_spans` needs one of each. `MaxSpans` 2 lets a batch be exported while another span waits.
- *Streams*: two calls and two threads have both the overlap and the second call on a thread that has served one; a window
  of 2 fills and is written to when full. The number of ticks is not bounded.
- *UrdfChain*: with four joints there are loops with a tail, islands, branches, repeated joints, and the chain in all its orders. Four links have
  chains of up to three joints; longer ones are covered by the theorem.

**Fairness.** `RobotClient`: weak fairness of each of the two threads and of the *rest* of a call of the user once made
(`UserContinues`), because the operating system runs a runnable thread and sleeps and RPCs end (the SDK's own calls have
no deadline, but a broken gRPC connection fails them). What the user decides to call and what the machine does is not fair, and
a channel that may heal by itself need not. `ModuleService`: weak
fairness per handler and of the main thread: gRPC runs a thread per request, and user code is taken to return or throw. A
handler that waits for a mutex needs no strong fairness here because the number of requests is bounded: nobody can overtake for ever. The same
bound keeps the model from saying anything on starvation by `std::mutex`. `Streams`: weak fairness of the server's side of each call
(`Proceed`): gRPC gives a queued call to a thread, the thread is scheduled, and a resource whose handler is running goes on having ticks; that it
ever ends by itself is not assumed, nor that the reader reads. Deadlock checking is off where the program
ends (a closed client, a module that is gone, a walk that is over).

## 4. Theorems

Every safety property of the passing runs is proved, for every value of the constants.

| module | theorems | states |
|---|---|---|
| `ResourceManagerProofs` | `ResourceManagerTypeOK`, `ShortcutsNeverDangle`, `StringsLeadToResources`; `SimpleNamesOutliveRemoval`, `AddsKeepResolution` | the invariants and the two action properties of `resource_manager`, for any set of Names and Resources |
| `ResourceManagerStepsProofs` | `StepsImplementManager`, `LookupsReadOneTable` | the refinement, for any number of threads and any batches, and the atomicity of lookups |
| `RobotClientProofs` | `ClientTypeOK`, `RefreshesDoNotMix`, `LookupsFindTheOne`, `ClosedStaysQuiet`, `LogsAlwaysGoSomewhere`, `ThreadsNeverDeadlock`, `ClosesLeaveNothing`; `BackgroundThreadsWindDown`; `ClientFollowsMachine` | the invariants of `robot_client`, and the action property and the refinement of `robot_liveness`, for any answers of the machine, any intervals and any number of failures, changes and calls |
| `ModuleServiceProofs` | `ModuleTypeOK`, `LocksAlwaysReturned`, `ParentOutlives`, `OldAlwaysGoneBeforeNew`; `OnlyAddsAdd`, `StoppedBeforeTheyGo` | the safety properties of `module_service`, for any number of threads, keys, models and requests |
| `ModuleContractProofs` | `ModuleKeepsItsContract` | the refinement, for any number of threads and requests, when all names are local |
| `TelemetryProofs` | `TelemetryTypeOK`, `ExporterKeepsItsClient`, `OneDestination`; `ExitFlushes` | the safety properties of `telemetry`, for any number of parents, other clients, re-dials and spans |
| `StreamsProofs` | `StreamTypeOK`, `ObserversAreOwn`, `SpansTellTheOutcome`, `StreamsAreNotTruncated`; `AbandonedStreamsOnlyWindDown` | the safety properties of `streams`, for any number of calls and threads and any window |
| `UrdfChainProofs` | `WalkTypeOK`, `WalkReturnsTheChain`, `WalkRejectsNoChain` | the invariants of `urdf_chain`, for any list of joints |

*Assumptions.* They are the named `ASSUME`s of the modules, and TLC evaluates them in every run: Names are records with
non-empty sequences of parts, none with the remote that is one empty part; the null pointer is no resource; an answer of the machine is a set of API and key, no key of several parts beginning with a colon;
intervals and bounds are naturals and switches Booleans; the strings that stand for "nobody" name no thread and no client; an instance is a number; parents are not
clients of the program's own. Keys of a module have at most two parts. That they have one (`LocalKeys`) is a
hypothesis of two theorems, `StoppedBeforeTheyGo` and `ModuleKeepsItsContract`: with others an order finds by last part what its removal by key then misses.

*ResourceManager.* The inductive invariant is `Well(table)`: both maps have their types, and every shortcut leads to a key that is in
`resources` and has the shortcut as its last part. The types and `NoDanglingShortcut` are inductive together and not alone: `do_remove`
erases only the shortcut of the last part of the key it removes, and that no *other* shortcut can lead to this key is what
`NoDanglingShortcut` says of the state before. One lemma each says that `do_add`, `do_remove` and `replace_all` keep `Well`, and the action
properties follow from `Well` before the step.

*ResourceManagerSteps.* The invariant says, label by label, how far the maps are from `before`: after the erasure of an entry they are `before`
without it; in the middle of a restoring loop no remote that was passed could have been the heir; in the middle of a
`replace_all` the maps are what the entries done so far make, the first entry with a last part having taken its shortcut. What is left to show at the release of the lock is
that this is a possible result of the abstract operation, and each of the ways out of an operation has a lemma.

*RobotClient.* The inductive invariant is `Typed /\ Writing /\ TableMatchesNames /\ Joined /\ Jobs /\ Quiet`. `TableMatchesNames`
alone is not inductive: it says nothing while the lock is held. `Writing` says that exactly the holder of `lock` is
at "write_names" or "write_table", and that at "write_table" `names` are those of its own answer, so the table it is about to write
will match, up to the clients whose constructors threw. The argument then needs the fact that names determine the answer (the round trip of `from_proto` and `short_name`). `ClosedIsQuiet` needs to know how
`impl_` became null: `Joined` says that the user thread past a join has seen that thread end, `Jobs` which
job is at which label, and `Quiet` that with a null `impl_` the channel is closed, both threads have ended and no refresh of the
user thread is under way (one that was would take the lock again). `LookupsFindTheOne` follows from `TableMatchesNames` and what
`replace_all` does with the clients it is given: an exact key or a shortcut leads to one of those that have the last part.

Four results rest on that invariant and two more. `Places` says which label each of the three threads can be at: only the user joins, the
checker only when it closes, and it is then the joined one. So whoever holds `lock_` waits for nobody, a join waits for the refresher or the
checker, and neither of them joins the user: in a set of waiting threads the holder of the lock, or the checker, or the refresher waits for none of
the set (`ThreadsNeverDeadlock`). `CloseEnded` says what has been joined and reset by the time the user has control again, and by which way: it is
`CloseLeavesNothing` with the labels of close() between. `BackgroundThreadsWindDown` has one lemma for each action of the two loops, about the number of steps that
are left after it (`Ahead` for the refresh in the middle, whose label determines it). `ClientFollowsMachine` maps each step of the three threads: a refresh asks with the answer,
applies with the write of the names, drops where it compares equal or where the comparison raced, the racing thread being one that has an answer to apply;
every other step changes neither the names nor who holds an answer. That `impl_` is reset only when nobody holds one is `Quiet`.

*ModuleService.* `Jobs` says which request is at which label, and so which lock it holds; `InHand` what a handler that has looked an
instance up may believe of it; `Drains` that past the draining no handler is left; `OneAtATime` that without overlapping there is at most one order.
`StoppedBeforeGone` needs the last two: between its stop and its removal nobody else could replace the instance.
That the handlers wait in no circle (`NoCircularWait`, a part of `LocksAreReturned`) needs only what the locks' holders are doing: who has the manager's lock is in the user's constructor and waits for nobody, who
has `lock_` waits at most for the manager's. Two further invariants are inductive on top of the first. `Kept`: from the lock on, AddResource
and Ready have `lock_` to the end (`LockKept`), and who is torn is inside `parent_` (`TornInside`), which gives the second half of `ParentOutlivesHandlers`; who assigns `parent_` is then Ready, which an AddResource excludes, or
an order, of which there is one. `Clear`: whoever rebuilds has the manager's lock, the key stays out of the table that long, and a handler has
an instance only between its lookup or construction and its end. The first half of `OldGoneBeforeNew` therefore holds whatever overlaps, the second with one order at a time.

*ModuleContract.* On top of that invariant, whoever is in `replace_one` has the manager's lock (`Rebuilding`), so a lookup that
gets the lock sees in the table all that is Present; and with one order at a time the resource that was looked up is still there (`Found`). The theorem
assumes that keys have one part (`LocalKeys`): viam-server gives a module local names, and with others a lookup by short name finds a resource which the
removal by key then misses. Every step is hidden or is an answer, and the lemmas go through the actions one by one.

*Telemetry.* The inductive invariant has four parts. *Control*: which thread is at which statement with which job, and that one thread at a time is
past the call of `shutdown_provider`: whoever came second took `MeetInTracer`, after which nothing moves. *Life*: whose impl each thread destroys, that it is joined, or older than
the one its client has, and that an open parent is `parent_` or the one that is about to be closed. *Exporter*: from the creation of a provider to the join of its worker,
the client it points to is `parent_`, or the old parent that Ready is destroying, because whoever frees a client passes
through the Tracer first and finds the provider there. *Records*: the console is off only while a sink is installed, or about to be, and
the one impl that has a sink is the parent's. That Ready and the main thread are never both at work is why a race takes a client of the program's own.

*Streams.* A thread is in a call exactly as long as its observer is (`Idle`), and a call that is over has its status and its span of the same outcome (`Over`, `Returned`);
messages are lost only by a transport that has ended the call (`Lost`), which the client then sees in what `Finish` gives it (`Finishing`). `AbandonedStreamsOnlyWindDown` is the safety half of `AbandonedStreamsEnd`: what is left for TLC is that the steps are taken.

*UrdfChain.* `Path` says that the joints passed form a path from the root without repetition, `Follows` that each
was the only way on, and `Ended` what an outcome says of the list. That a path of all joints is *the* chain, and that a list with a chain has one
root and no branch, are lemmas about finite sequences.

*Only model-checked.* The liveness properties (`CloseTerminates`, `RefreshConverges`, `ConnectionRecovers`, `ShutdownEnds`,
`AbandonedStreamsEnd`): liveness under fairness, and ENABLED, are out of the prover's reach, as is what a recursive definition
computes for every input, for which reason the models define nothing recursively. And the four violations, which are about single behaviours.
Of `CloseTerminates` and `AbandonedStreamsEnd` the safety half is proved (`ThreadsWindDown`, `AbandonedStreamsWindDown`: each step comes nearer the end), and of `CloseTerminates` and
`ShutdownEnds` that nobody waits in a circle (`NoCircularWait`, `LocksAreReturned`).

## 5. What is not modelled

- The payloads of RPCs and their conversions (among them `audio_in_client.cpp:52`, which does not copy the time stamps of a chunk); the generated code; floating-point
  mathematics; the services and the data and app clients, whose methods are single calls without state.
- *RobotClient*: `log()`, which reads impl_ without a lock and throws while it is null (`client.cpp:502`); the metadata of a call. Of
  the options of a dial, only that a re-dial has no credentials. Several user threads on one client are not modelled: the class does not say that they may.
- *ModuleService*: the handler map and the models registered with it (constant once serving; an API registered after the Server was made gets no resource
  server), `ValidateConfig` (no state), resources that are not `Stoppable` (a stop of one is a no-op; here every
  stop may throw), several APIs (one manager each, independent), the stop_all that the destructor of a replaced parent makes, and
  one refresh of the parent per dependency (here one for all; its effects on the parent are RobotClient's).
- *ResourceManager*: `resources()`, which returns a reference to a map that other threads write; what a constructor that `replace_one` runs under
  the lock may call.
- *Telemetry*: what happens once two threads have met in the Tracer, or a ReconfigureResource has made or used a parent beside Ready (both sinks may stay, or the
  console come on beside one): the model says when this happens, and by whom, and stops. A client is not re-dialled and closed at a time, since close() joins its checker.
- *Streams*: callables that return a `grpc::Status`; the delay with which a server learns of a cancellation.
- *Dial*: the attempts and timeouts of `dial_initial`, which rethrows a copy of the base class and does not dial at all for a count of attempts
  that is not positive, the authentication of `dial_direct`, and the ownership of the Rust runtime.
- *Registry* and *Instance*: registration is meant to happen before anything else and is then constant. What could go wrong lies outside
  the program's ordinary life: `register_resource_server` and its neighbours write without the lock that lookups take (`registry.cpp:106-137`); `Registry::get()` keeps a static
  reference into an Instance that may end; and between the compare-and-swap of `instance.cpp:25` and the creation of its impl another thread
  finds an instance without one.
- *ProtoValue*: its visible state is a value, and what could be wrong with copies and moves is the life of the objects behind it, in one thread.
- The Windows variant of SignalManager; an allocation failure; a thread that cannot be started.

## 6. Plan

Done, in this order: `ResourceTable` and `ResourceManager`; `RobotClient`; `ModuleService`; `ModuleContract`; the manager's statements and their
refinement; `Telemetry`; `Streams`; `UrdfChain`; the proofs of all their safety properties; `MachineView` and that the client implements it; the absence of
circular waits, and the safety halves of the ends of threads and streams. Left, by importance:

1. `Dial`: the attempts and timeouts of `dial_initial`, the authentication of `dial_direct` and the owner of the Rust runtime, composed with
   `RobotClient`, whose re-dials would then have credentials or not as the code gives them.
2. `Registry` and `Instance`: registration against lookup, one initialisation, the order of destruction; `Server` with what throws in which phase.
3. `ProtoValue`: owners under copy and move.
