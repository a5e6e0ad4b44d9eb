----------------------------- MODULE Telemetry -----------------------------
(***************************************************************************)
(* Where a module's log records and spans go.  One process has one Tracer, *)
(* one console sink and one core of log sinks; they are connected to the   *)
(* machine through whichever RobotClient is the module's parent, and are   *)
(* disconnected by the destruction of any RobotClient::impl: when Ready    *)
(* replaces the parent, when the module ends, and when a RobotClient that  *)
(* the program made for itself is re-dialled or closed.  A worker of       *)
(* OpenTelemetry exports spans meanwhile, through the client it was given  *)
(* a pointer to.                                                           *)
(*                                                                         *)
(* Every statement that changes where something goes is a step.  Neither   *)
(* the Tracer nor parent_ has a lock of its own.  When two threads are in  *)
(* the Tracer at a time (MeetInTracer), or two handlers at parent_         *)
(* (HandlersMeet), what follows is undefined; fate records it, no step is  *)
(* taken after it, and the properties are of the time before.              *)
(*                                                                         *)
(* A parent is not re-dialled: its channel has no address, so the checker  *)
(* that has lost it ends the process (BadAddress in RobotClient), which    *)
(* here is a behaviour that stops.                                         *)
(***************************************************************************)
EXTENDS Naturals, FiniteSets

CONSTANTS
  Parents,   \* the RobotClients that Ready may make, one after the other
  Others,    \* the RobotClients that the program makes
  MaxGen,    \* bound: the impls that one client may have
  MaxSpans   \* bound: the spans that wait to be exported

Clients == Parents \cup Others
Nobody  == "nobody"

ASSUME ClientsAssumption == Parents \cap Others = {} /\ Nobody \notin Clients
ASSUME BoundsAssumption  == MaxGen \in Nat \ {0} /\ MaxSpans \in Nat \ {0}

Null  == 0                       \* an impl_ that is null
Impls == Clients \X (1..MaxGen)  \* a client and the number of its impl
NoImpl == <<Nobody, Null>>

\* The handler that is connecting a parent, the main thread, and the thread of
\* each other client: its user's, or its checker, which close() waits for.
ready   == "ready"
main    == "main"
Threads == {ready, main} \cup Others

ASSUME ThreadsAssumption == {ready, main} \cap Others = {}

VARIABLES
  phase,     \* of each client: "none", "open", "joined" (its threads have ended) or "gone"
  gen,       \* impl_ of each client: the number of the impl, or Null
  alive,     \* the impls whose stub has not been freed
  logs,      \* the impls that have a log_sink
  sinks,     \* the log sinks that the logging core has
  console,   \* whether the console takes unforced records
  enabled,   \* not is_env_var_false("VIAM_MODULE_TRACING")
  provider,  \* sdk_provider_: the client its exporter points to
  global,    \* the provider that spans are started with
  running,   \* the client of the exporter whose worker has not been joined
  stopping,  \* whether that worker has been told to stop
  spans,     \* the spans it has not taken
  sending,   \* the impl through whose stub it is sending
  parent,    \* parent_
  traced,    \* the client that connect_tracing was last called with (an observer)
  pc, job,   \* of each thread: its next statement, and what it is doing
  target,    \* of each thread: the impl it is destroying
  fate       \* "running", or which race ended what can be said

logging == <<logs, sinks, console>>
tracing == <<provider, global, running, stopping, spans, sending>>
clients == <<phase, gen, alive>>
threads == <<pc, job, target>>
state == <<clients, logging, tracing, threads, enabled, parent, traced>>
vars == <<state, fate>>

-----------------------------------------------------------------------------
At(t, label) == fate = "running" /\ pc[t] = label

Goto(t, label) == pc' = [pc EXCEPT ![t] = label]

Enter(t, label, j, i) ==
  /\ Goto(t, label)
  /\ job' = [job EXCEPT ![t] = j]
  /\ target' = [target EXCEPT ![t] = i]

Stay(t) == UNCHANGED <<job, target>>

\* Using sdk_provider_ or about to set it; who finds it null has left again.
InTracer == {"stop", "join", "noop", "drop", "install", "publish"}

TracerIsFree(t) == \A u \in Threads \ {t} : pc[u] \notin InTracer

-----------------------------------------------------------------------------
(***************************************************************************)
(* ~impl and the Tracer.                                                   *)
(***************************************************************************)

\* impl_.reset() leaves a null pointer before the destructor runs; when close()
\* threw, it is ~RobotClient that destroys the impl, and the pointer stays.
ResetImpl(t) ==
  /\ At(t, "reset")
  /\ gen' \in {gen, [gen EXCEPT ![target[t][1]] = Null]}
  /\ Goto(t, "sink")
  /\ Stay(t)
  /\ UNCHANGED <<phase, alive, logging, tracing, enabled, parent, traced, fate>>

\* Mutant: the core keeps the sink.
RemoveSink_not(t) ==
  /\ At(t, "sink")
  /\ Goto(t, IF target[t] \in logs THEN "console" ELSE "tracer")
  /\ Stay(t)
  /\ UNCHANGED <<clients, logging, tracing, enabled, parent, traced, fate>>

\* Nothing happens without a log_sink.
RemoveSink(t) ==
  /\ At(t, "sink")
  /\ sinks' = sinks \ {target[t]}
  /\ Goto(t, IF target[t] \in logs THEN "console" ELSE "tracer")
  /\ Stay(t)
  /\ UNCHANGED <<clients, logs, console, tracing, enabled, parent, traced, fate>>

EnableConsole(t) ==
  /\ At(t, "console")
  /\ console' = TRUE
  /\ Goto(t, "tracer")
  /\ Stay(t)
  /\ UNCHANGED <<clients, logs, sinks, tracing, enabled, parent, traced, fate>>

\* Where a thread goes on after shutdown_provider.
AfterShutdown(t) ==
  CASE job[t] = "connect" -> IF enabled THEN "install" ELSE "disabled"
    [] job[t] = "exit"    -> "release"
    [] OTHER              -> "free"

\* Mutant: ~impl leaves the provider alone.
CallShutdown_not_from_impl(t) ==
  /\ At(t, "tracer") /\ TracerIsFree(t)
  /\ Goto(t, IF provider = Nobody \/ job[t] \notin {"connect", "exit"} THEN AfterShutdown(t) ELSE "stop")
  /\ Stay(t)
  /\ UNCHANGED <<clients, logging, tracing, enabled, parent, traced, fate>>

\* shutdown_provider(): nothing without a provider.  A thread that comes while
\* another is there is not kept out: MeetInTracer.
CallShutdown(t) ==
  /\ At(t, "tracer") /\ TracerIsFree(t)
  /\ Goto(t, IF provider = Nobody THEN AfterShutdown(t) ELSE "stop")
  /\ Stay(t)
  /\ UNCHANGED <<clients, logging, tracing, enabled, parent, traced, fate>>

\* sdk_provider_ is read by this thread while another one replaces it, resets it
\* or shuts down what it points to.
MeetInTracer(t) ==
  /\ At(t, "tracer") /\ ~TracerIsFree(t)
  /\ fate' = "raced"
  /\ UNCHANGED state

\* sdk_provider_->Shutdown(): no span is taken any more, the worker exports
\* those it has, and is joined.
StopWorker(t) ==
  /\ At(t, "stop")
  /\ stopping' = TRUE
  /\ Goto(t, "join")
  /\ Stay(t)
  /\ UNCHANGED <<clients, logging, provider, global, running, spans, sending, enabled, parent, traced, fate>>

JoinWorker(t) ==
  /\ At(t, "join")
  /\ spans = 0 /\ sending = NoImpl
  /\ running' = Nobody
  /\ Goto(t, "noop")
  /\ Stay(t)
  /\ UNCHANGED <<clients, logging, provider, global, stopping, spans, sending, enabled, parent, traced, fate>>

SetNoop(t) ==
  /\ At(t, "noop")
  /\ global' = Nobody
  /\ Goto(t, "drop")
  /\ Stay(t)
  /\ UNCHANGED <<clients, logging, provider, running, stopping, spans, sending, enabled, parent, traced, fate>>

DropProvider(t) ==
  /\ At(t, "drop")
  /\ provider' = Nobody
  /\ Goto(t, AfterShutdown(t))
  /\ Stay(t)
  /\ UNCHANGED <<clients, logging, global, running, stopping, spans, sending, enabled, parent, traced, fate>>

\* The members of impl, and after a close the client: what the thread does next
\* is connect the logs of a new parent, or end.
Free(t) ==
  /\ At(t, "free")
  /\ alive' = alive \ {target[t]}
  /\ logs' = logs \ {target[t]}
  /\ phase' = IF job[t] = "redial" THEN phase ELSE [phase EXCEPT ![target[t][1]] = "gone"]
  /\ gen' = IF job[t] = "redial" THEN gen ELSE [gen EXCEPT ![target[t][1]] = Null]
  /\ IF job[t] = "replace" THEN Enter(t, "create", "connect", NoImpl)
     ELSE IF job[t] = "release" THEN Enter(t, "ended", "none", NoImpl)
     ELSE Enter(t, "idle", "none", NoImpl)
  /\ UNCHANGED <<sinks, console, tracing, enabled, parent, traced, fate>>

DestroyImpl(t) ==
  \/ ResetImpl(t) \/ RemoveSink(t) \/ EnableConsole(t) \/ CallShutdown(t) \/ MeetInTracer(t)
  \/ StopWorker(t) \/ JoinWorker(t) \/ SetNoop(t) \/ DropProvider(t) \/ Free(t)

-----------------------------------------------------------------------------
(***************************************************************************)
(* The clients' lives.                                                     *)
(***************************************************************************)

\* with_channel makes a client, whose impl is its first.
Opened(c) ==
  /\ phase' = [phase EXCEPT ![c] = "open"]
  /\ gen' = [gen EXCEPT ![c] = 1]
  /\ alive' = alive \cup {<<c, 1>>}

\* Ready, with an address it has not had, or, after a Ready that failed, a
\* dependency looked up without a parent (which connects the logs only): a
\* client is made, and closed again when its first refresh fails; otherwise it
\* takes the place of the old one.
MakeParent(p, lazily) ==
  /\ At(ready, "idle") /\ pc[main] = "idle"
  /\ phase[p] = "none"
  /\ lazily => parent = Nobody /\ \E q \in Parents : phase[q] = "gone"
  /\ Opened(p)
  /\ \/ Enter(ready, "close", "fail", <<p, Null>>) /\ UNCHANGED parent
     \/ /\ parent' = p
        /\ IF parent # Nobody THEN Enter(ready, "close", "replace", <<parent, Null>>)
           ELSE Enter(ready, "create", IF lazily THEN "lazy" ELSE "connect", NoImpl)
  /\ UNCHANGED <<logging, tracing, enabled, traced, fate>>

\* Ready and AddResource hold lock_ while they are at parent_, but a
\* ReconfigureResource that looks for a dependency does not: it reads parent_
\* while another handler replaces it, or makes a second one.
HandlersMeet ==
  /\ fate = "running" /\ pc[ready] # "idle"
  /\ fate' = "handlers_met"
  /\ UNCHANGED state

\* close() of a parent has joined its threads.
ClosesParent(t) ==
  /\ At(t, "close")
  /\ LET c == target[t][1]
     IN /\ phase' = [phase EXCEPT ![c] = "joined"]
        /\ Enter(t, "reset", job[t], <<c, gen[c]>>)
  /\ UNCHANGED <<gen, alive, logging, tracing, enabled, parent, traced, fate>>

\* Mutant: the loop dials a second time at once.
Redial_again(t, c) ==
  /\ phase[c] = "open" /\ gen[c] < MaxGen
  /\ At(t, "idle")
  /\ gen' = [gen EXCEPT ![c] = gen[c] + 2]
  /\ alive' = alive \cup {<<c, gen[c] + 1>>, <<c, gen[c] + 2>>}
  /\ Enter(t, "sink", "redial", <<c, gen[c]>>)
  /\ UNCHANGED <<phase, logging, tracing, enabled, parent, traced, fate>>

\* impl_ = make_unique: the new impl is there when the old one's destructor runs.
Redial(t, c) ==
  /\ phase[c] = "open" /\ gen[c] < MaxGen
  /\ At(t, "idle")
  /\ gen' = [gen EXCEPT ![c] = gen[c] + 1]
  /\ alive' = alive \cup {<<c, gen[c] + 1>>}
  /\ Enter(t, "sink", "redial", <<c, gen[c]>>)
  /\ UNCHANGED <<phase, logging, tracing, enabled, parent, traced, fate>>

OtherOpens(o) ==
  /\ phase[o] = "none" /\ At(o, "idle")
  /\ Opened(o)
  /\ UNCHANGED <<logging, tracing, threads, enabled, parent, traced, fate>>

OtherCloses(o) ==
  /\ phase[o] = "open" /\ At(o, "idle")
  /\ phase' = [phase EXCEPT ![o] = "joined"]
  /\ Enter(o, "reset", "close", <<o, gen[o]>>)
  /\ UNCHANGED <<gen, alive, logging, tracing, enabled, parent, traced, fate>>

-----------------------------------------------------------------------------
(***************************************************************************)
(* connect_logging and connect_tracing.                                    *)
(***************************************************************************)
CreateSink ==
  /\ At(ready, "create")
  /\ logs' = logs \cup {<<parent, gen[parent]>>}
  /\ Goto(ready, "silence")
  /\ Stay(ready)
  /\ UNCHANGED <<clients, sinks, console, tracing, enabled, parent, traced, fate>>

DisableConsole ==
  /\ At(ready, "silence")
  /\ console' = FALSE
  /\ Goto(ready, "add")
  /\ Stay(ready)
  /\ UNCHANGED <<clients, logs, sinks, tracing, enabled, parent, traced, fate>>

\* connect_tracing() begins with a shutdown_provider().
AddSink ==
  /\ At(ready, "add")
  /\ sinks' = sinks \cup {<<parent, gen[parent]>>}
  /\ IF job[ready] = "lazy" THEN Enter(ready, "idle", "none", NoImpl)
     ELSE Goto(ready, "tracer") /\ Stay(ready)
  /\ traced' = IF job[ready] = "lazy" THEN traced ELSE parent
  /\ UNCHANGED <<clients, logs, console, tracing, enabled, parent, fate>>

\* VIAM_MODULE_TRACING says no.
TracingDisabled ==
  /\ At(ready, "disabled")
  /\ Enter(ready, "idle", "none", NoImpl)
  /\ UNCHANGED <<clients, logging, tracing, enabled, parent, traced, fate>>

InstallProvider ==
  /\ At(ready, "install")
  /\ provider' = parent
  /\ running' = parent
  /\ stopping' = FALSE
  /\ Goto(ready, "publish")
  /\ Stay(ready)
  /\ UNCHANGED <<clients, logging, global, spans, sending, enabled, parent, traced, fate>>

PublishProvider ==
  /\ At(ready, "publish")
  /\ global' = provider
  /\ Enter(ready, "idle", "none", NoImpl)
  /\ UNCHANGED <<clients, logging, provider, running, stopping, spans, sending, enabled, parent, traced, fate>>

Connect ==
  CreateSink \/ DisableConsole \/ AddSink \/ TracingDisabled \/ InstallProvider \/ PublishProvider

-----------------------------------------------------------------------------
(***************************************************************************)
(* Spans, and the worker.                                                  *)
(***************************************************************************)

\* Any thread ends a span; the processor drops it when it has been stopped.
EndSpan ==
  /\ fate = "running"
  /\ global # Nobody /\ running = global /\ ~stopping
  /\ spans < MaxSpans
  /\ spans' = spans + 1
  /\ UNCHANGED <<clients, logging, provider, global, running, stopping, sending, threads, enabled, parent, traced, fate>>

\* Export and send_traces: without an impl_ the batch is dropped.
Export ==
  /\ fate = "running"
  /\ running # Nobody /\ spans > 0 /\ sending = NoImpl
  /\ spans' = 0
  /\ sending' = IF gen[running] = Null THEN NoImpl ELSE <<running, gen[running]>>
  /\ UNCHANGED <<clients, logging, provider, global, running, stopping, threads, enabled, parent, traced, fate>>

\* The machine has taken the batch, or the call failed.
Exported ==
  /\ fate = "running"
  /\ sending # NoImpl
  /\ sending' = NoImpl
  /\ UNCHANGED <<clients, logging, provider, global, running, stopping, spans, threads, enabled, parent, traced, fate>>

-----------------------------------------------------------------------------
(***************************************************************************)
(* ~ModuleService: the server has waited for its handlers.                 *)
(***************************************************************************)

\* Mutant: the provider is left to ~impl.
Exit_without_flush ==
  /\ At(main, "idle") /\ pc[ready] = "idle"
  /\ Enter(main, "release", "exit", NoImpl)
  /\ UNCHANGED <<clients, logging, tracing, enabled, parent, traced, fate>>

Exit ==
  /\ At(main, "idle") /\ pc[ready] = "idle"
  /\ Enter(main, "tracer", "exit", NoImpl)
  /\ UNCHANGED <<clients, logging, tracing, enabled, parent, traced, fate>>

ReleaseParent ==
  /\ At(main, "release")
  /\ IF parent = Nobody THEN Enter(main, "ended", "none", NoImpl)
     ELSE Enter(main, "close", "release", <<parent, Null>>)
  /\ parent' = Nobody
  /\ UNCHANGED <<clients, logging, tracing, enabled, traced, fate>>

Init ==
  /\ phase = [c \in Clients |-> "none"]
  /\ gen = [c \in Clients |-> Null]
  /\ alive = {} /\ logs = {} /\ sinks = {} /\ console = TRUE
  /\ enabled \in BOOLEAN
  /\ provider = Nobody /\ global = Nobody /\ running = Nobody
  /\ stopping = FALSE /\ spans = 0 /\ sending = NoImpl
  /\ parent = Nobody /\ traced = Nobody
  /\ pc = [t \in Threads |-> "idle"]
  /\ job = [t \in Threads |-> "none"]
  /\ target = [t \in Threads |-> NoImpl]
  /\ fate = "running"

Next ==
  \/ \E t \in Threads : DestroyImpl(t) \/ ClosesParent(t)
  \/ \E p \in Parents, lazily \in BOOLEAN : MakeParent(p, lazily)
  \/ \E o \in Others : OtherOpens(o) \/ OtherCloses(o) \/ Redial(o, o)
  \/ Connect \/ HandlersMeet
  \/ EndSpan \/ Export \/ Exported
  \/ Exit \/ ReleaseParent

Spec == Init /\ [][Next]_vars

-----------------------------------------------------------------------------
(***************************************************************************)
(* Properties.                                                             *)
(***************************************************************************)

\* Every variable has its type.
TypeOK ==
  /\ phase \in [Clients -> {"none", "open", "joined", "gone"}]
  /\ gen \in [Clients -> 0..MaxGen]
  /\ alive \subseteq Impls /\ logs \subseteq Impls /\ sinks \subseteq Impls
  /\ console \in BOOLEAN /\ enabled \in BOOLEAN /\ stopping \in BOOLEAN
  /\ {provider, global, running} \subseteq Clients \cup {Nobody}
  /\ spans \in 0..MaxSpans /\ sending \in Impls \cup {NoImpl}
  /\ {parent, traced} \subseteq Parents \cup {Nobody}
  /\ pc \in [Threads -> InTracer \cup {"idle", "reset", "sink", "console", "tracer", "free", "close",
                             "create", "silence", "add", "disabled", "release", "ended"}]
  /\ job \in [Threads -> {"none", "fail", "replace", "connect", "lazy", "redial", "close", "exit", "release"}]
  /\ target \in [Threads -> Clients \X (0..MaxGen) \cup {NoImpl}]

(***************************************************************************)
(* tracer.hpp: the client is there until shutdown_provider returns.  Until *)
(* a race, and as long as the worker has not been joined, the client it    *)
(* exports through exists, and so does the stub it is sending on,          *)
(* whichever thread destroys whichever client.  A race in the Tracer takes *)
(* a client that the program has made for itself: Ready, AddResource and   *)
(* the destructor of ModuleService alone never meet there.                 *)
(***************************************************************************)
ExporterClientAlive ==
  /\ fate = "running" => /\ running # Nobody => phase[running] # "gone"
                         /\ sending # NoImpl => sending \in alive
  /\ fate = "raced" => \E o \in Others : phase[o] # "none"

(***************************************************************************)
(* client.hpp: console logging is disabled so as to avoid duplicates, and  *)
(* re-enabled on destruction.  No record goes to the console and to the    *)
(* machine, or to the machine twice, at any point of a connection, a       *)
(* re-dial or a destruction; and when none of these is under way, records  *)
(* go somewhere.  This is of one handler at a time at parent_: a           *)
(* ReconfigureResource that makes one while Ready does is outside          *)
(* (HandlersMeet), and both sinks may stay.                                *)
(***************************************************************************)
RecordsGoToOnePlace ==
  fate = "running" =>
    /\ ~(console /\ sinks # {})
    /\ Cardinality(sinks) <= 1
    /\ sinks \subseteq alive
    /\ (\A t \in Threads : pc[t] \in {"idle", "ended"}) => console \/ sinks # {}

(***************************************************************************)
(* ~ModuleService shuts the provider down before it lets the parent go:    *)
(* while the module ends, no spans are dropped for want of a connection,   *)
(* also when another client is closed or re-dialled between the steps of   *)
(* the exit, as long as the two are not in the Tracer at a time.           *)
(***************************************************************************)
SpansSurviveExit ==
  [][fate' = "running" /\ pc[main] # "idle" /\ spans > spans' => sending' # NoImpl]_vars

(***************************************************************************)
(* client.hpp: the provider is installed "so spans flow back to the parent *)
(* over this connection": with no thread at work on it, the parent that    *)
(* tracing was connected to is the one that spans go to.                   *)
(***************************************************************************)
SpansFlowToParent ==
  fate = "running" /\ (\A t \in Threads : pc[t] = "idle")
      /\ enabled /\ parent # Nobody /\ traced = parent
    => global = parent
=============================================================================
