--------------------------- MODULE TelemetryProofs ---------------------------
(***************************************************************************)
(* The safety properties of Telemetry for any number of parents, of other  *)
(* clients, of re-dials and of spans.                                      *)
(*                                                                         *)
(* Control: which thread does which job, and that until a race one thread  *)
(* at a time is in the Tracer.  Lives: whose impl a thread destroys; in    *)
(* particular no two threads destroy what the other still uses.  Exporter  *)
(* and Records: what then holds of the provider and of the log sinks.      *)
(*                                                                         *)
(* A race changes nothing but fate, and nothing happens after it, so what  *)
(* is shown here of every state is of the time until a race.  Blamed: who  *)
(* takes part in a race in the Tracer.                                     *)
(***************************************************************************)
EXTENDS Telemetry, FiniteSetTheorems, TLAPS

USE DEF At

Labels == InTracer \cup {"idle", "reset", "sink", "console", "tracer", "free", "close",
                         "create", "silence", "add", "disabled", "release", "ended"}
JobNames == {"none", "fail", "replace", "connect", "lazy", "redial", "close", "exit", "release"}
Goals == Clients \X (0..MaxGen) \cup {NoImpl}

TypeClients ==
  /\ phase \in [Clients -> {"none", "open", "joined", "gone"}]
  /\ gen \in [Clients -> 0..MaxGen]
  /\ alive \subseteq Impls

TypeLogs == logs \subseteq Impls /\ sinks \subseteq Impls /\ console \in BOOLEAN

TypeTracing ==
  /\ enabled \in BOOLEAN /\ stopping \in BOOLEAN
  /\ {provider, global, running} \subseteq Clients \cup {Nobody}
  /\ spans \in 0..MaxSpans /\ sending \in Impls \cup {NoImpl}

TypeThreads ==
  /\ {parent, traced} \subseteq Parents \cup {Nobody}
  /\ pc \in [Threads -> Labels] /\ job \in [Threads -> JobNames]
  /\ target \in [Threads -> Goals]

LEMMA Types == TypeOK <=> TypeClients /\ TypeLogs /\ TypeTracing /\ TypeThreads
  BY DEF TypeOK, TypeClients, TypeLogs, TypeTracing, TypeThreads, Labels, JobNames, Goals

-----------------------------------------------------------------------------
(***************************************************************************)
(* Control.                                                                *)
(***************************************************************************)
Closing  == {"fail", "replace", "close", "release"}   \* the jobs that end a client
Linking  == {"connect", "lazy"}                       \* those that connect its logs
Destroying == Closing \cup {"redial"}

\* Thread t may be at label l with job j.
Fits(t, l, j) ==
  /\ l \in {"idle", "ended"} <=> j = "none"
  /\ j \in {"fail", "replace"} \cup Linking => t = ready
  /\ j \in {"exit", "release"} => t = main
  /\ j = "close" => t \in Others
  /\ j = "redial" => t \in Others
  /\ l = "close" => j \in {"fail", "replace", "release"}
  /\ l = "reset" => j \in Closing
  /\ l \in {"sink", "console", "free"} => j \in Destroying
  /\ l \in {"create", "silence", "add"} => j \in Linking
  /\ l \in {"disabled", "install", "publish"} => j = "connect"
  /\ l = "release" => j = "exit"
  /\ j = "lazy" => l \in {"create", "silence", "add"}

Jobs == \A t \in Threads : Fits(t, pc[t], job[t])

Alone == \A t, u \in Threads : pc[t] \in InTracer /\ pc[u] \in InTracer => t = u

Control == TypeThreads /\ Jobs /\ Alone

\* Thread t goes to label l, with job j and target i.
Moves(t, l, j, i) ==
  /\ pc' = [pc EXCEPT ![t] = l]
  /\ job' = [job EXCEPT ![t] = j]
  /\ target' = [target EXCEPT ![t] = i]

\* What a step changes, if it is a step of thread t.
Step(t) == Moves(t, pc'[t], job'[t], target'[t])

LEMMA GotoMoves ==
  ASSUME TypeThreads, NEW t \in Threads, NEW l, Goto(t, l), Stay(t)
  PROVE  Moves(t, l, job[t], target[t])
  BY DEF TypeThreads, Goto, Stay, Moves

LEMMA EnterMoves ==
  ASSUME NEW t \in Threads, NEW l, NEW j, NEW i, Enter(t, l, j, i)
  PROVE  Moves(t, l, j, i)
  BY DEF Enter, Goto, Moves

LEMMA MovesStep ==
  ASSUME TypeThreads, NEW t \in Threads, NEW l, NEW j, NEW i, Moves(t, l, j, i)
  PROVE  /\ pc'[t] = l /\ job'[t] = j /\ target'[t] = i /\ Step(t)
         /\ \A u \in Threads \ {t} : pc'[u] = pc[u] /\ job'[u] = job[u] /\ target'[u] = target[u]
  BY DEF TypeThreads, Moves, Step

LEMMA ControlKept ==
  ASSUME Control, NEW t \in Threads, NEW l \in Labels, NEW j \in JobNames, NEW i \in Goals,
         Moves(t, l, j, i), Fits(t, l, j),
         l \in InTracer => pc[t] \in InTracer \/ TracerIsFree(t),
         {parent', traced'} \subseteq Parents \cup {Nobody}
  PROVE  Control'
<1>1. TypeThreads'
  BY DEF Control, TypeThreads, Moves
<1>2. /\ pc'[t] = l /\ job'[t] = j
      /\ \A u \in Threads \ {t} : pc'[u] = pc[u] /\ job'[u] = job[u]
  BY MovesStep DEF Control
<1>3. Jobs'
  BY <1>2 DEF Control, Jobs, Fits
<1>4. Alone'
  BY <1>2 DEF Control, Alone, TracerIsFree
<1> QED BY <1>1, <1>3, <1>4 DEF Control

-----------------------------------------------------------------------------
(***************************************************************************)
(* Lives: whose impl a thread destroys.                                    *)
(***************************************************************************)

\* Thread t may destroy impl i, when it is at label l with job j.
Aims(t, l, j, i) ==
  /\ j \in Destroying => i \in Clients \X (0..MaxGen)
  /\ j = "close" => i[1] = t
  /\ j \in {"fail", "replace", "release"} => i[1] \in Parents
  /\ j = "redial" =>
       /\ t \in Others /\ i[1] = t
       /\ phase[i[1]] = "open"
       /\ i[2] # Null /\ i[2] < gen[i[1]]
  /\ l = "close" => phase[i[1]] = "open"
  /\ j \in Closing /\ l # "close" => phase[i[1]] = "joined" /\ i[2] # Null
  /\ j \in Closing => i[1] # parent

Targets == \A t \in Threads : Aims(t, pc[t], job[t], target[t])

Parenthood ==
  /\ parent # Nobody => phase[parent] = "open"
  /\ job[ready] \in {"replace"} \cup Linking => parent # Nobody
  /\ pc[main] # "idle" => pc[ready] = "idle"

Lives ==
  \A c \in Clients :
    /\ gen[c] # Null => <<c, gen[c]>> \in alive
    /\ phase[c] = "open" => gen[c] # Null

\* Thread t is about to close c.
Ending(t, c) == pc[t] = "close" /\ target[t][1] = c

\* c is the parent, or has just been.
Anchored(c) == c = parent \/ Ending(ready, c) \/ Ending(main, c)

OpenParents == \A p \in Parents : phase[p] = "open" => Anchored(p)

Life == Targets /\ Parenthood /\ Lives /\ OpenParents

Settled == TypeClients /\ Control /\ Life

LEMMA Names ==
  /\ ready \in Threads /\ main \in Threads /\ ready # main
  /\ \A o \in Others : o \in Threads /\ o \in Clients /\ o \notin Parents /\ o \notin {ready, main}
  /\ \A p \in Parents : p \in Clients
  /\ Nobody \notin Clients /\ Nobody \notin Parents
  BY ClientsAssumption, ThreadsAssumption DEF Threads, ready, main, Clients

\* The gRPC thread and the main thread are not at work at the same time.
LEMMA Turns ==
  ASSUME Settled, NEW t \in Threads, pc[t] # "idle"
  PROVE  (t = ready => pc[main] = "idle") /\ (t = main => pc[ready] = "idle")
  BY Names DEF Settled, Life, Parenthood

\* No two threads are closing a client, or about to, unless it is two clients.
LEMMA Distinct ==
  ASSUME Settled, NEW t \in Threads, NEW u \in Threads, t # u,
         job[t] \in Closing, job[u] \in Closing
  PROVE  target[t][1] # target[u][1]
<1>1. /\ Fits(t, pc[t], job[t]) /\ Fits(u, pc[u], job[u])
      /\ Aims(t, pc[t], job[t], target[t]) /\ Aims(u, pc[u], job[u], target[u])
  BY DEF Settled, Control, Jobs, Life, Targets
<1>2. ~(t \in {ready, main} /\ u \in {ready, main})
  <2>1. pc[t] # "idle" /\ pc[u] # "idle"
    BY <1>1 DEF Fits, Closing
  <2> QED BY <2>1, Turns, Names
<1>3. CASE t \in Others
  BY <1>1, <1>3, Names DEF Fits, Aims, Closing
<1>4. CASE u \in Others
  BY <1>1, <1>4, Names DEF Fits, Aims, Closing
<1>5. CASE t \notin Others /\ u \notin Others
  BY <1>1, <1>2, <1>5 DEF Fits, Closing
<1> QED BY <1>3, <1>4, <1>5

\* A client that is being destroyed is not the parent, nor about to be closed.
LEMMA Adrift ==
  ASSUME Settled, NEW t \in Threads, job[t] \in Closing, pc[t] # "close"
  PROVE  ~Anchored(target[t][1]) /\ phase[target[t][1]] = "joined"
<1>1. Aims(t, pc[t], job[t], target[t])
  BY DEF Settled, Life, Targets
<1>2. /\ Aims(ready, pc[ready], job[ready], target[ready])
      /\ Aims(main, pc[main], job[main], target[main])
  BY Names DEF Settled, Life, Targets
<1> QED BY <1>1, <1>2 DEF Aims, Anchored, Ending

\* A step that leaves the clients and the parent alone.
LEMMA LifeKept ==
  ASSUME Settled, NEW t \in Threads, NEW l, NEW j, NEW i, Moves(t, l, j, i),
         UNCHANGED <<clients, parent>>, Aims(t, l, j, i),
         pc[t] # "close",
         t = ready /\ j \in {"replace"} \cup Linking => parent # Nobody,
         t = ready => pc[main] = "idle", t = main => pc[ready] = "idle"
  PROVE  Life' /\ TypeClients'
<1>0. /\ pc'[t] = l /\ job'[t] = j /\ target'[t] = i
      /\ \A u \in Threads \ {t} : pc'[u] = pc[u] /\ job'[u] = job[u] /\ target'[u] = target[u]
  BY MovesStep DEF Settled, Control
<1>1. Targets'
  BY <1>0 DEF Settled, Life, Targets, Aims, clients
<1>2. Parenthood'
  BY <1>0, Names DEF Settled, Life, Parenthood, clients
<1>3. Lives'
  BY DEF Settled, Life, Lives, clients
<1>4. OpenParents'
  BY <1>0, Names DEF Settled, Life, OpenParents, Anchored, Ending, clients
<1>5. TypeClients'
  BY DEF Settled, TypeClients, clients
<1> QED BY <1>1, <1>2, <1>3, <1>4, <1>5 DEF Life

-----------------------------------------------------------------------------
(***************************************************************************)
(* Exporter: the provider and its worker.                                  *)
(***************************************************************************)

\* What holds of the Tracer when a thread is at label l with job j, and destroys i.
Exports(l, j, i) ==
  /\ l = "install" => provider = Nobody
  /\ l \in {"noop", "drop", "release"} => running = Nobody
  /\ l = "free" /\ j \in Closing => running # i[1]
  /\ l = "free" => sending # i

Exporter ==
  /\ running # Nobody => provider = running
  /\ running # Nobody => running = parent \/ (job[ready] = "replace" /\ target[ready][1] = running)
  /\ sending # NoImpl => running # Nobody /\ sending \in alive
  /\ \A t \in Threads : Exports(pc[t], job[t], target[t])

\* A step that leaves the provider, the worker and the parent alone.
LEMMA ExporterKept ==
  ASSUME Settled, Exporter, NEW t \in Threads, NEW l, NEW j, NEW i, Moves(t, l, j, i),
         UNCHANGED <<provider, running, sending, parent>>,
         sending # NoImpl => sending \in alive',
         Exports(l, j, i),
         t = ready /\ job[ready] = "replace" /\ running = target[ready][1] =>
            j = "replace" /\ i[1] = target[ready][1]
  PROVE  Exporter'
<1>0. /\ pc'[t] = l /\ job'[t] = j /\ target'[t] = i
      /\ \A u \in Threads \ {t} : pc'[u] = pc[u] /\ job'[u] = job[u] /\ target'[u] = target[u]
  BY MovesStep DEF Settled, Control
<1>1. /\ provider' = provider /\ running' = running /\ sending' = sending
      /\ parent' = parent
  OBVIOUS
<1>2. \A u \in Threads : Exports(pc[u], job[u], target[u])'
  BY <1>0, <1>1 DEF Exporter, Exports
<1>3. running # Nobody => running = parent \/ (job'[ready] = "replace" /\ target'[ready][1] = running)
  BY <1>0, Names DEF Exporter
<1> QED BY <1>1, <1>2, <1>3 DEF Exporter

-----------------------------------------------------------------------------
(***************************************************************************)
(* Records: the log sinks.                                                 *)
(***************************************************************************)

\* i is the impl of a parent that is not being destroyed.
Current(i) == Anchored(i[1]) /\ i[2] = gen[i[1]]

\* Thread t is destroying i, and has got past close().
Takes(t, i) == job[t] \in Destroying /\ pc[t] # "close" /\ target[t] = i

LogsKnown ==
  /\ sinks \subseteq logs /\ logs \subseteq alive
  /\ \A i \in logs :
       /\ i[1] \in Parents /\ phase[i[1]] # "none"
       /\ Current(i) \/ \E t \in Threads : Takes(t, i)

OneSink ==
  /\ \A i, j \in sinks : i = j
  /\ console => sinks = {}
  /\ ~console /\ sinks = {} => pc[ready] = "add" \/ \E t \in Threads : pc[t] = "console"

Connecting ==
  /\ pc[ready] \notin {"silence", "add"} => \A i \in logs : Current(i) => i \in sinks
  /\ job[ready] = "replace" => \A i \in logs : i[1] # parent
  /\ pc[ready] = "create" => logs = {}
  /\ pc[ready] \in {"silence", "add"} => logs = {<<parent, gen[parent]>>} /\ sinks = {}
  /\ pc[ready] = "add" => ~console

\* What holds of the sinks when a thread is at label l with job j, and destroys i.
Leaves(l, j, i) ==
  /\ l = "console" => sinks = {} /\ i \in logs
  /\ l \in {"reset", "sink"} /\ i \in logs => i \in sinks
  /\ j \in Destroying /\ l \notin {"close", "reset", "sink"} => i \notin sinks

Leavers == \A t \in Threads : Leaves(pc[t], job[t], target[t])

Records == TypeLogs /\ LogsKnown /\ OneSink /\ Connecting /\ Leavers

\* A step that has nothing to do with the sinks.
LEMMA RecordsKept ==
  ASSUME Settled, Records, NEW t \in Threads, NEW l, NEW j, NEW i, Moves(t, l, j, i),
         UNCHANGED <<clients, logging, parent>>,
         {pc[t], l} \cap {"close", "reset", "sink", "console", "create", "silence", "add"} = {},
         (j = job[t] /\ i = target[t]) \/ {j, job[t]} \cap Destroying = {}
  PROVE  Records'
<1>0. /\ pc'[t] = l /\ job'[t] = j /\ target'[t] = i
      /\ \A u \in Threads \ {t} : pc'[u] = pc[u] /\ job'[u] = job[u] /\ target'[u] = target[u]
  BY MovesStep DEF Settled, Control
<1>1. /\ phase' = phase /\ gen' = gen /\ alive' = alive
      /\ logs' = logs /\ sinks' = sinks /\ console' = console /\ parent' = parent
  BY DEF clients, logging
<1>2. \A c : Anchored(c)' <=> Anchored(c)
  BY <1>0, <1>1, Names DEF Anchored, Ending
<1>3. \A c : Current(c)' <=> Current(c)
  BY <1>1, <1>2 DEF Current
<1>4. \A u \in Threads : \A c : Takes(u, c)' <=> Takes(u, c)
  BY <1>0 DEF Takes
<1>5. LogsKnown'
  BY <1>1, <1>3, <1>4 DEF Records, LogsKnown
<1>6. OneSink'
  BY <1>0, <1>1, Names DEF Records, OneSink
<1>7. Connecting'
  <2>1. job'[ready] = "replace" => job[ready] = "replace"
    BY <1>0, Names DEF Destroying, Closing
  <2>2. \A x \in {"silence", "add", "create"} : pc'[ready] = x <=> pc[ready] = x
    BY <1>0, Names
  <2>3. pc'[ready] \notin {"silence", "add"} => \A x \in logs' : Current(x)' => x \in sinks'
    BY <1>1, <1>3, <2>2 DEF Records, Connecting
  <2>4. <<parent, gen[parent]>>' = <<parent, gen[parent]>>
    BY <1>1
  <2> QED BY <1>1, <2>1, <2>2, <2>3, <2>4 DEF Records, Connecting
<1>8. Leavers'
  BY <1>0, <1>1 DEF Records, Leavers, Leaves
<1> QED BY <1>1, <1>5, <1>6, <1>7, <1>8 DEF Records, TypeLogs

-----------------------------------------------------------------------------
(***************************************************************************)
(* The inductive invariant, and the steps.                                 *)
(***************************************************************************)
IInv == Settled /\ TypeTracing /\ Exporter /\ Records

LEMMA InitIInv == Init => IInv
<1> SUFFICES ASSUME Init PROVE IInv OBVIOUS
<1>1. TypeClients
  BY BoundsAssumption DEF Init, TypeClients, Null
<1>2. Control
  BY DEF Init, Control, TypeThreads, Jobs, Fits, Alone, InTracer, Labels, JobNames, Goals, Linking,
         Closing, Destroying
<1>3. Life
  BY Names DEF Init, Life, Targets, Aims, Parenthood, Lives, OpenParents, Destroying, Closing, Linking
<1>4. TypeTracing
  <2>1. spans \in 0..MaxSpans
    BY BoundsAssumption DEF Init
  <2>2. {provider, global, running} \subseteq Clients \cup {Nobody}
    BY DEF Init
  <2>3. stopping \in BOOLEAN /\ enabled \in BOOLEAN /\ sending \in Impls \cup {NoImpl}
    BY DEF Init
  <2> QED BY <2>1, <2>2, <2>3 DEF TypeTracing
<1>5. Exporter
  BY DEF Init, Exporter, Exports
<1>6. Records
  BY Names DEF Init, Records, TypeLogs, LogsKnown, OneSink, Connecting, Leavers, Leaves, Destroying, Closing
<1> QED BY <1>1, <1>2, <1>3, <1>4, <1>5, <1>6 DEF IInv, Settled

\* What thread t was doing.
LEMMA Doing ==
  ASSUME IInv, NEW t \in Threads
  PROVE  /\ pc[t] \in Labels /\ job[t] \in JobNames /\ target[t] \in Goals
         /\ Fits(t, pc[t], job[t]) /\ Aims(t, pc[t], job[t], target[t])
         /\ Exports(pc[t], job[t], target[t]) /\ Leaves(pc[t], job[t], target[t])
         /\ {parent, traced} \subseteq Parents \cup {Nobody}
  BY DEF IInv, Settled, Control, TypeThreads, Jobs, Life, Targets, Exporter, Records, Leavers

LEMMA TracerSteps ==
  ASSUME IInv, NEW t \in Threads,
         CallShutdown(t) \/ StopWorker(t) \/ JoinWorker(t) \/ SetNoop(t) \/ DropProvider(t)
  PROVE  IInv'
<1> DEFINE l == pc'[t]
<1>0. TypeThreads /\ Settled /\ Control
  BY DEF IInv, Settled, Control
<1>1. /\ pc[t] \in {"tracer", "stop", "join", "noop", "drop"}
      /\ l \in {"stop", "join", "noop", "drop", AfterShutdown(t)}
      /\ Goto(t, l) /\ Stay(t)
      /\ UNCHANGED <<clients, logging, parent, traced, enabled>>
      /\ pc[t] = "tracer" => TracerIsFree(t)
  BY <1>0 DEF TypeThreads, CallShutdown, StopWorker, JoinWorker, SetNoop, DropProvider, Goto, logging, clients
<1>2. Moves(t, l, job[t], target[t])
  BY <1>0, <1>1, GotoMoves
<1> HIDE DEF l
<1>3. Fits(t, l, job[t]) /\ l \in Labels /\ l \notin {"close", "reset", "sink", "console", "create", "silence", "add", "idle"}
  BY <1>1, Doing DEF Fits, AfterShutdown, JobNames, Labels, InTracer, Linking, Closing, Destroying
<1>4. Control'
  BY <1>0, <1>1, <1>2, <1>3, Doing, ControlKept DEF InTracer
<1>5. Life' /\ TypeClients'
  <2>1. Aims(t, l, job[t], target[t])
    BY <1>1, <1>3, Doing DEF Aims
  <2>2. t = ready /\ job[t] \in {"replace"} \cup Linking => parent # Nobody
    BY <1>0 DEF Settled, Life, Parenthood
  <2> QED BY <1>0, <1>1, <1>2, <2>1, <2>2, Turns, LifeKept
<1>6. Records'
  BY <1>0, <1>1, <1>2, <1>3, RecordsKept DEF IInv
<1>7. Exporter' /\ TypeTracing'
  <2>0. /\ pc'[t] = l /\ job'[t] = job[t] /\ target'[t] = target[t]
        /\ \A u \in Threads \ {t} : pc'[u] = pc[u] /\ job'[u] = job[u] /\ target'[u] = target[u]
    BY <1>0, <1>2, MovesStep
  <2>1. l = "free" => job[t] \in Destroying
    BY <1>3 DEF Fits
  <2>2. /\ job[t] \in Destroying => target[t][1] # Nobody /\ target[t] # NoImpl
        /\ \A u \in Threads : job[u] \in Closing => target[u][1] # Nobody
    BY Doing, Names DEF Aims, NoImpl, Destroying
  <2>3. CASE CallShutdown(t)
    <3>1. /\ l = (IF provider = Nobody THEN AfterShutdown(t) ELSE "stop")
          /\ UNCHANGED <<provider, running, sending>> /\ UNCHANGED tracing /\ alive' = alive
      BY <2>3, <1>0 DEF CallShutdown, Goto, TypeThreads, tracing, clients, l
    <3>2. provider = Nobody => running = Nobody /\ sending = NoImpl
      BY DEF IInv, Exporter
    <3>3. Exports(l, job[t], target[t])
      BY <3>1, <3>2, <1>3, <2>1, <2>2 DEF Exports, Fits, AfterShutdown
    <3>4. Exporter'
      BY <1>0, <1>1, <1>2, <3>1, <3>3, ExporterKept DEF IInv, Exporter
    <3> QED BY <3>1, <3>4, <1>1 DEF IInv, TypeTracing, tracing
  <2>4. CASE StopWorker(t)
    <3>1. l = "join" /\ UNCHANGED <<provider, running, sending>> /\ alive' = alive
          /\ stopping' = TRUE /\ UNCHANGED <<global, spans>>
      BY <2>4, <1>0 DEF StopWorker, Goto, TypeThreads, clients, l
    <3>2. Exports(l, job[t], target[t])
      BY <3>1 DEF Exports
    <3>3. Exporter'
      BY <1>0, <1>1, <1>2, <3>1, <3>2, ExporterKept DEF IInv, Exporter
    <3> QED BY <3>1, <3>3, <1>1 DEF IInv, TypeTracing
  <2>5. CASE JoinWorker(t)
    <3>1. l = "noop" /\ UNCHANGED <<provider, sending>> /\ alive' = alive /\ parent' = parent
          /\ running' = Nobody /\ sending = NoImpl /\ UNCHANGED <<stopping, global, spans>>
      BY <2>5, <1>0 DEF JoinWorker, Goto, TypeThreads, clients, l
    <3>2. \A u \in Threads : Exports(pc[u], job[u], target[u])'
      BY <2>0, <2>2, <3>1 DEF IInv, Exporter, Exports
    <3>3. Exporter'
      BY <3>1, <3>2 DEF Exporter
    <3>4. TypeTracing'
      BY <3>1, <1>1 DEF IInv, TypeTracing
    <3> QED BY <3>3, <3>4
  <2>6. CASE SetNoop(t)
    <3>1. l = "drop" /\ UNCHANGED <<provider, running, sending>> /\ alive' = alive
          /\ global' = Nobody /\ UNCHANGED <<stopping, spans>> /\ pc[t] = "noop"
      BY <2>6, <1>0 DEF SetNoop, Goto, TypeThreads, clients, l
    <3>2. Exports(l, job[t], target[t])
      BY <3>1, Doing DEF Exports
    <3>3. Exporter'
      BY <1>0, <1>1, <1>2, <3>1, <3>2, ExporterKept DEF IInv, Exporter
    <3> QED BY <3>1, <3>3, <1>1 DEF IInv, TypeTracing
  <2>7. CASE DropProvider(t)
    <3>1. l = AfterShutdown(t) /\ UNCHANGED <<running, sending>> /\ alive' = alive /\ parent' = parent
          /\ provider' = Nobody /\ UNCHANGED <<stopping, global, spans>> /\ pc[t] = "drop"
      BY <2>7, <1>0 DEF DropProvider, Goto, TypeThreads, clients, l
    <3>2. running = Nobody /\ sending = NoImpl
      BY <3>1, Doing DEF Exports, IInv, Exporter
    <3>3. \A u \in Threads : Exports(pc[u], job[u], target[u])'
      <4>1. Exports(pc[t], job[t], target[t])'
        BY <2>1, <2>2, <2>0, <3>1, <3>2 DEF Exports
      <4>2. \A u \in Threads \ {t} : Exports(pc[u], job[u], target[u])'
        BY <2>0, <3>1 DEF IInv, Exporter, Exports
      <4> QED BY <2>0, <4>1, <4>2
    <3>4. Exporter'
      BY <3>1, <3>2, <3>3 DEF Exporter
    <3>5. TypeTracing'
      BY <3>1, <1>1 DEF IInv, TypeTracing
    <3> QED BY <3>4, <3>5
  <2> QED BY <2>3, <2>4, <2>5, <2>6, <2>7
<1> QED BY <1>4, <1>5, <1>6, <1>7 DEF IInv, Settled

\* The steps of ~impl around the sinks.
LEMMA SinkSteps ==
  ASSUME IInv, NEW t \in Threads, RemoveSink(t) \/ EnableConsole(t)
  PROVE  IInv'
<1> DEFINE l == pc'[t]
<1>0. TypeThreads /\ Settled /\ Control /\ Records
  BY DEF IInv, Settled, Control
<1>1. /\ (pc[t] = "sink" /\ l \in {"console", "tracer"}) \/ (pc[t] = "console" /\ l = "tracer")
      /\ Goto(t, l) /\ Stay(t)
      /\ UNCHANGED <<clients, tracing, enabled, parent, traced>> /\ logs' = logs
  BY <1>0 DEF TypeThreads, RemoveSink, EnableConsole, Goto
<1>2. Moves(t, l, job[t], target[t])
  BY <1>0, <1>1, GotoMoves
<1> HIDE DEF l
<1>a. /\ pc'[t] = l /\ job'[t] = job[t] /\ target'[t] = target[t]
      /\ \A u \in Threads \ {t} : pc'[u] = pc[u] /\ job'[u] = job[u] /\ target'[u] = target[u]
  BY <1>0, <1>2, MovesStep
<1>b. /\ phase' = phase /\ gen' = gen /\ alive' = alive /\ parent' = parent
      /\ UNCHANGED <<provider, running, sending, stopping, global, spans>>
  BY <1>1 DEF clients, tracing
<1>3. Fits(t, l, job[t]) /\ l \in Labels /\ job[t] \in Destroying /\ l \notin InTracer
  BY <1>1, Doing DEF Fits, Labels, Linking, Closing, Destroying, InTracer
<1>4. Control'
  BY <1>0, <1>1, <1>2, <1>3, Doing, ControlKept
<1>5. Life' /\ TypeClients'
  <2>1. Aims(t, l, job[t], target[t])
    BY <1>1, <1>3, Doing DEF Aims
  <2>2. t = ready /\ job[t] \in {"replace"} \cup Linking => parent # Nobody
    BY <1>0 DEF Settled, Life, Parenthood
  <2> QED BY <1>0, <1>1, <1>2, <2>1, <2>2, Turns, LifeKept
<1>6. Exporter' /\ TypeTracing'
  <2>1. Exports(l, job[t], target[t])
    BY <1>1 DEF Exports
  <2>2. sending # NoImpl => sending \in alive'
    BY <1>b DEF IInv, Exporter
  <2>3. Exporter'
    BY <1>0, <1>b, <1>2, <2>1, <2>2, ExporterKept DEF IInv
  <2> QED BY <2>3, <1>1, <1>b DEF IInv, TypeTracing
<1>c. \A c : Anchored(c)' <=> Anchored(c)
  BY <1>1, <1>a, <1>b, Names DEF Anchored, Ending
<1>d. /\ \A c : Current(c)' <=> Current(c)
      /\ \A u \in Threads : \A c : Takes(u, c)' <=> Takes(u, c)
  BY <1>1, <1>a, <1>b, <1>c DEF Current, Takes
<1>e. /\ pc[ready] \in {"create", "silence", "add"} <=> pc'[ready] \in {"create", "silence", "add"}
      /\ \A x \in {"create", "silence", "add"} : pc'[ready] = x <=> pc[ready] = x
  BY <1>1, <1>a, Names
\* What is being destroyed is not where records of the parent go.
<1>f. ~Current(target[t])
  <2>1. CASE job[t] \in Closing
    BY <1>0, <1>1, <2>1, Adrift DEF Current
  <2>2. CASE job[t] = "redial"
    <3>1. target[t][2] < gen[target[t][1]] /\ target[t][2] \in 0..MaxGen /\ gen[target[t][1]] \in 0..MaxGen
      BY <2>2, Doing DEF Aims, Destroying, IInv, Settled, TypeClients
    <3> QED BY <3>1, BoundsAssumption DEF Current
  <2> QED BY <1>3, <2>1, <2>2 DEF Destroying
<1>g. pc[ready] \in {"silence", "add"} => target[t] \notin logs
  <2>1. pc[ready] \in {"silence", "add"} => Current(<<parent, gen[parent]>>)
    BY DEF Current, Anchored
  <2> QED BY <1>0, <1>f, <2>1 DEF Records, Connecting
<1>h. target[t] \in Clients \X (0..MaxGen)
  BY <1>3, Doing DEF Aims
\* No two threads destroy the same impl.
<1>i. \A u \in Threads \ {t} : target[u] = target[t] => pc[u] \notin {"sink", "console", "reset"} \/ target[t] \notin logs
  <2> SUFFICES ASSUME NEW u \in Threads \ {t}, target[u] = target[t], pc[u] \in {"sink", "console", "reset"}, target[t] \in logs
                PROVE FALSE
    OBVIOUS
  <2>1. job[u] \in Destroying /\ pc[u] # "close"
    BY Doing DEF Fits, Destroying
  <2>2. target[t][1] \in Parents
    BY <1>0 DEF Records, LogsKnown
  <2>3. CASE job[t] \in Closing /\ job[u] \in Closing
    BY <1>0, <2>3, Distinct
  <2>4. CASE job[t] = "redial" /\ job[u] \in Closing
    <3>1. phase[target[t][1]] = "open" /\ phase[target[u][1]] = "joined"
      BY <2>1, <2>4, Doing DEF Aims
    <3> QED BY <3>1
  <2>5. CASE job[u] = "redial" /\ job[t] \in Closing
    <3>1. phase[target[u][1]] = "open" /\ phase[target[t][1]] = "joined"
      BY <1>1, <2>5, Doing DEF Aims
    <3> QED BY <3>1
  <2>6. CASE job[t] = "redial" /\ job[u] = "redial"
    <3>1. target[t][1] = t /\ target[u][1] = u
      BY <2>6, Doing DEF Aims
    <3> QED BY <2>1, <3>1
  <2> QED BY <1>3, <2>1, <2>3, <2>4, <2>5, <2>6 DEF Destroying
<1>7. CASE RemoveSink(t)
  <2>1. /\ pc[t] = "sink" /\ sinks' = sinks \ {target[t]} /\ console' = console
        /\ l = IF target[t] \in logs THEN "console" ELSE "tracer"
    BY <1>0, <1>7 DEF RemoveSink, Goto, TypeThreads, l
  <2>2. target[t] \in logs => sinks = {target[t]}
    <3>1. target[t] \in logs => target[t] \in sinks
      BY <2>1, Doing DEF Leaves
    <3> QED BY <1>0, <3>1 DEF Records, OneSink
  <2>3. target[t] \notin logs => sinks' = sinks
    BY <1>0, <2>1 DEF Records, LogsKnown
  <2>4. TypeLogs'
    BY <1>0, <1>1, <2>1 DEF Records, TypeLogs
  <2>5. LogsKnown'
    BY <1>0, <1>1, <1>b, <1>d, <2>1 DEF Records, LogsKnown
  <2>6. OneSink'
    <3>1. ~console' /\ sinks' = {} => pc'[ready] = "add" \/ \E u \in Threads : pc'[u] = "console"
      <4>1. CASE target[t] \in logs
        BY <2>1, <1>a, <4>1
      <4>2. CASE target[t] \notin logs
        <5>1. \A u \in Threads : pc[u] = "console" => pc'[u] = "console"
          BY <1>a, <2>1
        <5> QED BY <1>0, <1>e, <2>1, <2>3, <4>2, <5>1 DEF Records, OneSink
      <4> QED BY <4>1, <4>2
    <3> QED BY <1>0, <2>1, <3>1 DEF Records, OneSink
  <2>7. Connecting'
    <3>1. pc'[ready] \notin {"silence", "add"} => \A i \in logs' : Current(i)' => i \in sinks'
      BY <1>0, <1>1, <1>d, <1>e, <1>f, <2>1 DEF Records, Connecting
    <3>2. job'[ready] = job[ready]
      BY <1>a, Names
    <3> QED BY <1>0, <1>1, <1>b, <1>e, <2>1, <3>1, <3>2 DEF Records, Connecting
  <2>8. Leavers'
    <3>1. Leaves(pc[t], job[t], target[t])'
      BY <1>a, <1>1, <2>1, <2>2 DEF Leaves
    <3>2. ASSUME NEW u \in Threads \ {t} PROVE Leaves(pc[u], job[u], target[u])'
      <4>1. Leaves(pc[u], job[u], target[u])
        BY Doing
      <4>2. pc[u] \in {"reset", "sink"} /\ target[u] \in logs => target[u] \in sinks'
        BY <1>i, <2>1, <4>1 DEF Leaves
      <4> QED BY <1>1, <1>a, <2>1, <4>1, <4>2 DEF Leaves
    <3> QED BY <3>1, <3>2 DEF Leavers
  <2>9. Records'
    BY <2>4, <2>5, <2>6, <2>7, <2>8 DEF Records
  <2> QED BY <1>4, <1>5, <1>6, <2>9 DEF IInv, Settled
<1>8. CASE EnableConsole(t)
  <2>1. pc[t] = "console" /\ console' = TRUE /\ sinks' = sinks /\ l = "tracer"
    BY <1>0, <1>8 DEF EnableConsole, Goto, TypeThreads, l
  <2>2. sinks = {} /\ target[t] \in logs
    BY <2>1, Doing DEF Leaves
  <2>3. TypeLogs' /\ LogsKnown' /\ OneSink'
    <3>1. TypeLogs'
      BY <1>0, <1>1, <2>1 DEF Records, TypeLogs
    <3>2. LogsKnown'
      BY <1>0, <1>1, <1>b, <1>d, <2>1 DEF Records, LogsKnown
    <3>3. OneSink'
      BY <2>1, <2>2 DEF OneSink
    <3> QED BY <3>1, <3>2, <3>3
  <2>4. Connecting'
    <3>1. pc'[ready] \notin {"silence", "add"} => \A i \in logs' : Current(i)' => i \in sinks'
      BY <1>0, <1>1, <1>d, <1>e, <2>1 DEF Records, Connecting
    <3>2. job'[ready] = job[ready]
      BY <1>a, Names
    <3>3. pc'[ready] # "add"
      BY <1>e, <1>g, <2>2
    <3> QED BY <1>0, <1>1, <1>b, <1>e, <2>1, <3>1, <3>2, <3>3 DEF Records, Connecting
  <2>5. Leavers'
    <3>1. Leaves(pc[t], job[t], target[t])'
      BY <1>a, <2>1, <2>2 DEF Leaves
    <3>2. ASSUME NEW u \in Threads \ {t} PROVE Leaves(pc[u], job[u], target[u])'
      BY <1>1, <1>a, <2>1, Doing DEF Leaves
    <3> QED BY <3>1, <3>2 DEF Leavers
  <2>6. Records'
    BY <2>3, <2>4, <2>5 DEF Records
  <2> QED BY <1>4, <1>5, <1>6, <2>6 DEF IInv, Settled
<1> QED BY <1>7, <1>8

LEMMA ResetStep ==
  ASSUME IInv, NEW t \in Threads, ResetImpl(t)
  PROVE  IInv'
<1>0. TypeThreads /\ Settled /\ Control /\ Records /\ TypeClients
  BY DEF IInv, Settled, Control
<1> DEFINE c == target[t][1]
<1>1. /\ pc[t] = "reset" /\ Goto(t, "sink") /\ Stay(t)
      /\ gen' \in {gen, [gen EXCEPT ![c] = Null]}
      /\ phase' = phase /\ alive' = alive /\ parent' = parent
      /\ UNCHANGED <<logging, tracing, enabled, traced>>
  BY DEF ResetImpl
<1>2. Moves(t, "sink", job[t], target[t])
  BY <1>0, <1>1, GotoMoves
<1>a. /\ pc'[t] = "sink" /\ job'[t] = job[t] /\ target'[t] = target[t]
      /\ \A u \in Threads \ {t} : pc'[u] = pc[u] /\ job'[u] = job[u] /\ target'[u] = target[u]
  BY <1>0, <1>2, MovesStep
<1>b. UNCHANGED <<provider, running, sending, stopping, global, spans, logs, sinks, console>>
  BY <1>1 DEF tracing, logging
<1>3. Fits(t, "sink", job[t]) /\ job[t] \in Closing
  BY <1>1, Doing DEF Fits, Linking, Closing, Destroying
<1>4. Control'
  <2>1. "sink" \in Labels /\ "sink" \notin InTracer
    BY DEF Labels, InTracer
  <2> QED BY <1>0, <1>1, <1>2, <1>3, <2>1, Doing, ControlKept
<1>5. c \in Clients /\ ~Anchored(c) /\ phase[c] = "joined"
  BY <1>0, <1>1, <1>3, Adrift, Doing DEF Aims, Destroying
<1>6. /\ \A x \in Clients \ {c} : gen'[x] = gen[x]
      /\ gen'[c] \in {gen[c], Null}
      /\ TypeClients'
  BY <1>0, <1>1, <1>5, BoundsAssumption DEF TypeClients, Null
<1> HIDE DEF c
<1>7. \A x : Anchored(x)' <=> Anchored(x)
  BY <1>1, <1>a, Names DEF Anchored, Ending
<1>8. Life'
  <2>1. Targets'
    <3>1. ASSUME NEW u \in Threads PROVE Aims(u, pc[u], job[u], target[u])'
      <4>1. Aims(u, pc[u], job[u], target[u])
        BY Doing
      <4>2. job[u] = "redial" => target[u][1] \in Clients \ {c}
        BY <1>5, <4>1 DEF Aims, Destroying
      <4>3. /\ job'[u] = job[u] /\ target'[u] = target[u]
            /\ pc'[u] = "close" <=> pc[u] = "close"
        BY <1>1, <1>a
      <4> QED BY <1>1, <1>6, <4>1, <4>2, <4>3 DEF Aims
    <3> QED BY <3>1 DEF Targets
  <2>2. Parenthood'
    <3>1. job'[ready] = job[ready] /\ \A u \in {ready, main} : pc'[u] = "idle" <=> pc[u] = "idle"
      BY <1>1, <1>a, Names
    <3> QED BY <1>0, <1>1, <3>1 DEF Settled, Life, Parenthood
  <2>3. Lives'
    BY <1>0, <1>1, <1>5, <1>6 DEF Settled, Life, Lives
  <2>4. OpenParents'
    BY <1>0, <1>1, <1>7 DEF Settled, Life, OpenParents
  <2> QED BY <2>1, <2>2, <2>3, <2>4 DEF Life
<1>9. Exporter' /\ TypeTracing'
  <2>1. Exports("sink", job[t], target[t]) /\ (sending # NoImpl => sending \in alive')
    BY <1>1 DEF Exports, IInv, Exporter
  <2>2. Exporter'
    BY <1>0, <1>1, <1>b, <1>2, <2>1, ExporterKept DEF IInv
  <2> QED BY <2>2, <1>1, <1>b DEF IInv, TypeTracing
<1>10. Records'
  <2>1. \A i \in logs : i \in Clients \X (1..MaxGen) /\ (Current(i)' <=> Current(i))
    <3>1. ASSUME NEW i \in logs PROVE i \in Clients \X (1..MaxGen) /\ (Current(i)' <=> Current(i))
      <4>1. i \in Clients \X (1..MaxGen)
        BY <1>0 DEF Records, TypeLogs, Impls
      <4>2. CASE i[1] = c
        BY <1>5, <1>7, <4>1, <4>2 DEF Current
      <4>3. CASE i[1] # c
        <5>1. gen'[i[1]] = gen[i[1]] /\ i' = i
          BY <1>6, <4>1, <4>3
        <5> QED BY <1>7, <4>1, <5>1 DEF Current
      <4> QED BY <4>1, <4>2, <4>3
    <3> QED BY <3>1
  <2>2. \A u \in Threads : \A i : Takes(u, i)' <=> Takes(u, i)
    BY <1>1, <1>a DEF Takes
  <2>3. LogsKnown'
    BY <1>0, <1>1, <1>b, <2>1, <2>2 DEF Records, LogsKnown
  <2>4. OneSink'
    <3>1. \A u \in Threads : pc'[u] \in {"add", "console"} <=> pc[u] \in {"add", "console"}
      BY <1>1, <1>a
    <3>2. pc'[ready] = "add" <=> pc[ready] = "add"
      BY <1>1, <1>a, Names
    <3>3. \A u \in Threads : pc'[u] = "console" <=> pc[u] = "console"
      BY <1>1, <1>a
    <3> QED BY <1>0, <1>b, <3>2, <3>3 DEF Records, OneSink
  <2>5. Connecting'
    <3>1. /\ \A x \in {"create", "silence", "add"} : pc'[ready] = x <=> pc[ready] = x
          /\ job'[ready] = job[ready]
      BY <1>1, <1>a, Names
    <3>2. pc[ready] \in {"silence", "add"} => <<parent, gen[parent]>>' = <<parent, gen[parent]>>
      <4>1. pc[ready] \in {"silence", "add"} => parent \in Clients \ {c}
        <5>1. pc[ready] \in {"silence", "add"} => job[ready] \in Linking
          BY Names, Doing DEF Fits
        <5>2. job[ready] \in Linking => parent # Nobody
          BY <1>0 DEF Settled, Life, Parenthood
        <5>3. parent # c
          BY <1>5 DEF Anchored
        <5> QED BY <1>0, <5>1, <5>2, <5>3, Names DEF TypeThreads
      <4> QED BY <1>1, <1>6, <4>1
    <3> QED BY <1>0, <1>1, <1>b, <2>1, <3>1, <3>2 DEF Records, Connecting
  <2>6. Leavers'
    <3>1. Leaves(pc[t], job[t], target[t])'
      BY <1>1, <1>a, <1>b, Doing DEF Leaves
    <3>2. ASSUME NEW u \in Threads \ {t} PROVE Leaves(pc[u], job[u], target[u])'
      BY <1>a, <1>b, Doing DEF Leaves
    <3> QED BY <3>1, <3>2 DEF Leavers
  <2> QED BY <1>0, <1>b, <2>3, <2>4, <2>5, <2>6 DEF Records, TypeLogs
<1> QED BY <1>4, <1>6, <1>8, <1>9, <1>10 DEF IInv, Settled

\* close() of any client: what the two actions have in common.
LEMMA CloseStep ==
  ASSUME IInv, NEW t \in Threads, NEW c \in Clients, NEW j \in Closing,
         phase[c] = "open", c # parent,
         pc[t] = "idle" \/ (pc[t] = "close" /\ target[t][1] = c /\ j = job[t]),
         (t \in Others /\ c = t /\ j = "close" /\ pc[t] = "idle")
           \/ (t \in {ready, main} /\ pc[t] = "close"),
         phase' = [phase EXCEPT ![c] = "joined"],
         Enter(t, "reset", j, <<c, gen[c]>>),
         UNCHANGED <<gen, alive, logging, tracing, enabled, parent, traced>>
  PROVE  IInv'
<1>0. TypeThreads /\ Settled /\ Control /\ Records /\ TypeClients
  BY DEF IInv, Settled, Control
<1> DEFINE i == <<c, gen[c]>>
<1>1. Moves(t, "reset", j, i)
  BY EnterMoves
<1>a. /\ pc'[t] = "reset" /\ job'[t] = j /\ target'[t] = i
      /\ \A u \in Threads \ {t} : pc'[u] = pc[u] /\ job'[u] = job[u] /\ target'[u] = target[u]
  BY <1>0, <1>1, MovesStep
<1>b. UNCHANGED <<provider, running, sending, stopping, global, spans, logs, sinks, console, gen, alive, parent, enabled>>
  BY DEF tracing, logging
<1>2. /\ gen[c] \in 0..MaxGen /\ gen[c] # Null /\ i[1] = c /\ i[2] = gen[c]
      /\ i \in Clients \X (0..MaxGen) /\ i \in Goals /\ i # NoImpl /\ i' = i
  BY <1>0, <1>b, Names DEF TypeClients, Settled, Life, Lives, Goals, NoImpl
<1> HIDE DEF i
<1>c. /\ phase'[c] = "joined" /\ TypeClients'
      /\ \A x \in Clients \ {c} : phase'[x] = phase[x]
  BY <1>0, <1>b DEF TypeClients
<1>3. Fits(t, "reset", j) /\ "reset" \in Labels /\ "reset" \notin InTracer /\ j \in JobNames
  BY Doing, Names DEF Fits, Labels, Closing, Destroying, InTracer, Linking, JobNames
<1>4. Control'
  <2>1. {parent', traced'} \subseteq Parents \cup {Nobody}
    BY <1>0, <1>b DEF TypeThreads
  <2> QED BY <1>0, <1>1, <1>2, <1>3, <2>1, ControlKept
\* Nobody else is after c.
<1>5. ASSUME NEW u \in Threads \ {t}
      PROVE  /\ job[u] \in Destroying => target[u][1] # c
             /\ pc[u] = "close" => target[u][1] # c
  <2>1. /\ Fits(u, pc[u], job[u]) /\ Aims(u, pc[u], job[u], target[u])
        /\ Fits(t, pc[t], job[t]) /\ Aims(t, pc[t], job[t], target[t])
    BY Doing
  <2>2. pc[u] = "close" => job[u] \in Closing
    BY <2>1 DEF Fits, Closing
  <2>3. CASE job[u] = "redial"
    <3>1. CASE t \in Others
      BY <2>1, <2>3, <3>1, Names DEF Aims
    <3>2. CASE t \in {ready, main} /\ pc[t] = "close"
      <4>1. c \in Parents
        BY <2>1, <3>2, Names DEF Aims, Fits
      <4> QED BY <2>1, <2>3, <4>1, Names DEF Aims
    <3> QED BY <3>1, <3>2
  <2>4. CASE job[u] \in Closing
    <3>1. CASE t \in Others
      BY <2>1, <2>4, <3>1, Names DEF Aims, Closing
    <3>2. CASE t \in {ready, main} /\ pc[t] = "close"
      <4>1. job[t] \in Closing /\ target[t][1] = c
        BY <2>1, <3>2 DEF Fits, Closing
      <4> QED BY <1>0, <2>4, <4>1, Distinct
    <3> QED BY <3>1, <3>2
  <2> QED BY <2>2, <2>3, <2>4 DEF Destroying
<1>6. Life'
  <2>1. Targets'
    <3>1. Aims(t, pc[t], job[t], target[t])'
      <4>1. Aims(t, pc[t], job[t], target[t])
        BY Doing
      <4>2. j \in {"fail", "replace", "release"} => c \in Parents
        BY <4>1, Names DEF Aims
      <4>3. j = "close" => c = t
        BY Names, Doing DEF Fits
      <4> QED BY <1>2, <1>a, <1>b, <1>c, <4>2, <4>3 DEF Aims, Closing, Destroying
    <3>2. ASSUME NEW u \in Threads \ {t} PROVE Aims(u, pc[u], job[u], target[u])'
      <4>1. Aims(u, pc[u], job[u], target[u])
        BY Doing
      <4>2. job[u] \in Destroying => phase'[target[u][1]] = phase[target[u][1]]
        BY <1>5, <1>c, <4>1 DEF Aims
      <4>3. pc[u] = "close" => job[u] \in Destroying
        BY Doing DEF Fits, Destroying, Closing
      <4> QED BY <1>a, <1>b, <4>1, <4>2, <4>3 DEF Aims, Destroying, Closing
    <3> QED BY <3>1, <3>2 DEF Targets
  <2>2. Parenthood'
    <3>1. parent # Nobody => phase'[parent] = "open"
      BY <1>0, <1>c, Names DEF Settled, Life, Parenthood, TypeThreads
    <3>2. job'[ready] \in {"replace"} \cup Linking => job[ready] \in {"replace"} \cup Linking
      BY <1>a, Names DEF Closing, Linking
    <3>3. pc'[main] # "idle" => pc[main] # "idle"
      BY <1>a, Names
    <3>4. pc'[ready] # "idle" => pc[ready] # "idle"
      BY <1>a, Names
    <3> QED BY <1>0, <1>b, <3>1, <3>2, <3>3, <3>4 DEF Settled, Life, Parenthood
  <2>3. Lives'
    BY <1>0, <1>b, <1>c DEF Settled, Life, Lives
  <2>4. OpenParents'
    <3>1. \A x \in Clients \ {c} : Anchored(x) => Anchored(x)'
      BY <1>a, <1>b, Names DEF Anchored, Ending
    <3> QED BY <1>0, <1>c, <3>1, Names DEF Settled, Life, OpenParents
  <2> QED BY <2>1, <2>2, <2>3, <2>4 DEF Life
<1>7. Exporter' /\ TypeTracing'
  <2>1. Exports("reset", j, i) /\ (sending # NoImpl => sending \in alive')
    BY <1>b DEF Exports, IInv, Exporter
  <2>2. t = ready /\ job[ready] = "replace" /\ running = target[ready][1] =>
            j = "replace" /\ i[1] = target[ready][1]
    BY <1>2, Names, Doing DEF Fits
  <2>3. Exporter'
    BY <1>0, <1>b, <1>1, <2>1, <2>2, ExporterKept DEF IInv
  <2> QED BY <2>3, <1>b DEF IInv, TypeTracing
<1>8. Records'
  <2>1. \A x \in Clients \ {c} : Anchored(x)' <=> Anchored(x)
    BY <1>2, <1>a, <1>b, Names DEF Anchored, Ending
  <2>2. ~Anchored(c)'
    BY <1>5, <1>a, <1>b, Names DEF Anchored, Ending
  <2>3. \A k \in logs : k \in Clients \X (1..MaxGen) /\ k[1] \in Parents
    BY <1>0 DEF Records, TypeLogs, Impls, LogsKnown
  <2>4. \A k \in logs : /\ Current(k)' => Current(k)
                        /\ Current(k) => Current(k)' \/ k = i
    <3>1. ASSUME NEW k \in logs
          PROVE  (Current(k)' => Current(k)) /\ (Current(k) => Current(k)' \/ k = i)
      <4>1. CASE k[1] = c
        BY <1>2, <2>2, <2>3, <4>1 DEF Current, i
      <4>2. CASE k[1] # c
        <5>1. Anchored(k[1])' <=> Anchored(k[1])
          BY <2>1, <2>3, <4>2
        <5> QED BY <1>b, <5>1 DEF Current
      <4> QED BY <4>1, <4>2
    <3> QED BY <3>1
  <2>5. /\ \A u \in Threads : \A k \in logs : Takes(u, k) => Takes(u, k)'
        /\ Takes(t, i)'
    <3>1. ASSUME NEW k PROVE ~Takes(t, k)
      BY Doing DEF Fits, Takes, Destroying, Closing
    <3>2. Takes(t, i)'
      BY <1>2, <1>a DEF Takes, Destroying
    <3>3. ASSUME NEW u \in Threads \ {t}, NEW k PROVE Takes(u, k) => Takes(u, k)'
      BY <1>a DEF Takes
    <3> QED BY <3>1, <3>2, <3>3
  <2>6. LogsKnown'
    <3>1. ASSUME NEW k \in logs PROVE Current(k)' \/ \E u \in Threads : Takes(u, k)'
      <4>1. k = i => Takes(t, k)'
        BY <2>5, <1>2
      <4> QED BY <1>0, <2>4, <2>5, <4>1 DEF Records, LogsKnown
    <3>2. ASSUME NEW k \in logs PROVE k[1] \in Parents /\ phase'[k[1]] # "none"
      BY <1>0, <1>c, <2>3 DEF Records, LogsKnown
    <3> QED BY <1>0, <1>b, <3>1, <3>2 DEF Records, LogsKnown
  <2>x. /\ \A u \in Threads : pc'[u] = "console" <=> pc[u] = "console"
        /\ \A x \in {"create", "silence", "add"} : pc'[ready] = x <=> pc[ready] = x
    BY <1>a, Names
  <2>7. OneSink'
    BY <1>0, <1>b, <2>x DEF Records, OneSink
  <2>8. Connecting'
    <3>1. job'[ready] = "replace" => job[ready] = "replace"
      BY <1>a, Names
    <3> QED BY <1>0, <1>b, <2>4, <2>x, <3>1 DEF Records, Connecting
  <2>9. Leavers'
    <3>1. Leaves(pc[t], job[t], target[t])'
      <4>1. i \in logs => i \in sinks
        <5>1. CASE t \in Others
          BY <1>2, <2>3, <5>1, Names
        <5>2. CASE t \in {ready, main} /\ pc[t] = "close"
          <6>1. Current(i)
            BY <1>2, <5>2 DEF Current, Anchored, Ending
          <6>2. pc[ready] \notin {"silence", "add"}
            <7>1. t = main => pc[ready] = "idle"
              BY <1>0, <5>2, Turns
            <7> QED BY <5>2, <7>1
          <6> QED BY <1>0, <6>1, <6>2 DEF Records, Connecting
        <5> QED BY <5>1, <5>2
      <4> QED BY <1>a, <1>b, <4>1 DEF Leaves
    <3>2. ASSUME NEW u \in Threads \ {t} PROVE Leaves(pc[u], job[u], target[u])'
      BY <1>a, <1>b, Doing DEF Leaves
    <3> QED BY <3>1, <3>2 DEF Leavers
  <2> QED BY <1>0, <1>b, <2>6, <2>7, <2>8, <2>9 DEF Records, TypeLogs
<1> QED BY <1>4, <1>c, <1>6, <1>7, <1>8 DEF IInv, Settled

LEMMA RedialStep ==
  ASSUME IInv, NEW t \in Threads, NEW c \in Clients, Redial(t, c), t \in Others, c = t
  PROVE  IInv'
<1>0. TypeThreads /\ Settled /\ Control /\ Records /\ TypeClients
  BY DEF IInv, Settled, Control
<1> DEFINE i == <<c, gen[c]>>
           n == <<c, gen[c] + 1>>
<1>1. /\ phase[c] = "open" /\ gen[c] < MaxGen /\ pc[t] = "idle"
      /\ gen' = [gen EXCEPT ![c] = gen[c] + 1]
      /\ alive' = alive \cup {n}
      /\ Enter(t, "sink", "redial", i)
      /\ UNCHANGED <<phase, logging, tracing, enabled, parent, traced>>
  BY DEF Redial
<1>2. Moves(t, "sink", "redial", i)
  BY <1>1, EnterMoves
<1>a. /\ pc'[t] = "sink" /\ job'[t] = "redial" /\ target'[t] = i
      /\ \A u \in Threads \ {t} : pc'[u] = pc[u] /\ job'[u] = job[u] /\ target'[u] = target[u]
  BY <1>0, <1>2, MovesStep
<1>b. UNCHANGED <<provider, running, sending, stopping, global, spans, logs, sinks, console, phase, parent, enabled>>
  BY <1>1 DEF tracing, logging
<1>c. /\ gen[c] \in 1..MaxGen /\ gen[c] + 1 \in 1..MaxGen /\ gen[c] # Null
      /\ i \in Clients \X (0..MaxGen) /\ i \in Goals /\ n \in Impls
      /\ i[1] = c /\ i[2] = gen[c]
  BY <1>0, <1>1, BoundsAssumption DEF TypeClients, Settled, Life, Lives, Goals, Null, Impls
<1>d. /\ gen'[c] = gen[c] + 1 /\ \A x \in Clients \ {c} : gen'[x] = gen[x]
      /\ TypeClients'
  <2>1. gen'[c] = gen[c] + 1 /\ \A x \in Clients \ {c} : gen'[x] = gen[x]
    BY <1>0, <1>1 DEF TypeClients
  <2>2. gen' \in [Clients -> 0..MaxGen]
    BY <1>0, <1>1, <1>c DEF TypeClients
  <2> QED BY <1>0, <1>1, <1>b, <1>c, <2>1, <2>2 DEF TypeClients
<1> HIDE DEF i, n
<1>e. t # ready /\ t # main /\ c \notin Parents
  BY Names
<1>3. Fits(t, "sink", "redial") /\ "sink" \in Labels /\ "sink" \notin InTracer /\ "redial" \in JobNames
  BY DEF Fits, Labels, Closing, Destroying, InTracer, Linking, JobNames
<1>4. Control'
  <2>1. {parent', traced'} \subseteq Parents \cup {Nobody}
    BY <1>0, <1>1 DEF TypeThreads
  <2> QED BY <1>0, <1>2, <1>c, <1>3, <2>1, ControlKept
<1>5. \A x : Anchored(x)' <=> Anchored(x)
  BY <1>a, <1>b, <1>e, Names DEF Anchored, Ending
<1>6. Life'
  <2>1. Targets'
    <3>1. Aims(t, pc[t], job[t], target[t])'
      BY <1>1, <1>a, <1>b, <1>c, <1>d DEF Aims, Closing, Destroying
    <3>2. ASSUME NEW u \in Threads \ {t} PROVE Aims(u, pc[u], job[u], target[u])'
      <4>1. Aims(u, pc[u], job[u], target[u])
        BY Doing
      <4>2. ASSUME job[u] = "redial" PROVE target[u][2] < gen'[target[u][1]]
        <5>1. target[u][1] \in Clients /\ target[u][2] < gen[target[u][1]] /\ target[u][2] \in 0..MaxGen
          BY <4>1, <4>2 DEF Aims, Destroying
        <5> QED BY <1>c, <1>d, <5>1
      <4> QED BY <1>a, <1>b, <4>1, <4>2 DEF Aims
    <3> QED BY <3>1, <3>2 DEF Targets
  <2>2. Parenthood'
    BY <1>0, <1>a, <1>b, <1>e, Names DEF Settled, Life, Parenthood
  <2>3. Lives'
    <3>1. ASSUME NEW x \in Clients PROVE gen'[x] # Null => <<x, gen'[x]>> \in alive'
      <4>1. CASE x = c
        BY <1>1, <1>d, <4>1 DEF n
      <4>2. CASE x # c
        BY <1>0, <1>1, <1>d, <4>2 DEF Settled, Life, Lives
      <4> QED BY <4>1, <4>2
    <3>2. ASSUME NEW x \in Clients PROVE phase'[x] = "open" => gen'[x] # Null
      <4>1. gen'[c] # Null
        BY <1>c, <1>d DEF Null
      <4> QED BY <1>0, <1>b, <1>d, <4>1 DEF Settled, Life, Lives
    <3> QED BY <3>1, <3>2 DEF Lives
  <2>4. OpenParents'
    BY <1>0, <1>b, <1>5 DEF Settled, Life, OpenParents
  <2> QED BY <2>1, <2>2, <2>3, <2>4 DEF Life
<1>7. Exporter' /\ TypeTracing'
  <2>1. Exports("sink", "redial", i) /\ (sending # NoImpl => sending \in alive')
    BY <1>1 DEF Exports, IInv, Exporter
  <2>2. Exporter'
    BY <1>0, <1>b, <1>2, <1>e, <2>1, ExporterKept DEF IInv
  <2> QED BY <2>2, <1>b DEF IInv, TypeTracing
<1>8. Records'
  <2>1. \A k \in logs : k \in Clients \X (1..MaxGen) /\ k[1] \in Parents /\ k \in alive
    BY <1>0 DEF Records, TypeLogs, Impls, LogsKnown
  \* No record goes to the impl that has just been made.
  <2>2. n \notin logs
    <3>1. n[1] = c /\ n[2] = gen[c] + 1
      BY DEF n
    <3>2. ~Current(n)
      BY <1>c, <3>1 DEF Current
    <3>3. ASSUME NEW u \in Threads, Takes(u, n) PROVE FALSE
      <4>1. Aims(u, pc[u], job[u], target[u]) /\ target[u] = n /\ job[u] \in Destroying /\ pc[u] # "close"
        BY <3>3, Doing DEF Takes
      <4> QED BY <1>1, <1>c, <3>1, <4>1 DEF Aims, Destroying
    <3> QED BY <1>0, <3>2, <3>3 DEF Records, LogsKnown
  <2>3. \A k \in logs : /\ Current(k)' => Current(k)
                        /\ Current(k) => Current(k)' \/ k = i
    <3>1. ASSUME NEW k \in logs
          PROVE  (Current(k)' => Current(k)) /\ (Current(k) => Current(k)' \/ k = i)
      <4>0. k = <<k[1], k[2]>> /\ k[1] \in Clients /\ k' = k
        BY <2>1
      <4>1. CASE k[1] = c
        <5>1. k[2] # gen'[k[1]]
          BY <1>d, <2>2, <4>0, <4>1 DEF n
        <5>2. k[2] = gen[c] => k = i
          BY <4>0, <4>1 DEF i
        <5> QED BY <4>0, <4>1, <5>1, <5>2 DEF Current
      <4>2. CASE k[1] # c
        BY <1>5, <1>d, <4>0, <4>2 DEF Current
      <4> QED BY <4>1, <4>2
    <3> QED BY <3>1
  <2>4. /\ \A u \in Threads : \A k \in logs : Takes(u, k) => Takes(u, k)'
        /\ \A k \in logs : k = i => Takes(t, k)'
    <3>1. ASSUME NEW k PROVE ~Takes(t, k)
      BY <1>1, Doing DEF Fits, Takes, Destroying, Closing
    <3>2. ASSUME NEW k \in logs, k = i PROVE Takes(t, k)'
      BY <1>a, <3>2 DEF Takes, Destroying
    <3>3. ASSUME NEW u \in Threads \ {t}, NEW k PROVE Takes(u, k) => Takes(u, k)'
      BY <1>a DEF Takes
    <3> QED BY <3>1, <3>2, <3>3
  <2>5. LogsKnown'
    <3>1. ASSUME NEW k \in logs PROVE Current(k)' \/ \E u \in Threads : Takes(u, k)'
      <4>1. k = i => Takes(t, k)'
        BY <2>4
      <4> QED BY <1>0, <2>3, <2>4, <4>1 DEF Records, LogsKnown
    <3> QED BY <1>0, <1>1, <1>b, <3>1 DEF Records, LogsKnown
  <2>x. /\ \A u \in Threads : pc'[u] = "console" <=> pc[u] = "console"
        /\ \A x \in {"create", "silence", "add"} : pc'[ready] = x <=> pc[ready] = x
        /\ job'[ready] = job[ready]
    BY <1>1, <1>a, <1>e, Names
  <2>6. OneSink'
    BY <1>0, <1>b, <2>x DEF Records, OneSink
  \* The client that is being connected is another.
  <2>y. pc[ready] \in {"silence", "add"} => parent # c /\ parent \in Clients
    <3>1. pc[ready] \in {"silence", "add"} => job[ready] \in Linking
      BY Names, Doing DEF Fits
    <3>2. job[ready] \in Linking => parent # Nobody
      BY <1>0 DEF Settled, Life, Parenthood
    <3>3. pc[ready] \in {"silence", "add"} => parent # c
      BY <1>0, <3>1, <3>2, Names DEF TypeThreads
    <3> QED BY <1>0, <3>1, <3>2, <3>3, Names DEF TypeThreads
  <2>7. Connecting'
    <3>1. pc[ready] \in {"silence", "add"} => <<parent, gen[parent]>>' = <<parent, gen[parent]>>
      BY <1>b, <1>d, <2>y
    <3> QED BY <1>0, <1>b, <2>3, <2>x, <3>1 DEF Records, Connecting
  <2>8. Leavers'
    <3>1. Leaves(pc[t], job[t], target[t])'
      <4>1. i \notin logs
        BY <1>c, <1>e, <2>1
      <4> QED BY <1>a, <1>b, <4>1 DEF Leaves
    <3>2. ASSUME NEW u \in Threads \ {t} PROVE Leaves(pc[u], job[u], target[u])'
      BY <1>a, <1>b, Doing DEF Leaves
    <3> QED BY <3>1, <3>2 DEF Leavers
  <2> QED BY <1>0, <1>b, <2>5, <2>6, <2>7, <2>8 DEF Records, TypeLogs
<1> QED BY <1>4, <1>d, <1>6, <1>7, <1>8 DEF IInv, Settled

LEMMA FreeStep ==
  ASSUME IInv, NEW t \in Threads, Free(t)
  PROVE  IInv'
<1>0. TypeThreads /\ Settled /\ Control /\ Records /\ TypeClients
  BY DEF IInv, Settled, Control
<1> DEFINE i == target[t]
           c == i[1]
           j == IF job[t] = "replace" THEN "connect" ELSE "none"
           l == IF job[t] = "replace" THEN "create" ELSE IF job[t] = "release" THEN "ended" ELSE "idle"
<1>1. /\ pc[t] = "free" /\ Enter(t, l, j, NoImpl)
      /\ alive' = alive \ {i} /\ logs' = logs \ {i}
      /\ phase' = IF job[t] = "redial" THEN phase ELSE [phase EXCEPT ![c] = "gone"]
      /\ gen' = IF job[t] = "redial" THEN gen ELSE [gen EXCEPT ![c] = Null]
      /\ UNCHANGED <<sinks, console, tracing, enabled, parent, traced>>
  BY DEF Free
<1>2. Moves(t, l, j, NoImpl)
  BY <1>1, EnterMoves
<1>a. /\ pc'[t] = l /\ job'[t] = j /\ target'[t] = NoImpl
      /\ \A u \in Threads \ {t} : pc'[u] = pc[u] /\ job'[u] = job[u] /\ target'[u] = target[u]
  BY <1>0, <1>2, MovesStep
<1>b. UNCHANGED <<provider, running, sending, stopping, global, spans, sinks, console, parent, enabled>>
  BY <1>1 DEF tracing
<1>3. /\ Fits(t, pc[t], job[t]) /\ Aims(t, pc[t], job[t], target[t]) /\ job[t] \in Destroying
      /\ job[t] = "replace" => t = ready
      /\ job[t] = "release" => t = main
      /\ i \in Clients \X (0..MaxGen)
      /\ pc[t] \notin {"close", "idle"}
  BY <1>1, Doing DEF Fits, Aims
<1>c. /\ TypeClients'
      /\ \A x \in Clients \ {c} : phase'[x] = phase[x] /\ gen'[x] = gen[x]
      /\ job[t] = "redial" => phase' = phase /\ gen' = gen
      /\ job[t] # "redial" => phase'[c] = "gone" /\ gen'[c] = Null
  <2>1. phase' \in [Clients -> {"none", "open", "joined", "gone"}]
    BY <1>0, <1>1 DEF TypeClients
  <2>2. gen' \in [Clients -> 0..MaxGen]
    <3>1. Null \in 0..MaxGen
      BY BoundsAssumption DEF Null
    <3> QED BY <1>0, <1>1, <3>1 DEF TypeClients
  <2>3. c \in Clients
    BY <1>3
  <2> QED BY <1>0, <1>1, <2>1, <2>2, <2>3 DEF TypeClients
<1> HIDE DEF c, i
<1>d. job[t] # "redial" => job[t] \in Closing /\ ~Anchored(c) /\ phase[c] = "joined" /\ c # parent
  <2>1. job[t] # "redial" => job[t] \in Closing
    BY <1>3 DEF Destroying
  <2> QED BY <1>0, <1>3, <2>1, Adrift DEF c, i, Anchored
<1>e. c \in Clients /\ i[1] = c /\ i = target[t] /\ i # NoImpl
  BY <1>3, Names DEF c, i, NoImpl
<1>4. Fits(t, l, j) /\ l \in Labels /\ l \notin InTracer /\ j \in JobNames /\ NoImpl \in Goals
  BY <1>3 DEF Fits, Labels, Closing, Destroying, InTracer, Linking, JobNames, Goals
<1>5. Control'
  <2>1. {parent', traced'} \subseteq Parents \cup {Nobody}
    BY <1>0, <1>1 DEF TypeThreads
  <2> QED BY <1>0, <1>2, <1>4, <2>1, ControlKept
<1>n. /\ j \notin Destroying /\ l \notin {"close", "reset", "sink", "console", "silence", "add", "install", "noop", "drop", "release", "free"}
      /\ t = ready /\ l # "idle" => job[t] = "replace"
      /\ j \in {"replace"} \cup Linking => t = ready /\ job[t] = "replace"
  BY <1>3, Names DEF Destroying, Closing, Linking
<1> HIDE DEF l, j
<1>6. \A x : Anchored(x)' <=> Anchored(x)
  BY <1>3, <1>n, <1>a, <1>b, Names DEF Anchored, Ending
<1>7. Life'
  <2>1. Targets'
    <3>1. Aims(t, pc[t], job[t], target[t])'
      BY <1>a, <1>n DEF Aims, Closing, Destroying
    <3>2. ASSUME NEW u \in Threads \ {t} PROVE Aims(u, pc[u], job[u], target[u])'
      <4>1. Aims(u, pc[u], job[u], target[u])
        BY Doing
      <4>2. pc[u] = "close" => job[u] \in Closing
        BY Doing DEF Fits, Closing
      <4>3. job[u] \in Destroying => phase'[target[u][1]] = phase[target[u][1]] /\ gen'[target[u][1]] = gen[target[u][1]]
        <5> SUFFICES ASSUME job[u] \in Destroying, job[t] # "redial" PROVE target[u][1] \in Clients \ {c}
          BY <1>c
        <5>1. target[u][1] \in Clients
          BY <4>1 DEF Aims
        <5>2. CASE job[u] = "redial"
          BY <1>d, <4>1, <5>1, <5>2 DEF Aims
        <5>3. CASE job[u] \in Closing
          BY <1>0, <1>d, <1>e, <5>1, <5>3, Distinct
        <5> QED BY <5>2, <5>3 DEF Destroying
      <4> QED BY <1>a, <1>b, <4>1, <4>2, <4>3 DEF Aims, Closing, Destroying
    <3> QED BY <3>1, <3>2 DEF Targets
  <2>2. Parenthood'
    <3>1. parent # Nobody => phase'[parent] = "open"
      <4>1. parent # Nobody => phase[parent] = "open" /\ parent \in Clients
        BY <1>0, Names DEF Settled, Life, Parenthood, TypeThreads
      <4> QED BY <1>c, <1>d, <4>1
    <3>2. job'[ready] \in {"replace"} \cup Linking => job[ready] \in {"replace"} \cup Linking
      BY <1>a, <1>n, Names
    <3>3. pc'[main] # "idle" => pc[main] # "idle"
      BY <1>3, <1>a, Names
    <3>4. pc'[ready] # "idle" => pc[ready] # "idle"
      BY <1>3, <1>a, Names
    <3> QED BY <1>0, <1>b, <3>1, <3>2, <3>3, <3>4 DEF Settled, Life, Parenthood
  <2>3. Lives'
    <3>1. ASSUME NEW x \in Clients PROVE gen'[x] # Null => <<x, gen'[x]>> \in alive'
      <4>1. CASE x = c
        <5>1. CASE job[t] = "redial"
          <6>1. i # <<c, gen[c]>>
            <7>1. i[2] < gen[c] /\ i[2] \in 0..MaxGen /\ gen[c] \in 0..MaxGen
              BY <1>0, <1>3, <1>e, <5>1 DEF Aims, TypeClients
            <7> QED BY <7>1, BoundsAssumption
          <6> QED BY <1>0, <1>1, <1>c, <4>1, <5>1, <6>1 DEF Settled, Life, Lives
        <5>2. CASE job[t] # "redial"
          BY <1>c, <4>1, <5>2
        <5> QED BY <5>1, <5>2
      <4>2. CASE x # c
        <5>1. <<x, gen[x]>> # i
          BY <1>e, <4>2
        <5> QED BY <1>0, <1>1, <1>c, <4>2, <5>1 DEF Settled, Life, Lives
      <4> QED BY <4>1, <4>2
    <3>2. ASSUME NEW x \in Clients PROVE phase'[x] = "open" => gen'[x] # Null
      BY <1>0, <1>c DEF Settled, Life, Lives
    <3> QED BY <3>1, <3>2 DEF Lives
  <2>4. OpenParents'
    <3>1. \A x \in Clients : phase'[x] = "open" => phase[x] = "open"
      BY <1>c
    <3> QED BY <1>0, <1>6, <3>1, Names DEF Settled, Life, OpenParents
  <2> QED BY <2>1, <2>2, <2>3, <2>4 DEF Life
<1>8. Exporter' /\ TypeTracing'
  <2>1. Exports(l, j, NoImpl)
    BY <1>n DEF Exports
  <2>2. Exports("free", job[t], i)
    BY <1>1, <1>e, Doing
  <2>3. sending # NoImpl => sending \in alive'
    BY <1>1, <2>2 DEF Exports, IInv, Exporter
  \* The worker of the client that has gone had been joined.
  <2>4. ~(t = ready /\ job[ready] = "replace" /\ running = target[ready][1])
    BY <1>e, <2>2 DEF Exports, Closing
  <2>5. Exporter'
    BY <1>0, <1>b, <1>2, <2>1, <2>3, <2>4, ExporterKept DEF IInv
  <2> QED BY <2>5, <1>b DEF IInv, TypeTracing
<1>9. Records'
  <2>0. Leaves("free", job[t], i)
    BY <1>1, <1>e, Doing
  <2>1. \A k \in logs : k \in Clients \X (1..MaxGen) /\ k[1] \in Parents /\ k \in alive
    BY <1>0 DEF Records, TypeLogs, Impls, LogsKnown
  <2>2. i \notin sinks
    BY <1>3, <2>0 DEF Leaves
  <2>3. \A k \in logs : Current(k)' <=> Current(k)
    <3>1. ASSUME NEW k \in logs PROVE Current(k)' <=> Current(k)
      <4>0. k[1] \in Clients /\ k[2] # Null
        BY <2>1 DEF Null
      <4>1. CASE k[1] = c /\ job[t] # "redial"
        BY <1>6, <1>d, <4>1 DEF Current
      <4>2. CASE k[1] # c \/ job[t] = "redial"
        <5>1. gen'[k[1]] = gen[k[1]]
          BY <1>c, <4>0, <4>2
        <5> QED BY <1>6, <5>1 DEF Current
      <4> QED BY <4>1, <4>2
    <3> QED BY <3>1
  <2>4. \A u \in Threads : \A k \in logs' : Takes(u, k) => Takes(u, k)'
    BY <1>1, <1>a, <1>e DEF Takes
  <2>5. LogsKnown'
    <3>1. \A k \in logs' : k[1] \in Parents /\ phase'[k[1]] # "none"
      BY <1>0, <1>1, <1>c, <2>1 DEF Records, LogsKnown
    <3>2. \A k \in logs' : Current(k)' \/ \E u \in Threads : Takes(u, k)'
      <4>1. \A k \in logs' : k \in logs /\ (Current(k) \/ \E u \in Threads : Takes(u, k))
        BY <1>0, <1>1 DEF Records, LogsKnown
      <4> QED BY <2>3, <2>4, <4>1
    <3>3. sinks' \subseteq logs' /\ logs' \subseteq alive'
      BY <1>0, <1>1, <1>b, <2>2 DEF Records, LogsKnown
    <3> QED BY <3>1, <3>2, <3>3 DEF LogsKnown
  <2>x. /\ \A u \in Threads : pc'[u] = "console" <=> pc[u] = "console"
        /\ \A x \in {"silence", "add"} : pc'[ready] = x <=> pc[ready] = x
        /\ job'[ready] = "replace" => job[ready] = "replace"
    BY <1>1, <1>a, <1>n, Names DEF Destroying, Closing
  <2>6. OneSink'
    BY <1>0, <1>b, <2>x DEF Records, OneSink
  <2>7. Connecting'
    <3>1. pc'[ready] \notin {"silence", "add"} => \A k \in logs' : Current(k)' => k \in sinks'
      BY <1>0, <1>1, <1>b, <2>3, <2>x DEF Records, Connecting
    <3>2. job'[ready] = "replace" => \A k \in logs' : k[1] # parent'
      BY <1>0, <1>1, <1>b, <2>x DEF Records, Connecting
    \* What had a log_sink has gone: the old parent was the last.
    <3>3. pc'[ready] = "create" => logs' = {}
      <4>1. CASE t = ready /\ job[t] = "replace"
        <5>1. pc[main] = "idle"
          BY <1>0, <1>3, <4>1, Turns
        <5>2. ASSUME NEW k \in logs' PROVE FALSE
          <6>1. k \in logs /\ k # i /\ k[1] # parent /\ k[1] \in Parents
            BY <1>0, <1>1, <2>1, <4>1 DEF Records, Connecting
          <6>2. ~Anchored(k[1])
            BY <1>1, <4>1, <5>1, <6>1 DEF Anchored, Ending
          <6>3. PICK u \in Threads : Takes(u, k)
            BY <1>0, <6>1, <6>2 DEF Records, LogsKnown, Current
          <6>4. /\ u # t /\ target[u] = k /\ job[u] \in Destroying /\ pc[u] # "close"
                /\ Fits(u, pc[u], job[u]) /\ Aims(u, pc[u], job[u], target[u])
            BY <6>1, <6>3, <1>e, Doing DEF Takes
          <6>5. u \notin {ready, main}
            <7>1. pc[u] # "idle"
              BY <6>4 DEF Fits, Destroying, Closing
            <7> QED BY <4>1, <5>1, <6>4, <7>1
          <6>6. CASE job[u] = "redial"
            <7>1. phase[k[1]] = "open"
              BY <6>4, <6>6 DEF Aims
            <7> QED BY <1>0, <6>1, <6>2, <7>1 DEF Settled, Life, OpenParents
          <6>7. CASE job[u] \in Closing
            BY <6>1, <6>4, <6>5, <6>7, Names DEF Fits, Aims, Closing
          <6> QED BY <6>4, <6>6, <6>7 DEF Destroying
        <5> QED BY <5>2
      <4>2. CASE ~(t = ready /\ job[t] = "replace")
        <5>1. pc'[ready] = "create" => pc[ready] = "create"
          BY <1>a, <1>n, <4>2, Names
        <5> QED BY <1>0, <1>1, <5>1 DEF Records, Connecting
      <4> QED BY <4>1, <4>2
    <3>4. pc'[ready] \in {"silence", "add"} => logs' = {<<parent, gen[parent]>>}' /\ sinks' = {}
      <4> SUFFICES ASSUME pc[ready] \in {"silence", "add"} PROVE logs' = {<<parent, gen[parent]>>}' /\ sinks' = {}
        BY <2>x
      <4>1. logs = {<<parent, gen[parent]>>} /\ sinks = {}
        BY <1>0 DEF Records, Connecting
      <4>2. parent \in Clients /\ (job[t] # "redial" => parent # c)
        BY <1>d, <2>1, <4>1
      <4>3. gen'[parent] = gen[parent]
        BY <1>c, <4>2
      <4>4. <<parent, gen[parent]>> # i
        <5>1. CASE job[t] # "redial"
          BY <1>e, <4>2, <5>1
        <5>2. CASE job[t] = "redial"
          <6>1. i[2] < gen[c] /\ i[2] \in 0..MaxGen /\ gen[c] \in 0..MaxGen
            BY <1>0, <1>3, <1>e, <5>2 DEF Aims, TypeClients
          <6> QED BY <1>e, <6>1, BoundsAssumption
        <5> QED BY <5>1, <5>2
      <4> QED BY <1>1, <1>b, <4>1, <4>3, <4>4
    <3>5. pc'[ready] = "add" => ~console'
      BY <1>0, <1>b, <2>x DEF Records, Connecting
    <3> QED BY <3>1, <3>2, <3>3, <3>4, <3>5 DEF Connecting
  <2>8. Leavers'
    <3>1. Leaves(pc[t], job[t], target[t])'
      BY <1>a, <1>n DEF Leaves
    <3>2. ASSUME NEW u \in Threads \ {t} PROVE Leaves(pc[u], job[u], target[u])'
      <4>1. Leaves(pc[u], job[u], target[u])
        BY Doing
      <4>2. pc[u] = "console" => target[u] \in logs'
        <5> SUFFICES ASSUME pc[u] = "console", target[u] = i PROVE FALSE
          BY <1>1, <4>1 DEF Leaves
        <5>1. job[u] \in Destroying /\ Aims(u, pc[u], job[u], target[u]) /\ i \in logs
          BY <4>1, Doing DEF Fits, Leaves
        <5>2. c \in Parents
          BY <1>e, <2>1, <5>1
        <5>3. CASE job[t] \in Closing /\ job[u] \in Closing
          BY <1>0, <1>e, <5>3, Distinct
        <5>4. CASE job[t] = "redial" /\ job[u] \in Closing
          BY <1>3, <1>e, <5>1, <5>4 DEF Aims
        <5>5. CASE job[t] \in Closing /\ job[u] = "redial"
          <6>1. phase[c] = "open" /\ job[t] # "redial"
            BY <1>e, <5>1, <5>5 DEF Aims, Closing
          <6> QED BY <1>d, <6>1
        <5>6. CASE job[t] = "redial" /\ job[u] = "redial"
          <6>1. c = t /\ t \in Others
            BY <1>3, <1>e, <5>6 DEF Aims
          <6> QED BY <5>2, <6>1, Names
        <5> QED BY <1>3, <5>1, <5>3, <5>4, <5>5, <5>6 DEF Destroying
      <4> QED BY <1>1, <1>a, <1>b, <4>1, <4>2 DEF Leaves
    <3> QED BY <3>1, <3>2 DEF Leavers
  <2>9. TypeLogs'
    BY <1>0, <1>1, <1>b DEF Records, TypeLogs
  <2> QED BY <2>5, <2>6, <2>7, <2>8, <2>9 DEF Records
<1> QED BY <1>5, <1>c, <1>7, <1>8, <1>9 DEF IInv, Settled

\* with_channel, of a client that nothing refers to yet.
LEMMA OpenedFacts ==
  ASSUME IInv, NEW c \in Clients, phase[c] = "none", Opened(c)
  PROVE  /\ TypeClients' /\ Lives' /\ alive \subseteq alive'
         /\ phase'[c] = "open"
         /\ \A x \in Clients \ {c} : phase'[x] = phase[x] /\ gen'[x] = gen[x]
         /\ c # parent
         /\ \A u \in Threads : job[u] \in Destroying => target[u][1] \in Clients \ {c}
         /\ \A k \in logs : k[1] \in Clients \ {c}
<1>0. Settled /\ TypeClients /\ Records /\ TypeThreads
  BY DEF IInv, Settled, Control
<1>1. TypeClients'
  <2>1. 1 \in 0..MaxGen /\ 1 \in 1..MaxGen
    BY BoundsAssumption
  <2>2. <<c, 1>> \in Impls
    BY <2>1 DEF Impls
  <2> QED BY <1>0, <2>1, <2>2 DEF TypeClients, Opened
<1>2. /\ phase'[c] = "open" /\ gen'[c] = 1
      /\ \A x \in Clients \ {c} : phase'[x] = phase[x] /\ gen'[x] = gen[x]
  BY <1>0 DEF TypeClients, Opened
<1>3. Lives'
  BY <1>0, <1>2 DEF Settled, Life, Lives, Opened, Null
<1>4. c # parent
  BY <1>0, Names DEF Settled, Life, Parenthood
<1>5. ASSUME NEW u \in Threads, job[u] \in Destroying PROVE target[u][1] \in Clients \ {c}
  BY <1>5, Doing DEF Aims, Destroying
<1>6. ASSUME NEW k \in logs PROVE k[1] \in Clients \ {c}
  BY <1>0, Names DEF Records, LogsKnown
<1> QED BY <1>1, <1>2, <1>3, <1>4, <1>5, <1>6 DEF Opened

LEMMA OtherOpensStep ==
  ASSUME IInv, NEW o \in Others, OtherOpens(o)
  PROVE  IInv'
<1>0. TypeThreads /\ Settled /\ Control /\ Records /\ TypeClients
  BY DEF IInv, Settled, Control
<1>1. /\ o \in Clients /\ o \notin Parents /\ phase[o] = "none" /\ Opened(o)
      /\ UNCHANGED <<provider, running, sending, stopping, global, spans, sinks, logs, console, parent, enabled, traced, pc, job, target>>
  BY Names DEF OtherOpens, tracing, logging, threads
<1>2. /\ TypeClients' /\ Lives' /\ alive \subseteq alive'
      /\ phase'[o] = "open"
      /\ \A x \in Clients \ {o} : phase'[x] = phase[x] /\ gen'[x] = gen[x]
      /\ o # parent
      /\ \A u \in Threads : job[u] \in Destroying => target[u][1] \in Clients \ {o}
      /\ \A k \in logs : k[1] \in Clients \ {o}
  BY <1>1, OpenedFacts
<1>3. Control'
  BY <1>0, <1>1 DEF Control, TypeThreads, Jobs, Fits, Alone
<1>a. \A x : Anchored(x)' <=> Anchored(x)
  BY <1>1 DEF Anchored, Ending
<1>4. Life'
  <2>1. Targets'
    <3>1. ASSUME NEW u \in Threads PROVE Aims(u, pc[u], job[u], target[u])'
      <4>1. Aims(u, pc[u], job[u], target[u])
        BY Doing
      <4>2. pc[u] = "close" => job[u] \in Destroying
        BY Doing DEF Fits, Destroying, Closing
      <4> QED BY <1>1, <1>2, <4>1, <4>2 DEF Aims, Destroying, Closing
    <3> QED BY <3>1 DEF Targets
  <2>2. Parenthood'
    <3>1. parent # Nobody => parent \in Clients \ {o}
      BY <1>0, <1>2, Names DEF TypeThreads
    <3> QED BY <1>0, <1>1, <1>2, <3>1 DEF Settled, Life, Parenthood
  <2>3. OpenParents'
    BY <1>0, <1>1, <1>2, <1>a, Names DEF Settled, Life, OpenParents
  <2> QED BY <1>2, <2>1, <2>2, <2>3 DEF Life
<1>5. Exporter' /\ TypeTracing'
  <2>1. Exporter'
    BY <1>1, <1>2 DEF IInv, Exporter, Exports
  <2> QED BY <1>1, <2>1 DEF IInv, TypeTracing
<1>6. Records'
  <2>1. \A k \in logs : Current(k)' <=> Current(k)
    <3>1. ASSUME NEW k \in logs PROVE Current(k)' <=> Current(k)
      BY <1>2, <1>a DEF Current
    <3> QED BY <3>1
  <2>2. \A u \in Threads : \A k : Takes(u, k)' <=> Takes(u, k)
    BY <1>1 DEF Takes
  <2>3. LogsKnown'
    BY <1>0, <1>1, <1>2, <2>1, <2>2 DEF Records, LogsKnown
  <2>4. OneSink'
    BY <1>0, <1>1 DEF Records, OneSink
  <2>5. Connecting'
    <3>1. pc[ready] \in {"silence", "add"} => <<parent, gen[parent]>>' = <<parent, gen[parent]>>
      <4>1. ASSUME pc[ready] \in {"silence", "add"} PROVE parent \in Clients \ {o}
        <5>1. <<parent, gen[parent]>> \in logs
          BY <1>0, <4>1 DEF Records, Connecting
        <5> QED BY <1>2, <5>1
      <4> QED BY <1>1, <1>2, <4>1
    <3> QED BY <1>0, <1>1, <2>1, <3>1 DEF Records, Connecting
  <2>6. Leavers'
    BY <1>0, <1>1 DEF Records, Leavers, Leaves
  <2> QED BY <1>0, <1>1, <2>3, <2>4, <2>5, <2>6 DEF Records, TypeLogs
<1> QED BY <1>2, <1>3, <1>4, <1>5, <1>6 DEF IInv, Settled

LEMMA MakeParentStep ==
  ASSUME IInv, NEW p \in Parents, NEW lazily \in BOOLEAN, MakeParent(p, lazily)
  PROVE  IInv'
<1>0. TypeThreads /\ Settled /\ Control /\ Records /\ TypeClients
  BY DEF IInv, Settled, Control
<1> DEFINE l == pc'[ready]
           j == job'[ready]
           i == target'[ready]
<1>1. /\ pc[ready] = "idle" /\ pc[main] = "idle" /\ phase[p] = "none" /\ Opened(p)
      /\ UNCHANGED <<provider, running, sending, stopping, global, spans, sinks, logs, console, enabled, traced>>
  BY DEF MakeParent, tracing, logging
<1>2. p \in Clients /\ p # Nobody /\ ready \in Threads /\ main \in Threads /\ ready # main
  BY Names
\* The three ways on.
<1>3. \/ l = "close" /\ j = "fail" /\ i = <<p, Null>> /\ Moves(ready, l, j, i) /\ parent' = parent
      \/ l = "close" /\ j = "replace" /\ i = <<parent, Null>> /\ Moves(ready, l, j, i) /\ parent' = p /\ parent # Nobody
      \/ l = "create" /\ j \in Linking /\ i = NoImpl /\ Moves(ready, l, j, i) /\ parent' = p /\ parent = Nobody
  <2>1. CASE Enter(ready, "close", "fail", <<p, Null>>) /\ UNCHANGED parent
    BY <1>0, <1>2, <2>1, EnterMoves, MovesStep
  <2>2. CASE Enter(ready, "close", "replace", <<parent, Null>>) /\ parent' = p /\ parent # Nobody
    BY <1>0, <1>2, <2>2, EnterMoves, MovesStep
  <2>3. CASE Enter(ready, "create", IF lazily THEN "lazy" ELSE "connect", NoImpl) /\ parent' = p /\ parent = Nobody
    <3>1. Moves(ready, "create", IF lazily THEN "lazy" ELSE "connect", NoImpl)
      BY <1>2, <2>3, EnterMoves
    <3>2. l = "create" /\ j = (IF lazily THEN "lazy" ELSE "connect") /\ i = NoImpl
      BY <1>0, <1>2, <3>1, MovesStep
    <3> QED BY <2>3, <3>1, <3>2 DEF Linking
  <2> QED BY <2>1, <2>2, <2>3 DEF MakeParent
<1>a. \A u \in Threads \ {ready} : pc'[u] = pc[u] /\ job'[u] = job[u] /\ target'[u] = target[u]
  BY <1>0, <1>2, <1>3, MovesStep
<1>4. /\ TypeClients' /\ Lives' /\ alive \subseteq alive'
      /\ phase'[p] = "open"
      /\ \A x \in Clients \ {p} : phase'[x] = phase[x] /\ gen'[x] = gen[x]
      /\ p # parent
      /\ \A u \in Threads : job[u] \in Destroying => target[u][1] \in Clients \ {p}
      /\ \A k \in logs : k[1] \in Clients \ {p}
  BY <1>1, <1>2, OpenedFacts
<1>5. /\ parent # Nobody => parent \in Parents /\ phase[parent] = "open"
      /\ job[ready] = "none" /\ job[main] = "none"
      /\ parent' \in Parents \cup {Nobody}
  <2>1. parent # Nobody => parent \in Parents /\ phase[parent] = "open"
    BY <1>0 DEF TypeThreads, Settled, Life, Parenthood
  <2>2. job[ready] = "none" /\ job[main] = "none"
    BY <1>1, <1>2, Doing DEF Fits
  <2>3. parent' \in Parents \cup {Nobody}
    BY <1>0, <1>3 DEF TypeThreads
  <2> QED BY <2>1, <2>2, <2>3
<1>n. j \in {"fail", "replace"} \cup Linking /\ l \in {"close", "create"} /\ i \in Goals
  <2>1. Null \in 0..MaxGen
    BY BoundsAssumption DEF Null
  <2> QED BY <1>2, <1>3, <1>5, <2>1, Names DEF Goals
<1> HIDE DEF l, j, i
<1>6. Control'
  <2>1. Fits(ready, l, j) /\ l \in Labels /\ l \notin InTracer /\ j \in JobNames
    BY <1>3, <1>n DEF Fits, Labels, Closing, Destroying, InTracer, Linking, JobNames
  <2>2. {parent', traced'} \subseteq Parents \cup {Nobody}
    BY <1>0, <1>1, <1>5 DEF TypeThreads
  <2>3. Moves(ready, l, j, i)
    BY <1>3
  <2> QED BY <1>0, <1>2, <1>n, <2>1, <2>2, <2>3, ControlKept
<1>b. pc'[ready] = l /\ job'[ready] = j /\ target'[ready] = i
  BY DEF l, j, i
\* The old parent is about to be closed, and stays until then.
<1>c. \A x \in Clients : (Anchored(x)' => Anchored(x) \/ x = p) /\ (Anchored(x) => Anchored(x)')
  <2>1. ~Ending(main, p) /\ \A x : ~Ending(ready, x) /\ ~Ending(main, x)
    BY <1>1 DEF Ending
  <2>2. \A x : ~Ending(main, x)'
    BY <1>1, <1>2, <1>a DEF Ending
  <2>3. \A x \in Clients : Ending(ready, x)' <=> l = "close" /\ i[1] = x
    BY <1>b DEF Ending
  <2>4. CASE parent' = parent /\ l = "close" /\ i = <<p, Null>>
    BY <1>2, <2>1, <2>2, <2>3, <2>4 DEF Anchored
  <2>5. CASE parent' = p /\ l = "close" /\ i = <<parent, Null>>
    BY <1>2, <2>1, <2>2, <2>3, <2>5 DEF Anchored
  <2>6. CASE parent' = p /\ l = "create" /\ parent = Nobody
    BY <1>2, <2>1, <2>2, <2>3, <2>6, Names DEF Anchored
  <2> QED BY <1>3, <2>4, <2>5, <2>6
<1>7. Life'
  <2>1. Targets'
    <3>1. Aims(ready, pc[ready], job[ready], target[ready])'
      <4>1. CASE parent' = parent /\ l = "close" /\ j = "fail" /\ i = <<p, Null>>
        <5>1. i \in Clients \X (0..MaxGen)
          BY <1>2, <4>1, BoundsAssumption DEF Null
        <5> QED BY <1>2, <1>4, <1>b, <4>1, <5>1 DEF Aims, Closing, Destroying
      <4>2. CASE parent' = p /\ l = "close" /\ j = "replace" /\ i = <<parent, Null>> /\ parent # Nobody
        <5>1. i \in Clients \X (0..MaxGen) /\ parent \in Clients \ {p}
          BY <1>4, <1>5, <4>2, BoundsAssumption, Names DEF Null
        <5> QED BY <1>4, <1>5, <1>b, <4>2, <5>1 DEF Aims, Closing, Destroying
      <4>3. CASE l = "create" /\ j \in Linking
        BY <1>b, <4>3 DEF Aims, Closing, Destroying, Linking
      <4> QED BY <1>3, <4>1, <4>2, <4>3
    <3>2. ASSUME NEW u \in Threads \ {ready} PROVE Aims(u, pc[u], job[u], target[u])'
      <4>1. Aims(u, pc[u], job[u], target[u])
        BY Doing
      <4>2. pc[u] = "close" => job[u] \in Destroying
        BY Doing DEF Fits, Destroying, Closing
      <4>3. job[u] \in Destroying => target[u][1] # p /\ phase'[target[u][1]] = phase[target[u][1]] /\ gen'[target[u][1]] = gen[target[u][1]]
        BY <1>4
      <4>4. parent' \in {parent, p}
        BY <1>3
      <4> QED BY <1>a, <4>1, <4>2, <4>3, <4>4 DEF Aims, Destroying, Closing
    <3> QED BY <3>1, <3>2 DEF Targets
  <2>2. Parenthood'
    <3>1. parent' # Nobody => phase'[parent'] = "open"
      BY <1>3, <1>4, <1>5, Names
    <3>2. job'[ready] \in {"replace"} \cup Linking => parent' # Nobody
      BY <1>2, <1>3, <1>b DEF Linking
    <3>3. pc'[main] = "idle"
      BY <1>1, <1>2, <1>a
    <3> QED BY <3>1, <3>2, <3>3 DEF Parenthood
  <2>3. OpenParents'
    <3>1. ASSUME NEW x \in Parents, phase'[x] = "open" PROVE Anchored(x)'
      <4>1. CASE x = p
        BY <1>3, <1>b, <4>1 DEF Anchored, Ending
      <4>2. CASE x # p
        <5>1. phase[x] = "open" /\ x \in Clients
          BY <1>4, <3>1, <4>2, Names
        <5> QED BY <1>0, <1>c, <5>1 DEF Settled, Life, OpenParents
      <4> QED BY <4>1, <4>2
    <3> QED BY <3>1 DEF OpenParents
  <2> QED BY <1>4, <2>1, <2>2, <2>3 DEF Life
<1>8. Exporter' /\ TypeTracing'
  <2>1. running # Nobody => running = parent
    BY <1>5 DEF IInv, Exporter
  <2>2. running # Nobody => running = parent' \/ (j = "replace" /\ i[1] = running)
    BY <1>3, <2>1
  <2>3. \A u \in Threads : Exports(pc[u], job[u], target[u])'
    <3>1. Exports(pc[ready], job[ready], target[ready])'
      BY <1>b, <1>n DEF Exports
    <3>2. \A u \in Threads \ {ready} : Exports(pc[u], job[u], target[u])'
      BY <1>1, <1>a DEF IInv, Exporter, Exports
    <3> QED BY <3>1, <3>2
  <2>4. Exporter'
    BY <1>1, <1>4, <1>b, <2>2, <2>3 DEF IInv, Exporter
  <2> QED BY <1>1, <2>4 DEF IInv, TypeTracing
<1>9. Records'
  <2>1. \A k \in logs : Current(k)' <=> Current(k)
    <3>1. ASSUME NEW k \in logs PROVE Current(k)' <=> Current(k)
      BY <1>4, <1>c DEF Current
    <3> QED BY <3>1
  <2>2. ASSUME NEW u \in Threads, NEW k PROVE Takes(u, k) => Takes(u, k)'
    BY <1>5, <1>a DEF Takes, Destroying, Closing
  <2>3. LogsKnown'
    <3>1. \A k \in logs : phase'[k[1]] = phase[k[1]]
      BY <1>4
    <3> QED BY <1>0, <1>1, <1>4, <2>1, <2>2, <3>1 DEF Records, LogsKnown
  <2>4. OneSink'
    <3>1. \A u \in Threads : pc[u] = "console" => pc'[u] = "console"
      BY <1>1, <1>a
    <3> QED BY <1>0, <1>1, <3>1 DEF Records, OneSink
  <2>5. Connecting'
    <3>1. \A k \in logs' : Current(k)' => k \in sinks'
      BY <1>0, <1>1, <2>1 DEF Records, Connecting
    <3>2. job'[ready] = "replace" => \A k \in logs' : k[1] # parent'
      BY <1>1, <1>3, <1>4, <1>b
    \* Without a parent there is no log_sink: a client that failed has none.
    <3>3. pc'[ready] = "create" => logs' = {}
      <4> SUFFICES ASSUME l = "create", NEW k \in logs PROVE FALSE
        BY <1>1, <1>b
      <4>1. parent = Nobody /\ k[1] \in Parents
        BY <1>0, <1>3 DEF Records, LogsKnown
      <4>2. ~Anchored(k[1])
        BY <1>1, <4>1, Names DEF Anchored, Ending
      <4>3. PICK u \in Threads : Takes(u, k)
        BY <1>0, <4>2 DEF Records, LogsKnown, Current
      <4>4. /\ target[u] = k /\ job[u] \in Destroying /\ pc[u] # "close"
            /\ Fits(u, pc[u], job[u]) /\ Aims(u, pc[u], job[u], target[u])
        BY <4>3, Doing DEF Takes
      <4>5. u \notin {ready, main}
        BY <1>5, <4>4 DEF Destroying, Closing
      <4>6. CASE job[u] = "redial"
        <5>1. phase[k[1]] = "open"
          BY <4>4, <4>6 DEF Aims
        <5> QED BY <1>0, <4>1, <4>2, <5>1 DEF Settled, Life, OpenParents
      <4>7. CASE job[u] \in Closing
        BY <4>1, <4>4, <4>5, <4>7, Names DEF Fits, Aims, Closing
      <4> QED BY <4>4, <4>6, <4>7 DEF Destroying
    <3>4. pc'[ready] \notin {"silence", "add"}
      BY <1>b, <1>n
    <3> QED BY <3>1, <3>2, <3>3, <3>4 DEF Connecting
  <2>6. Leavers'
    <3>1. Leaves(pc[ready], job[ready], target[ready])'
      BY <1>3, <1>b DEF Leaves, Linking, Destroying, Closing
    <3>2. ASSUME NEW u \in Threads \ {ready} PROVE Leaves(pc[u], job[u], target[u])'
      BY <1>1, <1>a, Doing DEF Leaves
    <3> QED BY <3>1, <3>2 DEF Leavers
  <2> QED BY <1>0, <1>1, <2>3, <2>4, <2>5, <2>6 DEF Records, TypeLogs
<1> QED BY <1>4, <1>6, <1>7, <1>8, <1>9 DEF IInv, Settled

LEMMA ExitStep ==
  ASSUME IInv, Exit
  PROVE  IInv'
<1>0. TypeThreads /\ Settled /\ Control /\ Records /\ TypeClients /\ main \in Threads /\ main # ready
  BY Names DEF IInv, Settled, Control
<1>1. /\ pc[main] = "idle" /\ pc[ready] = "idle" /\ Enter(main, "tracer", "exit", NoImpl)
      /\ UNCHANGED <<clients, logging, tracing, enabled, parent, traced>>
      /\ UNCHANGED <<provider, running, sending, stopping, global, spans>>
      /\ alive' = alive
  BY DEF Exit, tracing, clients
<1>2. Moves(main, "tracer", "exit", NoImpl)
  BY <1>0, <1>1, EnterMoves
<1>3. Control'
  <2>1. Fits(main, "tracer", "exit") /\ "tracer" \in Labels /\ "tracer" \notin InTracer
        /\ "exit" \in JobNames /\ NoImpl \in Goals
    BY DEF Fits, Labels, Closing, Destroying, InTracer, Linking, JobNames, Goals
  <2>2. {parent', traced'} \subseteq Parents \cup {Nobody}
    BY <1>0, <1>1 DEF TypeThreads
  <2> QED BY <1>0, <1>2, <2>1, <2>2, ControlKept
<1>4. Life' /\ TypeClients'
  <2>1. Aims(main, "tracer", "exit", NoImpl)
    BY DEF Aims, Closing, Destroying
  <2> QED BY <1>0, <1>1, <1>2, <2>1, LifeKept
<1>5. Exporter' /\ TypeTracing'
  <2>1. Exports("tracer", "exit", NoImpl) /\ (sending # NoImpl => sending \in alive')
    BY <1>1 DEF Exports, IInv, Exporter
  <2>2. Exporter'
    BY <1>0, <1>1, <1>2, <2>1, ExporterKept DEF IInv
  <2> QED BY <1>1, <2>2 DEF IInv, TypeTracing
<1>6. Records'
  <2>1. {"exit", job[main]} \cap Destroying = {}
    BY <1>0, <1>1, Doing DEF Fits, Destroying, Closing
  <2>2. {pc[main], "tracer"} \cap {"close", "reset", "sink", "console", "create", "silence", "add"} = {}
    BY <1>1
  <2> QED BY <1>0, <1>1, <1>2, <2>1, <2>2, RecordsKept
<1> QED BY <1>3, <1>4, <1>5, <1>6 DEF IInv, Settled

LEMMA ReleaseParentStep ==
  ASSUME IInv, ReleaseParent
  PROVE  IInv'
<1>0. TypeThreads /\ Settled /\ Control /\ Records /\ TypeClients /\ main \in Threads /\ ready \in Threads /\ main # ready
  BY Names DEF IInv, Settled, Control
<1> DEFINE l == pc'[main]
           j == job'[main]
           i == target'[main]
<1>1. /\ pc[main] = "release" /\ parent' = Nobody
      /\ UNCHANGED <<phase, gen, alive, provider, running, sending, stopping, global, spans, sinks, logs, console, enabled, traced>>
  BY DEF ReleaseParent, tracing, logging, clients
<1>2. \/ parent = Nobody /\ l = "ended" /\ j = "none" /\ i = NoImpl /\ Moves(main, l, j, i)
      \/ parent # Nobody /\ l = "close" /\ j = "release" /\ i = <<parent, Null>> /\ Moves(main, l, j, i)
  <2>1. CASE parent = Nobody
    <3>1. Moves(main, "ended", "none", NoImpl)
      BY <1>0, <2>1, EnterMoves DEF ReleaseParent
    <3> QED BY <1>0, <2>1, <3>1, MovesStep
  <2>2. CASE parent # Nobody
    <3>1. Moves(main, "close", "release", <<parent, Null>>)
      BY <1>0, <2>2, EnterMoves DEF ReleaseParent
    <3> QED BY <1>0, <2>2, <3>1, MovesStep
  <2> QED BY <2>1, <2>2
<1>a. \A u \in Threads \ {main} : pc'[u] = pc[u] /\ job'[u] = job[u] /\ target'[u] = target[u]
  BY <1>0, <1>2, MovesStep
<1>3. /\ pc[ready] = "idle" /\ job[ready] = "none" /\ job[main] = "exit" /\ running = Nobody
      /\ parent # Nobody => parent \in Parents /\ parent \in Clients /\ phase[parent] = "open"
  <2>1. pc[ready] = "idle"
    BY <1>0, <1>1, Turns
  <2>2. job[ready] = "none" /\ job[main] = "exit" /\ running = Nobody
    BY <1>0, <1>1, <2>1, Doing DEF Fits, Exports
  <2> QED BY <1>0, <2>1, <2>2, Names DEF TypeThreads, Settled, Life, Parenthood
<1>b. pc'[main] = l /\ job'[main] = j /\ target'[main] = i
  OBVIOUS
<1>n. l \in {"ended", "close"} /\ j \in {"none", "release"} /\ i \in Goals
  BY <1>2, <1>3, BoundsAssumption DEF Goals, Null
<1> HIDE DEF l, j, i
<1>4. Control'
  <2>1. Fits(main, l, j) /\ l \in Labels /\ l \notin InTracer /\ j \in JobNames
    BY <1>2 DEF Fits, Labels, Closing, Destroying, InTracer, Linking, JobNames
  <2>2. {parent', traced'} \subseteq Parents \cup {Nobody}
    BY <1>0, <1>1 DEF TypeThreads
  <2>3. Moves(main, l, j, i)
    BY <1>2
  <2> QED BY <1>0, <1>n, <2>1, <2>2, <2>3, ControlKept
<1>c. \A x \in Clients : Anchored(x)' <=> Anchored(x)
  <2>1. \A x : ~Ending(ready, x) /\ ~Ending(main, x) /\ ~Ending(ready, x)'
    BY <1>0, <1>1, <1>3, <1>a DEF Ending
  <2>2. \A x \in Clients : Ending(main, x)' <=> x = parent
    BY <1>2, <1>b, Names DEF Ending
  <2> QED BY <1>1, <2>1, <2>2, Names DEF Anchored
<1>5. TypeClients' /\ Life'
  <2>1. Targets'
    <3>1. Aims(main, pc[main], job[main], target[main])'
      <4>1. CASE parent # Nobody
        <5>1. i \in Clients \X (0..MaxGen)
          BY <1>2, <1>3, <4>1, BoundsAssumption DEF Null
        <5> QED BY <1>1, <1>2, <1>3, <1>b, <4>1, <5>1 DEF Aims, Closing, Destroying
      <4>2. CASE parent = Nobody
        BY <1>2, <1>b, <4>2 DEF Aims, Closing, Destroying
      <4> QED BY <4>1, <4>2
    <3>2. ASSUME NEW u \in Threads \ {main} PROVE Aims(u, pc[u], job[u], target[u])'
      <4>1. Aims(u, pc[u], job[u], target[u])
        BY Doing
      <4>2. job[u] \in Closing => target[u][1] # Nobody
        BY <4>1, Names DEF Aims, Destroying
      <4> QED BY <1>1, <1>a, <4>1, <4>2 DEF Aims
    <3> QED BY <3>1, <3>2 DEF Targets
  <2>2. Parenthood'
    BY <1>0, <1>1, <1>3, <1>a DEF Parenthood, Linking
  <2>3. Lives' /\ TypeClients'
    BY <1>0, <1>1 DEF Settled, Life, Lives, TypeClients
  <2>4. OpenParents'
    BY <1>0, <1>1, <1>c, Names DEF Settled, Life, OpenParents
  <2> QED BY <2>1, <2>2, <2>3, <2>4 DEF Life
<1>6. Exporter' /\ TypeTracing'
  <2>1. \A u \in Threads : Exports(pc[u], job[u], target[u])'
    <3>1. Exports(pc[main], job[main], target[main])'
      BY <1>b, <1>n DEF Exports
    <3>2. \A u \in Threads \ {main} : Exports(pc[u], job[u], target[u])'
      BY <1>1, <1>a DEF IInv, Exporter, Exports
    <3> QED BY <3>1, <3>2
  <2>2. Exporter'
    BY <1>1, <1>3, <2>1 DEF IInv, Exporter
  <2> QED BY <1>1, <2>2 DEF IInv, TypeTracing
<1>7. Records'
  <2>1. \A k \in logs : k[1] \in Clients /\ (Current(k)' <=> Current(k))
    <3>1. ASSUME NEW k \in logs PROVE k[1] \in Clients /\ (Current(k)' <=> Current(k))
      <4>1. k[1] \in Clients
        BY <1>0, Names DEF Records, LogsKnown
      <4> QED BY <1>1, <1>c, <4>1 DEF Current
    <3> QED BY <3>1
  <2>2. ASSUME NEW u \in Threads, NEW k PROVE Takes(u, k) => Takes(u, k)'
    BY <1>3, <1>a DEF Takes, Destroying, Closing
  <2>3. LogsKnown'
    BY <1>0, <1>1, <2>1, <2>2 DEF Records, LogsKnown
  <2>4. OneSink'
    <3>1. \A u \in Threads : pc[u] = "console" => pc'[u] = "console"
      BY <1>1, <1>a
    <3> QED BY <1>0, <1>1, <1>3, <3>1 DEF Records, OneSink
  <2>5. Connecting'
    <3>1. pc'[ready] = "idle" /\ job'[ready] = "none"
      BY <1>0, <1>3, <1>a
    <3> QED BY <1>0, <1>1, <1>3, <2>1, <3>1 DEF Records, Connecting
  <2>6. Leavers'
    <3>1. Leaves(pc[main], job[main], target[main])'
      BY <1>2, <1>b DEF Leaves, Destroying, Closing
    <3>2. ASSUME NEW u \in Threads \ {main} PROVE Leaves(pc[u], job[u], target[u])'
      BY <1>1, <1>a, Doing DEF Leaves
    <3> QED BY <3>1, <3>2 DEF Leavers
  <2> QED BY <1>0, <1>1, <2>3, <2>4, <2>5, <2>6 DEF Records, TypeLogs
<1> QED BY <1>4, <1>5, <1>6, <1>7 DEF IInv, Settled

-----------------------------------------------------------------------------
(***************************************************************************)
(* The steps of a connection.                                              *)
(***************************************************************************)

\* The parent, while it is being connected.
LEMMA Joined ==
  ASSUME IInv, job[ready] \in Linking
  PROVE  /\ pc[ready] # "idle" /\ pc[main] = "idle"
         /\ parent \in Parents /\ parent # Nobody /\ phase[parent] = "open"
         /\ <<parent, gen[parent]>> \in Impls /\ <<parent, gen[parent]>> \in alive
         /\ Current(<<parent, gen[parent]>>)
         /\ \A u \in Threads : job[u] \in Destroying /\ pc[u] # "close" => target[u] # <<parent, gen[parent]>>
<1>0. Settled /\ TypeThreads /\ TypeClients
  BY DEF IInv, Settled, Control
<1>1. pc[ready] # "idle"
  BY Names, Doing DEF Fits, Linking
<1>2. pc[main] = "idle"
  BY <1>0, <1>1, Turns, Names
<1>3. parent \in Parents /\ parent # Nobody /\ phase[parent] = "open" /\ parent \in Clients
  BY <1>0, Names DEF TypeThreads, Settled, Life, Parenthood
<1>4. gen[parent] \in 1..MaxGen /\ <<parent, gen[parent]>> \in alive
  BY <1>0, <1>3, BoundsAssumption DEF TypeClients, Settled, Life, Lives, Null
<1>5. Current(<<parent, gen[parent]>>)
  BY DEF Current, Anchored
<1>6. ASSUME NEW u \in Threads, job[u] \in Destroying, pc[u] # "close" PROVE target[u] # <<parent, gen[parent]>>
  <2>1. Aims(u, pc[u], job[u], target[u])
    BY Doing
  <2>2. CASE job[u] = "redial"
    <3>1. target[u][2] < gen[target[u][1]] /\ target[u][2] \in 0..MaxGen /\ gen[target[u][1]] \in 0..MaxGen
      BY <1>0, <2>1, <2>2 DEF Aims, Destroying, TypeClients
    <3> QED BY <3>1, BoundsAssumption
  <2>3. CASE job[u] \in Closing
    BY <2>1, <2>3 DEF Aims
  <2> QED BY <1>6, <2>2, <2>3 DEF Destroying
<1> QED BY <1>1, <1>2, <1>3, <1>4, <1>5, <1>6 DEF Impls

LEMMA SinkConnects ==
  ASSUME IInv, CreateSink \/ DisableConsole \/ AddSink
  PROVE  IInv'
<1> DEFINE n == <<parent, gen[parent]>>
           l == pc'[ready]
           j == job'[ready]
           i == target'[ready]
<1>0. TypeThreads /\ Settled /\ Control /\ Records /\ TypeClients /\ main \in Threads /\ ready \in Threads /\ main # ready
  BY Names DEF IInv, Settled, Control
<1>1. /\ phase' = phase /\ gen' = gen /\ alive' = alive /\ parent' = parent
      /\ UNCHANGED <<clients, tracing, enabled>>
      /\ UNCHANGED <<provider, running, sending, stopping, global, spans>>
      /\ pc[ready] \in {"create", "silence", "add"}
  BY DEF CreateSink, DisableConsole, AddSink, clients, tracing
<1>2. job[ready] \in Linking
  BY <1>0, <1>1, Doing DEF Fits
<1>3. /\ parent \in Parents /\ parent # Nobody /\ n \in Impls /\ n \in alive /\ phase[parent] = "open"
      /\ Current(n) /\ pc[main] = "idle"
      /\ \A u \in Threads : job[u] \in Destroying /\ pc[u] # "close" => target[u] # n
  BY <1>2, Joined
<1>4. \/ CreateSink /\ pc[ready] = "create" /\ l = "silence" /\ j = job[ready] /\ i = target[ready] /\ Moves(ready, l, j, i)
      \/ DisableConsole /\ pc[ready] = "silence" /\ l = "add" /\ j = job[ready] /\ i = target[ready] /\ Moves(ready, l, j, i)
      \/ /\ AddSink /\ pc[ready] = "add" /\ Moves(ready, l, j, i)
         /\ (j = "connect" /\ l = "tracer" /\ i = target[ready]) \/ (j = "none" /\ l = "idle" /\ i = NoImpl)
  <2>1. CASE CreateSink
    BY <1>0, <2>1, GotoMoves, MovesStep DEF CreateSink
  <2>2. CASE DisableConsole
    BY <1>0, <2>2, GotoMoves, MovesStep DEF DisableConsole
  <2>3. CASE AddSink
    <3>1. CASE job[ready] = "lazy"
      <4>1. Moves(ready, "idle", "none", NoImpl)
        BY <1>0, <2>3, <3>1, EnterMoves DEF AddSink
      <4> QED BY <1>0, <2>3, <4>1, MovesStep DEF AddSink
    <3>2. CASE job[ready] # "lazy"
      <4>1. Moves(ready, "tracer", job[ready], target[ready])
        BY <1>0, <2>3, <3>2, GotoMoves DEF AddSink
      <4> QED BY <1>0, <1>2, <2>3, <3>2, <4>1, MovesStep DEF AddSink, Linking
    <3> QED BY <3>1, <3>2
  <2> QED BY <2>1, <2>2, <2>3
<1>a. \A u \in Threads \ {ready} : pc'[u] = pc[u] /\ job'[u] = job[u] /\ target'[u] = target[u]
  BY <1>0, <1>4, MovesStep
<1>b. pc'[ready] = l /\ job'[ready] = j /\ target'[ready] = i /\ n' = n
  BY <1>1
<1>c. traced' \in Parents \cup {Nobody}
  BY <1>0, <1>3 DEF CreateSink, DisableConsole, AddSink, TypeThreads
<1> HIDE DEF n, l, j, i
<1>5. Fits(ready, l, j) /\ l \in Labels /\ l \notin InTracer /\ j \in JobNames /\ i \in Goals /\ Moves(ready, l, j, i)
      /\ j \in Linking \cup {"none"} /\ l \in {"silence", "add", "tracer", "idle"}
  <2>1. i \in Goals
    BY <1>0, <1>4, Doing DEF Goals
  <2>2. j \in Linking \cup {"none"} /\ l \in {"silence", "add", "tracer", "idle"} /\ Moves(ready, l, j, i)
    BY <1>2, <1>4 DEF Linking
  <2>3. Fits(ready, l, j)
    BY <1>2, <1>4 DEF Fits, Closing, Destroying, Linking
  <2> QED BY <2>1, <2>2, <2>3 DEF Labels, InTracer, JobNames, Linking
<1>6. Control'
  <2>1. {parent', traced'} \subseteq Parents \cup {Nobody}
    BY <1>1, <1>3, <1>c
  <2> QED BY <1>0, <1>5, <2>1, ControlKept
<1>7. Life' /\ TypeClients'
  <2>1. Aims(ready, l, j, i)
    BY <1>5 DEF Aims, Closing, Destroying, Linking
  <2>2. pc[ready] # "close"
    BY <1>1
  <2> QED BY <1>0, <1>1, <1>3, <1>5, <2>1, <2>2, LifeKept
<1>8. Exporter' /\ TypeTracing'
  <2>1. Exports(l, j, i) /\ (sending # NoImpl => sending \in alive')
    BY <1>1, <1>5 DEF Exports, IInv, Exporter
  <2>2. job[ready] # "replace"
    BY <1>2 DEF Linking
  <2>3. Exporter'
    BY <1>0, <1>1, <1>5, <2>1, <2>2, ExporterKept DEF IInv
  <2> QED BY <1>1, <2>3 DEF IInv, TypeTracing
<1>d. \A x : Anchored(x)' <=> Anchored(x)
  BY <1>0, <1>1, <1>5, <1>a, <1>b DEF Anchored, Ending
<1>e. \A k : Current(k)' <=> Current(k)
  BY <1>1, <1>d DEF Current
<1>f. ASSUME NEW u \in Threads, NEW k PROVE Takes(u, k) => Takes(u, k)'
  BY <1>2, <1>a DEF Takes, Destroying, Closing, Linking
<1>g. job'[ready] # "replace"
  BY <1>5, <1>b DEF Linking
<1>9. Records'
  <2>1. CASE CreateSink
    <3>1. /\ pc[ready] = "create" /\ l = "silence" /\ logs' = logs \cup {n}
          /\ sinks' = sinks /\ console' = console
      BY <1>4, <2>1 DEF CreateSink, n
    <3>2. logs = {} /\ sinks = {} /\ logs' = {n}
      BY <1>0, <3>1 DEF Records, Connecting, LogsKnown
    <3>3. \A u \in Threads : pc[u] # "console"
      BY <3>2, Doing DEF Leaves
    <3>4. TypeLogs' /\ LogsKnown'
      <4>1. n[1] = parent
        BY DEF n
      <4> QED BY <1>0, <1>1, <1>3, <1>e, <3>1, <3>2, <4>1 DEF Records, TypeLogs, LogsKnown
    <3>5. OneSink'
      BY <1>0, <3>1, <3>2, <3>3 DEF Records, OneSink
    <3>6. Connecting'
      <4>1. pc'[ready] = "silence" /\ <<parent, gen[parent]>>' = n
        BY <1>1, <1>b, <3>1 DEF n
      <4> QED BY <1>g, <3>1, <3>2, <4>1 DEF Connecting
    <3>7. Leavers'
      <4>1. Leaves(pc[ready], job[ready], target[ready])'
        BY <1>5, <1>b, <3>1 DEF Leaves, Linking, Destroying, Closing
      <4>2. ASSUME NEW u \in Threads \ {ready} PROVE Leaves(pc[u], job[u], target[u])'
        <5>1. pc[u] \in {"reset", "sink"} => target[u] # n
          <6>1. pc[u] \in {"reset", "sink"} => job[u] \in Destroying
            BY Doing DEF Fits, Destroying
          <6> QED BY <1>3, <6>1
        <5> QED BY <1>a, <3>1, <3>2, <3>3, <5>1 DEF Leaves
      <4> QED BY <4>1, <4>2 DEF Leavers
    <3> QED BY <3>4, <3>5, <3>6, <3>7 DEF Records
  <2>2. CASE DisableConsole
    <3>1. /\ pc[ready] = "silence" /\ l = "add" /\ logs' = logs
          /\ sinks' = sinks /\ console' = FALSE
      BY <1>4, <2>2 DEF DisableConsole
    <3>2. logs = {n} /\ sinks = {}
      BY <1>0, <3>1 DEF Records, Connecting, n
    <3>3. TypeLogs' /\ LogsKnown'
      BY <1>0, <1>1, <1>e, <1>f, <3>1 DEF Records, TypeLogs, LogsKnown
    <3>4. OneSink'
      BY <1>b, <3>1, <3>2 DEF OneSink
    <3>5. Connecting'
      <4>1. pc'[ready] = "add" /\ <<parent, gen[parent]>>' = n
        BY <1>1, <1>b, <3>1 DEF n
      <4> QED BY <1>g, <3>1, <3>2, <4>1 DEF Connecting
    <3>6. Leavers'
      <4>1. Leaves(pc[ready], job[ready], target[ready])'
        BY <1>5, <1>b, <3>1 DEF Leaves, Linking, Destroying, Closing
      <4>2. ASSUME NEW u \in Threads \ {ready} PROVE Leaves(pc[u], job[u], target[u])'
        BY <1>a, <3>1, Doing DEF Leaves
      <4> QED BY <4>1, <4>2 DEF Leavers
    <3> QED BY <3>3, <3>4, <3>5, <3>6 DEF Records
  <2>3. CASE AddSink
    <3>1. /\ pc[ready] = "add" /\ l \in {"tracer", "idle"} /\ logs' = logs
          /\ sinks' = sinks \cup {n} /\ console' = console
      <4>1. pc[ready] = "add" /\ logs' = logs /\ sinks' = sinks \cup {n} /\ console' = console
        BY <2>3 DEF AddSink, n
      <4> QED BY <1>4, <4>1
    <3>2. logs = {n} /\ sinks = {} /\ console = FALSE
      BY <1>0, <3>1 DEF Records, Connecting, n, TypeLogs
    <3>3. TypeLogs' /\ LogsKnown'
      BY <1>0, <1>1, <1>3, <1>e, <1>f, <3>1, <3>2 DEF Records, TypeLogs, LogsKnown
    <3>4. OneSink'
      BY <3>1, <3>2 DEF OneSink
    <3>5. Connecting'
      BY <1>g, <1>b, <3>1, <3>2 DEF Connecting
    <3>6. Leavers'
      <4>1. Leaves(pc[ready], job[ready], target[ready])'
        BY <1>5, <1>b, <3>1 DEF Leaves, Linking, Destroying, Closing
      <4>2. ASSUME NEW u \in Threads \ {ready} PROVE Leaves(pc[u], job[u], target[u])'
        <5>1. pc[u] # "console"
          <6>1. pc[u] = "console" => job[u] \in Destroying /\ target[u] \in logs
            BY Doing DEF Fits, Leaves
          <6> QED BY <1>3, <3>2, <6>1
        <5>2. job[u] \in Destroying /\ pc[u] # "close" => target[u] # n
          BY <1>3
        <5>3. pc[u] \in {"reset", "sink"} => job[u] \in Destroying
          BY Doing DEF Fits, Destroying
        <5> QED BY <1>a, <3>1, <3>2, <5>1, <5>2, <5>3 DEF Leaves
      <4> QED BY <4>1, <4>2 DEF Leavers
    <3> QED BY <3>3, <3>4, <3>5, <3>6 DEF Records
  <2> QED BY <2>1, <2>2, <2>3
<1> QED BY <1>6, <1>7, <1>8, <1>9 DEF IInv, Settled

LEMMA ProviderConnects ==
  ASSUME IInv, TracingDisabled \/ InstallProvider \/ PublishProvider
  PROVE  IInv'
<1> DEFINE l == pc'[ready]
           j == job'[ready]
           i == target'[ready]
<1>0. TypeThreads /\ Settled /\ Control /\ Records /\ ready \in Threads
  BY Names DEF IInv, Settled, Control
<1>1. /\ UNCHANGED <<clients, logging, enabled, parent, traced, spans, sending>> /\ alive' = alive
      /\ pc[ready] \in {"disabled", "install", "publish"}
  BY DEF TracingDisabled, InstallProvider, PublishProvider, clients, tracing
<1>2. job[ready] = "connect"
  BY <1>0, <1>1, Doing DEF Fits
<1>3. parent \in Parents /\ parent \in Clients /\ pc[main] = "idle"
  BY <1>2, Joined, Names DEF Linking
<1>4. \/ l = "publish" /\ j = job[ready] /\ i = target[ready] /\ Moves(ready, l, j, i)
      \/ l = "idle" /\ j = "none" /\ i = NoImpl /\ Moves(ready, l, j, i)
  <2>1. CASE Goto(ready, "publish") /\ Stay(ready)
    BY <1>0, <2>1, GotoMoves, MovesStep
  <2>2. CASE Enter(ready, "idle", "none", NoImpl)
    BY <1>0, <2>2, EnterMoves, MovesStep
  <2> QED BY <2>1, <2>2 DEF TracingDisabled, InstallProvider, PublishProvider
<1>a. \A u \in Threads \ {ready} : pc'[u] = pc[u] /\ job'[u] = job[u] /\ target'[u] = target[u]
  BY <1>0, <1>4, MovesStep
<1>b. pc'[ready] = l /\ job'[ready] = j /\ target'[ready] = i
  OBVIOUS
<1>d. pc[ready] = "disabled" => l = "idle"
  BY <1>0 DEF TracingDisabled, InstallProvider, PublishProvider, Enter, Goto, TypeThreads
<1> HIDE DEF l, j, i
<1>5. /\ Fits(ready, l, j) /\ l \in Labels /\ j \in JobNames /\ i \in Goals /\ Moves(ready, l, j, i)
      /\ j \in {"connect", "none"} /\ l \in {"publish", "idle"}
  <2>1. i \in Goals
    BY <1>0, <1>4, Doing DEF Goals
  <2>2. Fits(ready, l, j)
    BY <1>2, <1>4 DEF Fits, Closing, Destroying, Linking
  <2> QED BY <1>2, <1>4, <2>1, <2>2 DEF Labels, InTracer, JobNames
<1>6. Control'
  <2>1. {parent', traced'} \subseteq Parents \cup {Nobody}
    BY <1>0, <1>1 DEF TypeThreads
  <2>2. l \in InTracer => pc[ready] \in InTracer
    BY <1>1, <1>d DEF InTracer
  <2> QED BY <1>0, <1>5, <2>1, <2>2, ControlKept
<1>7. Life' /\ TypeClients'
  <2>1. Aims(ready, l, j, i)
    BY <1>5 DEF Aims, Closing, Destroying
  <2>2. pc[ready] # "close" /\ parent # Nobody /\ ready # main
    BY <1>1, <1>3, Names
  <2> QED BY <1>0, <1>1, <1>3, <1>5, <2>1, <2>2, LifeKept
<1>8. Records'
  <2>1. {pc[ready], l} \cap {"close", "reset", "sink", "console", "create", "silence", "add"} = {}
    BY <1>1, <1>5
  <2>2. {j, job[ready]} \cap Destroying = {}
    BY <1>2, <1>5 DEF Destroying, Closing
  <2> QED BY <1>0, <1>1, <1>5, <2>1, <2>2, RecordsKept
<1>9. Exporter' /\ TypeTracing'
  <2>1. Exports(l, j, i)
    BY <1>5 DEF Exports
  <2>2. CASE UNCHANGED <<provider, running, stopping>>
    <3>1. sending # NoImpl => sending \in alive'
      BY <1>1 DEF IInv, Exporter
    <3>2. Exporter'
      BY <1>0, <1>1, <1>2, <1>5, <2>1, <2>2, <3>1, ExporterKept DEF IInv
    <3>3. global' \in {global, provider}
      BY DEF TracingDisabled, InstallProvider, PublishProvider, tracing
    <3> QED BY <1>1, <2>2, <3>2, <3>3 DEF IInv, TypeTracing
  <2>3. CASE InstallProvider /\ provider' = parent /\ running' = parent /\ stopping' = FALSE
    <3>1. pc[ready] = "install" /\ global' = global
      BY <2>3 DEF InstallProvider
    <3>2. ASSUME NEW u \in Threads \ {ready} PROVE Exports(pc[u], job[u], target[u])'
      \* No other thread is in the Tracer, and none destroys the parent.
      <4>1. pc[u] \notin {"install", "noop", "drop"}
        BY <1>0, <3>1 DEF Control, Alone, InTracer
      <4>2. pc[u] # "release"
        <5>1. pc[u] = "release" => u = main
          BY Doing DEF Fits
        <5> QED BY <1>3, <5>1
      <4>3. job[u] \in Closing => target[u][1] # parent
        BY Doing DEF Aims
      <4> QED BY <1>1, <1>a, <2>3, <4>1, <4>2, <4>3, Doing DEF Exports
    <3>3. Exports(pc[ready], job[ready], target[ready])'
      BY <1>5, <1>b DEF Exports
    <3>4. provider = Nobody /\ running = Nobody /\ sending = NoImpl
      BY <1>0, <3>1, Doing DEF Exports, IInv, Exporter
    <3>5. Exporter'
      BY <1>1, <2>3, <3>2, <3>3, <3>4 DEF Exporter
    <3> QED BY <1>1, <1>3, <2>3, <3>1, <3>5 DEF IInv, TypeTracing
  <2> QED BY <2>2, <2>3 DEF TracingDisabled, InstallProvider, PublishProvider, tracing
<1> QED BY <1>6, <1>7, <1>8, <1>9 DEF IInv, Settled

-----------------------------------------------------------------------------
(***************************************************************************)
(* Spans.                                                                  *)
(***************************************************************************)

\* Nothing but spans and sending changes.
LEMMA RestKept ==
  ASSUME IInv,
         UNCHANGED <<clients, logging, provider, global, running, threads, enabled, parent, traced>>,
         stopping' = stopping
  PROVE  Settled' /\ Records'
<1>1. UNCHANGED <<phase, gen, alive, logs, sinks, console, pc, job, target, parent, traced>>
  BY DEF clients, logging, threads
<1>2. Control'
  BY <1>1 DEF IInv, Settled, Control, TypeThreads, Jobs, Fits, Alone
<1>3. TypeClients' /\ Life'
  BY <1>1 DEF IInv, Settled, TypeClients, Life, Targets, Aims, Parenthood, Lives, OpenParents, Anchored, Ending
<1>4. \A k : (Current(k)' <=> Current(k)) /\ \A u : Takes(u, k)' <=> Takes(u, k)
  BY <1>1 DEF Current, Anchored, Ending, Takes
<1>5. TypeLogs' /\ LogsKnown'
  BY <1>1, <1>4 DEF IInv, Records, TypeLogs, LogsKnown
<1>6. OneSink' /\ Leavers'
  BY <1>1 DEF IInv, Records, OneSink, Leavers, Leaves
<1>7. Connecting'
  BY <1>1, <1>4 DEF IInv, Records, Connecting
<1> QED BY <1>2, <1>3, <1>5, <1>6, <1>7 DEF Settled, Records

\* The impl that a batch is sent on is there, and nobody is freeing it.
LEMMA ExportFacts ==
  ASSUME IInv, running # Nobody, gen[running] # Null
  PROVE  /\ <<running, gen[running]>> \in alive /\ <<running, gen[running]>> \in Impls
         /\ \A u \in Threads : pc[u] = "free" => target[u] # <<running, gen[running]>>
<1>0. running \in Clients /\ TypeClients /\ Settled
  BY DEF IInv, TypeTracing, Settled
<1>1. <<running, gen[running]>> \in alive /\ gen[running] \in 0..MaxGen
  BY <1>0 DEF Settled, Life, Lives, TypeClients
<1>2. ASSUME NEW u \in Threads, pc[u] = "free" PROVE target[u] # <<running, gen[running]>>
  <2>1. job[u] \in Destroying /\ Aims(u, pc[u], job[u], target[u]) /\ Exports(pc[u], job[u], target[u])
    BY <1>2, Doing DEF Fits
  <2>2. CASE job[u] = "redial"
    <3>1. target[u][2] < gen[target[u][1]] /\ target[u][2] \in 0..MaxGen /\ gen[target[u][1]] \in 0..MaxGen
      BY <1>0, <2>1, <2>2 DEF Aims, Destroying, TypeClients
    <3> QED BY <3>1, BoundsAssumption
  <2>3. CASE job[u] \in Closing
    BY <1>2, <2>1, <2>3 DEF Exports
  <2> QED BY <2>1, <2>2, <2>3 DEF Destroying
<1> QED BY <1>0, <1>1, <1>2 DEF TypeClients

LEMMA SpanSteps ==
  ASSUME IInv, EndSpan \/ Export \/ Exported
  PROVE  IInv'
<1>1. /\ UNCHANGED <<clients, logging, provider, global, running, threads, enabled, parent, traced>>
      /\ stopping' = stopping
  BY DEF EndSpan, Export, Exported
<1>2. Settled' /\ Records'
  BY <1>1, RestKept
<1>3. UNCHANGED <<alive, pc, job, target>>
  BY <1>1 DEF clients, threads
<1>4. spans' \in 0..MaxSpans
  <2>1. spans \in 0..MaxSpans
    BY DEF IInv, TypeTracing
  <2> QED BY <2>1, BoundsAssumption DEF EndSpan, Export, Exported
<1>5. CASE sending' \in {sending, NoImpl}
  <2>1. Exporter'
    <3>1. \A u \in Threads : pc[u] = "free" => target[u] # NoImpl
      BY Doing, Names DEF Fits, Aims, NoImpl
    <3>2. \A u \in Threads : Exports(pc[u], job[u], target[u])'
      BY <1>1, <1>3, <1>5, <3>1 DEF IInv, Exporter, Exports
    <3> QED BY <1>1, <1>3, <1>5, <3>2 DEF IInv, Exporter
  <2>2. TypeTracing'
    BY <1>1, <1>4, <1>5 DEF IInv, TypeTracing
  <2> QED BY <1>2, <2>1, <2>2 DEF IInv
<1>6. CASE Export /\ gen[running] # Null /\ sending' = <<running, gen[running]>>
  <2>1. running # Nobody
    BY <1>6 DEF Export
  <2>2. /\ <<running, gen[running]>> \in alive /\ <<running, gen[running]>> \in Impls
        /\ \A u \in Threads : pc[u] = "free" => target[u] # <<running, gen[running]>>
    BY <1>6, <2>1, ExportFacts
  <2>3. Exporter'
    BY <1>1, <1>3, <1>6, <2>1, <2>2 DEF IInv, Exporter, Exports
  <2>4. TypeTracing'
    BY <1>1, <1>4, <1>6, <2>2 DEF IInv, TypeTracing
  <2> QED BY <1>2, <2>3, <2>4 DEF IInv
<1> QED BY <1>5, <1>6 DEF EndSpan, Export, Exported

LEMMA StutterIInv ==
  ASSUME IInv, UNCHANGED state
  PROVE  IInv'
<1>1. UNCHANGED <<clients, logging, tracing, threads, enabled, parent, traced>>
  BY DEF state
<1>2. UNCHANGED <<provider, global, running, stopping, spans, sending, alive, pc, job, target>>
  BY <1>1 DEF tracing, clients, threads
<1>3. Settled' /\ Records'
  BY <1>1, <1>2, RestKept
<1>4. Exporter' /\ TypeTracing'
  BY <1>1, <1>2 DEF IInv, Exporter, Exports, TypeTracing
<1> QED BY <1>3, <1>4 DEF IInv

-----------------------------------------------------------------------------
(***************************************************************************)
(* The theorems.                                                           *)
(***************************************************************************)
LEMMA NextIInv ==
  ASSUME IInv, Next
  PROVE  IInv'
<1>1. CASE \E t \in Threads : DestroyImpl(t)
  <2>1. PICK t \in Threads : DestroyImpl(t)
    BY <1>1
  <2>2. CASE MeetInTracer(t)
    BY <2>2, StutterIInv DEF MeetInTracer
  <2> QED BY <2>1, <2>2, ResetStep, SinkSteps, TracerSteps, FreeStep DEF DestroyImpl
<1>2. CASE \E t \in Threads : ClosesParent(t)
  <2>1. PICK t \in Threads : ClosesParent(t)
    BY <1>2
  <2>2. /\ pc[t] = "close" /\ Aims(t, pc[t], job[t], target[t])
        /\ job[t] \in {"fail", "replace", "release"} /\ job[t] \in Closing /\ t \in {ready, main}
    BY <2>1, Doing DEF ClosesParent, Fits, Closing
  <2>3. /\ target[t][1] \in Clients /\ phase[target[t][1]] = "open" /\ target[t][1] # parent
        /\ phase' = [phase EXCEPT ![target[t][1]] = "joined"]
        /\ Enter(t, "reset", job[t], <<target[t][1], gen[target[t][1]]>>)
        /\ UNCHANGED <<gen, alive, logging, tracing, enabled, parent, traced>>
    BY <2>1, <2>2, Names DEF ClosesParent, Aims
  <2> QED BY <2>2, <2>3, CloseStep
<1>3. CASE \E p \in Parents, lazily \in BOOLEAN : MakeParent(p, lazily)
  BY <1>3, MakeParentStep
<1>4. CASE \E o \in Others : OtherOpens(o)
  BY <1>4, OtherOpensStep
<1>5. CASE \E o \in Others : OtherCloses(o)
  <2>1. PICK o \in Others : OtherCloses(o)
    BY <1>5
  <2>2. o \in Threads /\ o \in Clients /\ o # parent /\ "close" \in Closing
    BY Names DEF Closing, IInv, Settled, Control, TypeThreads
  <2>3. /\ phase[o] = "open" /\ pc[o] = "idle"
        /\ phase' = [phase EXCEPT ![o] = "joined"]
        /\ Enter(o, "reset", "close", <<o, gen[o]>>)
        /\ UNCHANGED <<gen, alive, logging, tracing, enabled, parent, traced>>
    BY <2>1 DEF OtherCloses
  <2> QED BY <2>2, <2>3, CloseStep
<1>6. CASE \E o \in Others : Redial(o, o)
  <2>1. PICK o \in Others : Redial(o, o)
    BY <1>6
  <2>2. o \in Threads /\ o \in Clients
    BY Names
  <2> QED BY <2>1, <2>2, RedialStep
<1>7. CASE HandlersMeet
  BY <1>7, StutterIInv DEF HandlersMeet
<1>8. CASE Connect
  BY <1>8, SinkConnects, ProviderConnects DEF Connect
<1>9. CASE EndSpan \/ Export \/ Exported
  BY <1>9, SpanSteps
<1>10. CASE Exit \/ ReleaseParent
  BY <1>10, ExitStep, ReleaseParentStep
<1> QED BY <1>1, <1>2, <1>3, <1>4, <1>5, <1>6, <1>7, <1>8, <1>9, <1>10 DEF Next

LEMMA Invariance == Spec => []IInv
<1>1. IInv /\ [Next]_vars => IInv'
  BY NextIInv, StutterIInv DEF vars
<1> QED BY <1>1, InitIInv, PTL DEF Spec

\* Every variable has its type: no client runs out of impls, no thread is at a
\* statement that is not there, nothing is connected but impls.
THEOREM TelemetryTypeOK == Spec => []TypeOK
<1>1. IInv => TypeOK
  BY Types DEF IInv, Settled, Control, Records
<1> QED BY <1>1, Invariance, PTL

-----------------------------------------------------------------------------
(***************************************************************************)
(* Races.                                                                  *)
(***************************************************************************)

\* A race in the Tracer takes a client of the program's own.
Blamed == fate = "raced" => \E o \in Others : phase[o] # "none"

\* Who is destroying an impl, and is not connecting a parent or ending the
\* module, is a client of the program's own that has been opened.
LEMMA AtWork ==
  ASSUME IInv, NEW t \in Threads, t \in Others, pc[t] \notin {"idle", "ended"}
  PROVE  phase[t] # "none"
<1>1. Fits(t, pc[t], job[t]) /\ Aims(t, pc[t], job[t], target[t]) /\ job[t] \in JobNames
  BY Doing
<1>2. job[t] \in {"close", "redial"}
  BY <1>1, Names DEF Fits, JobNames, Linking
<1> QED BY <1>1, <1>2 DEF Aims, Fits, Closing

LEMMA RacesTakeAClient ==
  ASSUME IInv, Blamed, [Next]_vars
  PROVE  Blamed'
<1>1. CASE UNCHANGED vars
  BY <1>1 DEF vars, state, clients, Blamed
<1>2. ASSUME NEW t \in Threads, MeetInTracer(t) PROVE Blamed'
  <2>1. /\ pc[t] = "tracer" /\ phase' = phase
        /\ \E u \in Threads \ {t} : pc[u] \in InTracer
    BY <1>2 DEF MeetInTracer, TracerIsFree, state, clients
  <2>2. PICK u \in Threads \ {t} : pc[u] \in InTracer
    BY <2>1
  <2>3. pc[t] \notin {"idle", "ended"} /\ pc[u] \notin {"idle", "ended"}
    BY <2>1, <2>2 DEF InTracer
  <2>4. t \in Others \/ u \in Others
    BY <2>2, <2>3, Turns, Names DEF IInv, Threads
  <2> QED BY <2>1, <2>2, <2>3, <2>4, AtWork DEF Blamed
<1>3. ASSUME Next, \A t \in Threads : ~MeetInTracer(t) PROVE fate' # "raced"
  BY <1>3 DEF Next, DestroyImpl, ResetImpl, RemoveSink, EnableConsole, CallShutdown, StopWorker, JoinWorker,
             SetNoop, DropProvider, Free, ClosesParent, MakeParent, OtherOpens, OtherCloses, HandlersMeet,
             Redial, Connect, CreateSink, DisableConsole, AddSink, TracingDisabled, InstallProvider,
             PublishProvider, EndSpan, Export, Exported, Exit, ReleaseParent
<1> QED BY <1>1, <1>2, <1>3 DEF Blamed

\* tracer.hpp's promise: until shutdown_provider returns, the client that the
\* worker exports through exists, and the stub it is sending on is not freed,
\* whichever thread destroys whichever client, unless two of them meet in the
\* Tracer or at parent_; in the Tracer they do not unless the program has made
\* a client of its own.
THEOREM ExporterKeepsItsClient == Spec => []ExporterClientAlive
<1>1. ASSUME IInv, Blamed PROVE ExporterClientAlive
  <2>1. sending # NoImpl => sending \in alive
    BY <1>1 DEF IInv, Exporter
  <2>2. ASSUME running # Nobody PROVE phase[running] # "gone"
    <3>1. CASE running = parent
      BY <1>1, <2>2, <3>1 DEF IInv, Settled, Life, Parenthood
    <3>2. CASE job[ready] = "replace" /\ target[ready][1] = running
      BY <1>1, <3>2, Names, Doing DEF Aims, Closing
    <3> QED BY <1>1, <2>2, <3>1, <3>2 DEF IInv, Exporter
  <2> QED BY <1>1, <2>1, <2>2 DEF ExporterClientAlive, Blamed
<1>2. Init => Blamed
  BY DEF Init, Blamed
<1>3. IInv /\ Blamed /\ [Next]_vars => Blamed'
  BY RacesTakeAClient
<1>4. IInv /\ Blamed => ExporterClientAlive
  BY <1>1
<1> QED BY <1>2, <1>3, <1>4, Invariance, PTL DEF Spec

\* client.hpp's promise: no record goes to the console and to the machine, or to
\* the machine twice, at any point of a connection, a re-dial or a destruction,
\* and records go somewhere when none of these is under way, unless a
\* ReconfigureResource is at parent_ while another handler connects one.
THEOREM OneDestination == Spec => []RecordsGoToOnePlace
<1>1. ASSUME IInv PROVE RecordsGoToOnePlace
  <2>0. LogsKnown /\ OneSink
    BY <1>1 DEF IInv, Records
  <2>1. ~(console /\ sinks # {}) /\ sinks \subseteq alive
    BY <2>0 DEF LogsKnown, OneSink
  <2>2. Cardinality(sinks) <= 1
    <3>1. CASE sinks = {}
      BY <3>1, FS_EmptySet
    <3>2. CASE sinks # {}
      <4>1. PICK i \in sinks : TRUE
        BY <3>2
      <4>2. sinks = {i}
        BY <2>0, <4>1 DEF OneSink
      <4>3. Cardinality({i}) = 1
        BY FS_Singleton
      <4>4. Cardinality(sinks) = 1
        BY <4>2, <4>3, Zenon
      <4> QED BY <4>4
    <3> QED BY <3>1, <3>2
  <2>3. (\A t \in Threads : pc[t] \in {"idle", "ended"}) => console \/ sinks # {}
    <3>1. console \in BOOLEAN
      BY <1>1 DEF IInv, Records, TypeLogs
    <3> QED BY <2>0, <3>1, Names DEF OneSink
  <2> QED BY <2>1, <2>2, <2>3 DEF RecordsGoToOnePlace
<1> QED BY <1>1, Invariance, PTL

\* ~ModuleService shuts the provider down before it lets the parent go: no batch
\* is dropped for want of a connection while the module ends, unless another
\* client is destroyed in the Tracer at the same time.
THEOREM ExitFlushes == Spec => SpansSurviveExit
<1>1. ASSUME IInv, [Next]_vars
      PROVE  [fate' = "running" /\ pc[main] # "idle" /\ spans > spans' => sending' # NoImpl]_vars
  <2> SUFFICES ASSUME Next, pc[main] # "idle", spans > spans' PROVE sending' # NoImpl
    BY <1>1
  <2>1. Export
    <3>1. spans \in 0..MaxSpans
      BY <1>1 DEF IInv, TypeTracing
    <3>2. ~(spans' = spans)
      BY <3>1, BoundsAssumption
    <3>3. ~EndSpan
      BY <3>1, BoundsAssumption DEF EndSpan
    <3>4. Export \/ spans' = spans \/ EndSpan
      BY DEF Next, DestroyImpl, ResetImpl, RemoveSink, EnableConsole, CallShutdown, StopWorker, JoinWorker,
             SetNoop, DropProvider, Free, ClosesParent, MakeParent, OtherOpens, OtherCloses, HandlersMeet,
             Redial, Connect, CreateSink, DisableConsole, AddSink, TracingDisabled, InstallProvider,
             PublishProvider, MeetInTracer, Exported, Exit, ReleaseParent, tracing, state
    <3> QED BY <3>2, <3>3, <3>4
  <2>2. running # Nobody /\ running \in Clients
    BY <1>1, <2>1 DEF Export, IInv, TypeTracing
  <2>3. pc[ready] = "idle" /\ job[ready] = "none"
    BY <1>1, Names, Doing DEF IInv, Settled, Life, Parenthood, Fits
  <2>4. running = parent
    BY <1>1, <2>2, <2>3 DEF IInv, Exporter
  <2>5. gen[running] # Null
    BY <1>1, <2>2, <2>4 DEF IInv, Settled, Life, Parenthood, Lives
  <2>6. <<running, gen[running]>> # NoImpl
    BY <2>2 DEF NoImpl
  <2> QED BY <2>1, <2>5, <2>6 DEF Export
<1>2. IInv /\ [Next]_vars => [fate' = "running" /\ pc[main] # "idle" /\ spans > spans' => sending' # NoImpl]_vars
  BY <1>1
<1> QED BY <1>2, Invariance, PTL DEF Spec, SpansSurviveExit
=============================================================================
