------------------------------ MODULE Streams ------------------------------
(***************************************************************************)
(* A streaming call from end to end: ClientHelper::invoke_stream in the    *)
(* program, the transport (with a viam-server between the two ends that    *)
(* may cancel a call of its own accord), and on a thread of the module's   *)
(* gRPC server a ServiceHelper, its GrpcContextObserver and its            *)
(* ServerSpanGuard around the resource's stream_ticks or get_audio, which  *)
(* calls the lambda of the resource server for every tick or chunk.        *)
(*                                                                         *)
(* The callables of the two streams return nothing.  The branch of         *)
(* ServiceHelper for one that returns a grpc::Status, as some unary        *)
(* methods do, is not modelled.                                            *)
(***************************************************************************)
EXTENDS Naturals

CONSTANTS
  Calls,    \* the calls that are made
  Workers,  \* the threads of the gRPC server
  Window    \* the messages that fit between the two ends

None == "none"

ASSUME CallsAssumption  == None \notin Calls /\ None \notin Workers
ASSUME WindowAssumption == Window \in Nat \ {0}

VARIABLES
  client,   \* of each call: "idle", "reading", "finishing", "returned" or "threw"
  stopped,  \* cancelled_by_handler
  server,   \* of each call: "idle", "queued", "running", "writing", "leaving" or "done"
  worker,   \* the thread it runs on
  status,   \* what the handler returned
  lost,     \* the status that the transport ended the call with
  queue,    \* the number of messages between the two ends
  gap,      \* whether a message that the resource produced was lost
  observer, \* current_context of each thread
  span      \* of each call: None, "open", "ok" or "error"

clientSide == <<client, stopped>>
serverSide == <<server, worker, status, observer, span>>
transport  == <<lost, queue, gap>>
vars == <<clientSide, serverSide, transport>>

Set(f, c, v) == [f EXCEPT ![c] = v]

-----------------------------------------------------------------------------
(***************************************************************************)
(* The program: invoke_stream.                                             *)
(***************************************************************************)
Invoke(c) ==
  /\ client[c] = "idle"
  /\ client' = Set(client, c, "reading")
  /\ server' = Set(server, c, "queued")
  /\ UNCHANGED <<stopped, worker, status, observer, span, transport>>

\* ctx.try_cancel(), or an exception of the handler that destroys the context.
Cancel(c) ==
  /\ lost' = IF lost[c] = None THEN Set(lost, c, "CANCELLED") ELSE lost
  /\ queue' = Set(queue, c, 0)

\* One turn of the loop: the handler goes on, is no longer interested, or throws.
Read(c) ==
  /\ client[c] = "reading" /\ queue[c] > 0
  /\ \/ queue' = Set(queue, c, queue[c] - 1) /\ UNCHANGED <<clientSide, lost>>
     \/ stopped' = Set(stopped, c, TRUE) /\ client' = Set(client, c, "finishing") /\ Cancel(c)
     \/ client' = Set(client, c, "threw") /\ Cancel(c) /\ UNCHANGED stopped
  /\ UNCHANGED <<serverSide, gap>>

\* Read returns false: nothing is left, and the call has a status.
ReadEnds(c) ==
  /\ client[c] = "reading" /\ queue[c] = 0
  /\ status[c] # None \/ lost[c] # None
  /\ client' = Set(client, c, "finishing")
  /\ UNCHANGED <<stopped, serverSide, transport>>

\* Finish(): a call that the transport ended has its status, one that the handler
\* cancelled may have got that of the server before.
Results(c) == (IF stopped[c] \/ lost[c] = None THEN {lost[c], status[c]} ELSE {lost[c]}) \ {None}

\* Mutant: whoever cancelled the call, it is taken for the handler's wish.
IsWanted_cancelled_by_anyone(c, result) == result \in {"OK", "CANCELLED"}

IsWanted(c, result) == result = "OK" \/ (stopped[c] /\ result = "CANCELLED")

\* The result ends invoke_stream, or default_ehc_ throws it.
Finish(c) ==
  /\ client[c] = "finishing"
  /\ \E result \in Results(c) :
       client' = Set(client, c, IF IsWanted(c, result) THEN "returned" ELSE "threw")
  /\ UNCHANGED <<stopped, serverSide, transport>>

-----------------------------------------------------------------------------
(***************************************************************************)
(* The module: ServiceHelper::operator().                                  *)
(***************************************************************************)
IsFree(w) == \A c \in Calls : worker[c] # w

\* gRPC gives the call to a thread; a missing resource ends it before there is
\* an observer or a span, and so does the observer of another call.
Enter(c, w) ==
  /\ server[c] = "queued" /\ IsFree(w)
  /\ \/ /\ observer[w] = None
        /\ server' = Set(server, c, "running")
        /\ worker' = Set(worker, c, w)
        /\ observer' = Set(observer, w, c)
        /\ span' = Set(span, c, "open")
        /\ UNCHANGED status
     \/ /\ server' = Set(server, c, "done")
        /\ status' = Set(status, c, IF observer[w] = None THEN "NOT_FOUND" ELSE "INTERNAL")
        /\ UNCHANGED <<worker, observer, span>>
  /\ UNCHANGED <<clientSide, transport>>

\* context->IsCancelled(): in this model the server knows of a cancellation at once.
IsCancelled(c) == lost[c] # None

\* Mutant: the lambda does not ask whether it is still wanted.
Tick_for_ever(c) ==
  /\ server[c] = "running"
  /\ server' = Set(server, c, "writing")
  /\ UNCHANGED <<clientSide, worker, status, observer, span, transport>>

\* The resource has a tick or a chunk, and the lambda looks at the context: to a
\* cancelled call it answers false, and the resource is to stop.
Tick(c) ==
  /\ server[c] = "running"
  /\ server' = Set(server, c, IF IsCancelled(c) THEN "leaving" ELSE "writing")
  /\ UNCHANGED <<clientSide, worker, status, observer, span, transport>>

\* Mutant: the lambda writes ahead of a reader that is slow.
Write_does_not_wait(c) ==
  /\ server[c] = "writing"
  /\ \/ IsCancelled(c) /\ gap' = Set(gap, c, TRUE) /\ UNCHANGED queue
     \/ ~IsCancelled(c) /\ queue' = Set(queue, c, queue[c] + 1) /\ UNCHANGED gap
  /\ server' = Set(server, c, "running")
  /\ UNCHANGED <<clientSide, worker, status, observer, span, lost>>

\* writer->Write blocks while the window is full; on a call that was cancelled
\* meanwhile it fails, which the lambda does not look at.
Write(c) ==
  /\ server[c] = "writing"
  /\ \/ IsCancelled(c) /\ gap' = Set(gap, c, TRUE) /\ UNCHANGED queue
     \/ ~IsCancelled(c) /\ queue[c] < Window /\ queue' = Set(queue, c, queue[c] + 1) /\ UNCHANGED gap
  /\ server' = Set(server, c, "running")
  /\ UNCHANGED <<clientSide, worker, status, observer, span, lost>>

\* The destructors of the span guard and of the observer, and the status.
Leave(c, result, end) ==
  /\ server[c] \in {"running", "leaving"}
  /\ server' = Set(server, c, "done")
  /\ worker' = Set(worker, c, None)
  /\ status' = Set(status, c, result)
  /\ span' = Set(span, c, end)
  /\ observer' = Set(observer, worker[c], None)
  /\ UNCHANGED <<clientSide, transport>>

\* The resource's function comes back, whether it was told to or not; the callable
\* is void, so the status is OK.
Return(c) == Leave(c, "OK", "ok")

\* Mutant: the observer is only disabled on the way out of a call that returns.
Throw_keeps_observer(c) ==
  /\ server[c] \in {"running", "leaving"}
  /\ server' = Set(server, c, "done")
  /\ worker' = Set(worker, c, None)
  /\ status' = Set(status, c, "INTERNAL")
  /\ span' = Set(span, c, "error")
  /\ UNCHANGED <<observer, clientSide, transport>>

\* Mutant: the status of the span is committed before the call is made.
Throw_after_commit(c) == Leave(c, "INTERNAL", "ok")

\* It throws; the exception is recorded on the span and thrown on.
Throw(c) == Leave(c, "INTERNAL", "error")

-----------------------------------------------------------------------------
\* The connection breaks, or the viam-server in the middle cancels the call (it
\* reconfigures, or its own client went away); what is under way is lost.
Disturb(c, why) ==
  /\ client[c] = "reading" /\ lost[c] = None
  /\ lost' = Set(lost, c, why)
  /\ gap' = IF queue[c] > 0 THEN Set(gap, c, TRUE) ELSE gap
  /\ queue' = Set(queue, c, 0)
  /\ UNCHANGED <<clientSide, serverSide>>

Init ==
  /\ client = [c \in Calls |-> "idle"]
  /\ stopped = [c \in Calls |-> FALSE]
  /\ server = [c \in Calls |-> "idle"]
  /\ worker = [c \in Calls |-> None]
  /\ status = [c \in Calls |-> None]
  /\ lost = [c \in Calls |-> None]
  /\ queue = [c \in Calls |-> 0]
  /\ gap = [c \in Calls |-> FALSE]
  /\ observer = [w \in Workers |-> None]
  /\ span = [c \in Calls |-> None]

\* What gRPC, a scheduled thread and a resource that still has something to
\* report are sure to do.  A resource need not end its stream by itself.
Proceed(c) ==
  \/ \E w \in Workers : Enter(c, w)
  \/ Tick(c) \/ Write(c)
  \/ server[c] = "leaving" /\ (Return(c) \/ Throw(c))

Next ==
  \E c \in Calls :
    \/ Invoke(c) \/ Read(c) \/ ReadEnds(c) \/ Finish(c)
    \/ Proceed(c)
    \/ Return(c) \/ Throw(c)
    \/ \E why \in {"CANCELLED", "UNAVAILABLE"} : Disturb(c, why)

Fairness == \A c \in Calls : WF_vars(Proceed(c))

Spec == Init /\ [][Next]_vars /\ Fairness

-----------------------------------------------------------------------------
(***************************************************************************)
(* Properties.                                                             *)
(***************************************************************************)
Statuses == {"OK", "NOT_FOUND", "INTERNAL"}

\* Every variable has its type.
TypeOK ==
  /\ client \in [Calls -> {"idle", "reading", "finishing", "returned", "threw"}]
  /\ stopped \in [Calls -> BOOLEAN]
  /\ server \in [Calls -> {"idle", "queued", "running", "writing", "leaving", "done"}]
  /\ worker \in [Calls -> Workers \cup {None}]
  /\ status \in [Calls -> Statuses \cup {None}]
  /\ lost \in [Calls -> {None, "CANCELLED", "UNAVAILABLE"}]
  /\ queue \in [Calls -> 0..Window]
  /\ gap \in [Calls -> BOOLEAN]
  /\ observer \in [Workers -> Calls \cup {None}]
  /\ span \in [Calls -> {None, "open", "ok", "error"}]

IsServed(c) == server[c] \in {"running", "writing", "leaving"}

\* grpc_context_observer.hpp: the observer is that of the request being processed
\* on this thread, cleaned up even in the presence of exceptions.  A thread has
\* the observer of exactly the call it serves, so that no call reads the
\* metadata of another and none is refused because of an earlier one.
ObserverIsOwn ==
  /\ \A w \in Workers, c \in Calls : observer[w] = c <=> (IsServed(c) /\ worker[c] = w)
  /\ \A c \in Calls : IsServed(c) <=> worker[c] # None

\* The span of a streaming call is open exactly while its handler runs, and tells
\* of a call that is over what its status tells, by whichever return or exception
\* it was left.
SpanTellsTheOutcome ==
  \A c \in Calls :
    /\ span[c] = "open" <=> IsServed(c)
    /\ span[c] = "ok" <=> status[c] = "OK"
    /\ span[c] = "error" => status[c] = "INTERNAL"

\* A stream that invoke_stream returns from without an exception was read to the
\* end that the resource gave it, with nothing missing, or ended by its handler:
\* a broken connection, a failing resource or a cancellation from elsewhere is
\* never taken for the end of the data.
NoSilentTruncation ==
  \A c \in Calls : client[c] = "returned" /\ ~stopped[c] =>
    status[c] = "OK" /\ ~gap[c] /\ queue[c] = 0

\* A call that nobody reads any more gives its thread back, as long as the
\* resource goes on having ticks: that is when the lambda asks.
AbandonedStreamsEnd ==
  \A c \in Calls : (IsServed(c) /\ IsCancelled(c)) ~> server[c] = "done"

\* The safety half of it, whoever is scheduled: a cancelled call stays cancelled,
\* gets nothing more into its window, and its thread only comes nearer to the end
\* of the call.  At most one message that was being written is still in the way.
StepsLeft(c) ==
  [idle |-> 5, queued |-> 4, writing |-> 3, running |-> 2, leaving |-> 1, done |-> 0][server[c]]

AbandonedStreamsWindDown ==
  [][\A c \in Calls : IsCancelled(c) =>
       /\ IsCancelled(c)' /\ queue'[c] <= queue[c]
       /\ server'[c] # server[c] => StepsLeft(c)' < StepsLeft(c)]_vars
=============================================================================
