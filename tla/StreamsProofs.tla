--------------------------- MODULE StreamsProofs ---------------------------
(***************************************************************************)
(* The safety properties of Streams for any number of calls, of threads    *)
(* and of messages under way.                                              *)
(*                                                                         *)
(* NoSilentTruncation rests on what a call that is being finished has      *)
(* behind it (Finishing): nothing is left in the window, and either the    *)
(* handler is over or the transport ended the call, so that nothing can    *)
(* come after.  A message is only ever lost together with the call (Lost). *)
(***************************************************************************)
EXTENDS Streams, TLAPS

Idle == \A c \in Calls : client[c] = "idle" => server[c] = "idle"

Over == \A c \in Calls : status[c] # None <=> server[c] = "done"

Lost == \A c \in Calls : gap[c] => lost[c] # None

Finishing ==
  \A c \in Calls : client[c] = "finishing" /\ ~stopped[c] =>
    queue[c] = 0 /\ (status[c] # None \/ lost[c] # None)

Returned ==
  \A c \in Calls : client[c] = "returned" /\ ~stopped[c] =>
    status[c] = "OK" /\ lost[c] = None /\ queue[c] = 0

IInv ==
  /\ TypeOK /\ ObserverIsOwn /\ SpanTellsTheOutcome
  /\ Idle /\ Over /\ Lost /\ Finishing /\ Returned

-----------------------------------------------------------------------------
LEMMA InitIInv == Init => IInv
<1> SUFFICES ASSUME Init PROVE IInv
  OBVIOUS
<1>1. TypeOK
  BY WindowAssumption DEF Init, TypeOK, Statuses
<1>2. ObserverIsOwn /\ SpanTellsTheOutcome
  BY CallsAssumption DEF Init, ObserverIsOwn, SpanTellsTheOutcome, IsServed, None
<1>3. Idle /\ Over /\ Lost /\ Finishing /\ Returned
  BY DEF Init, Idle, Over, Lost, Finishing, Returned, None
<1> QED BY <1>1, <1>2, <1>3 DEF IInv

\* A step of the program or of the transport leaves the server's side alone.
LEMMA ServerSideKept ==
  ASSUME ObserverIsOwn, SpanTellsTheOutcome, Over, UNCHANGED serverSide
  PROVE  ObserverIsOwn' /\ SpanTellsTheOutcome' /\ Over'
  BY DEF serverSide, ObserverIsOwn, SpanTellsTheOutcome, Over, IsServed

-----------------------------------------------------------------------------
(***************************************************************************)
(* The program and the transport.                                          *)
(***************************************************************************)
LEMMA InvokeKeeps ==
  ASSUME IInv, NEW c \in Calls, Invoke(c)
  PROVE  IInv'
<1>1. TypeOK'
  BY DEF IInv, Invoke, Set, TypeOK, transport
<1>2. server[c] = "idle"
  BY DEF IInv, Idle, Invoke
<1>3. ObserverIsOwn'
  BY <1>2 DEF IInv, ObserverIsOwn, IsServed, Invoke, Set, TypeOK
<1>4. SpanTellsTheOutcome'
  BY <1>2 DEF IInv, SpanTellsTheOutcome, IsServed, Invoke, Set, TypeOK
<1>5. Idle' /\ Over'
  BY <1>2 DEF IInv, Idle, Over, Invoke, Set, TypeOK
<1>6. Lost' /\ Finishing' /\ Returned'
  BY DEF IInv, Lost, Finishing, Returned, Invoke, Set, TypeOK, transport
<1> QED BY <1>1, <1>3, <1>4, <1>5, <1>6 DEF IInv

LEMMA ReadKeeps ==
  ASSUME IInv, NEW c \in Calls, Read(c)
  PROVE  IInv'
<1>1. TypeOK'
  <2>1. queue[c] \in 0..Window /\ queue[c] - 1 \in 0..Window /\ 0 \in 0..Window
    BY WindowAssumption DEF IInv, TypeOK, Read
  <2>2. /\ client' \in [Calls -> {"idle", "reading", "finishing", "returned", "threw"}]
        /\ stopped' \in [Calls -> BOOLEAN]
    BY DEF IInv, Read, Set, TypeOK, clientSide
  <2>3. /\ lost' \in [Calls -> {None, "CANCELLED", "UNAVAILABLE"}]
        /\ queue' \in [Calls -> 0..Window]
    BY <2>1 DEF IInv, Read, Cancel, Set, TypeOK
  <2> QED BY <2>2, <2>3 DEF IInv, Read, TypeOK, serverSide
<1>2. ObserverIsOwn' /\ SpanTellsTheOutcome' /\ Over'
  BY ServerSideKept DEF IInv, Read
<1>3. Idle'
  BY DEF IInv, Idle, Read, Set, TypeOK, serverSide, clientSide
<1>4. Lost'
  BY DEF IInv, Lost, Read, Cancel, Set, TypeOK, None
<1>5. Finishing'
  BY DEF IInv, Finishing, Read, Cancel, Set, TypeOK, serverSide, clientSide, None
<1>6. Returned'
  BY DEF IInv, Returned, Read, Cancel, Set, TypeOK, serverSide, clientSide, None
<1> QED BY <1>1, <1>2, <1>3, <1>4, <1>5, <1>6 DEF IInv

LEMMA ReadEndsKeeps ==
  ASSUME IInv, NEW c \in Calls, ReadEnds(c)
  PROVE  IInv'
<1>1. TypeOK'
  BY DEF IInv, ReadEnds, Set, TypeOK, serverSide, transport
<1>2. ObserverIsOwn' /\ SpanTellsTheOutcome' /\ Over'
  BY ServerSideKept DEF IInv, ReadEnds
<1>3. Idle' /\ Lost' /\ Finishing' /\ Returned'
  BY DEF IInv, Idle, Lost, Finishing, Returned, ReadEnds, Set, TypeOK, serverSide, transport
<1> QED BY <1>1, <1>2, <1>3 DEF IInv

\* Only the status of a handler that returned lets a call return that its own
\* handler did not stop.
LEMMA FinishKeeps ==
  ASSUME IInv, NEW c \in Calls, Finish(c)
  PROVE  IInv'
<1>1. TypeOK'
  <2>1. PICK end \in {"returned", "threw"} : client' = Set(client, c, end)
    BY DEF Finish
  <2>2. client' \in [Calls -> {"idle", "reading", "finishing", "returned", "threw"}]
    BY <2>1 DEF IInv, Set, TypeOK
  <2>3. UNCHANGED <<stopped, server, worker, status, observer, span, lost, queue, gap>>
    BY DEF Finish, serverSide, transport
  <2> QED BY <2>2, <2>3 DEF IInv, TypeOK
<1>2. ObserverIsOwn' /\ SpanTellsTheOutcome' /\ Over'
  BY ServerSideKept DEF IInv, Finish
<1>3. client'[c] = "returned" /\ ~stopped[c] => status[c] = "OK" /\ lost[c] = None
  BY DEF IInv, Finish, IsWanted, Results, Set, TypeOK, Statuses, None
<1>4. Idle' /\ Lost' /\ Finishing' /\ Returned'
  BY <1>3 DEF IInv, Idle, Lost, Finishing, Returned, Finish, Set, TypeOK, serverSide, transport
<1> QED BY <1>1, <1>2, <1>4 DEF IInv

LEMMA DisturbKeeps ==
  ASSUME IInv, NEW c \in Calls, NEW why \in {"CANCELLED", "UNAVAILABLE"}, Disturb(c, why)
  PROVE  IInv'
<1>1. TypeOK'
  <2>1. lost' \in [Calls -> {None, "CANCELLED", "UNAVAILABLE"}]
    BY DEF IInv, Disturb, Set, TypeOK
  <2>2. queue' \in [Calls -> 0..Window] /\ gap' \in [Calls -> BOOLEAN]
    BY WindowAssumption DEF IInv, Disturb, Set, TypeOK
  <2> QED BY <2>1, <2>2 DEF IInv, Disturb, TypeOK, serverSide, clientSide
<1>2. ObserverIsOwn' /\ SpanTellsTheOutcome' /\ Over'
  BY ServerSideKept DEF IInv, Disturb
<1>3. Idle' /\ Lost' /\ Finishing' /\ Returned'
  BY DEF IInv, Idle, Lost, Finishing, Returned, Disturb, Set, TypeOK, serverSide, clientSide, None
<1> QED BY <1>1, <1>2, <1>3 DEF IInv

-----------------------------------------------------------------------------
(***************************************************************************)
(* The module.  A step of a handler that is not over disturbs no call that *)
(* is being finished: Over and Finishing leave only a call that the        *)
(* transport ended, into which nothing more is written.                    *)
(***************************************************************************)
LEMMA ProgramSideKept ==
  ASSUME IInv, NEW c \in Calls, server[c] # "done", UNCHANGED <<clientSide, transport>>,
         \A d \in Calls : d # c => status'[d] = status[d]
  PROVE  Lost' /\ Finishing' /\ Returned'
<1>1. status[c] = None
  BY DEF IInv, Over
<1>2. Returned'
  BY <1>1 DEF IInv, Returned, clientSide, transport, None
<1>3. Lost' /\ Finishing'
  BY <1>1 DEF IInv, Lost, Finishing, clientSide, transport
<1> QED BY <1>2, <1>3

LEMMA EnterKeeps ==
  ASSUME IInv, NEW c \in Calls, NEW w \in Workers, Enter(c, w)
  PROVE  IInv'
<1>1. TypeOK'
  <2>1. /\ server' \in [Calls -> {"idle", "queued", "running", "writing", "leaving", "done"}]
        /\ worker' \in [Calls -> Workers \cup {None}]
    BY DEF IInv, Enter, Set, TypeOK
  <2>2. status' \in [Calls -> Statuses \cup {None}]
    BY DEF IInv, Enter, Set, TypeOK, Statuses
  <2>3. /\ observer' \in [Workers -> Calls \cup {None}]
        /\ span' \in [Calls -> {None, "open", "ok", "error"}]
    BY DEF IInv, Enter, Set, TypeOK
  <2>4. UNCHANGED <<client, stopped, lost, queue, gap>>
    BY DEF Enter, clientSide, transport
  <2> QED BY <2>1, <2>2, <2>3, <2>4 DEF IInv, TypeOK
<1>2. ObserverIsOwn'
  BY CallsAssumption DEF IInv, ObserverIsOwn, IsServed, Enter, Set, TypeOK
<1>3. SpanTellsTheOutcome'
  BY DEF IInv, SpanTellsTheOutcome, Over, IsServed, Enter, Set, TypeOK, None
<1>4. Idle' /\ Over'
  BY DEF IInv, Idle, Over, Enter, Set, TypeOK, clientSide, None
<1>5. \A d \in Calls : d # c => status'[d] = status[d]
  BY DEF IInv, Enter, Set, TypeOK
<1>6. Lost' /\ Finishing' /\ Returned'
  BY <1>5, ProgramSideKept DEF Enter
<1> QED BY <1>1, <1>2, <1>3, <1>4, <1>6 DEF IInv

LEMMA TickKeeps ==
  ASSUME IInv, NEW c \in Calls, Tick(c)
  PROVE  IInv'
<1>1. TypeOK'
  BY DEF IInv, Tick, Set, TypeOK, clientSide, transport
<1>2. ObserverIsOwn' /\ SpanTellsTheOutcome'
  BY DEF IInv, ObserverIsOwn, SpanTellsTheOutcome, IsServed, Tick, Set, TypeOK
<1>3. Idle' /\ Over'
  BY DEF IInv, Idle, Over, Tick, Set, TypeOK, clientSide
<1>4. Lost' /\ Finishing' /\ Returned'
  BY ProgramSideKept DEF Tick
<1> QED BY <1>1, <1>2, <1>3, <1>4 DEF IInv

LEMMA WriteKeeps ==
  ASSUME IInv, NEW c \in Calls, Write(c)
  PROVE  IInv'
<1>1. TypeOK'
  <2>1. queue[c] \in 0..Window
    BY DEF IInv, TypeOK
  <2>2. ~IsCancelled(c) /\ queue[c] < Window => queue[c] + 1 \in 0..Window
    BY <2>1, WindowAssumption
  <2>3. queue' \in [Calls -> 0..Window] /\ gap' \in [Calls -> BOOLEAN]
    BY <2>2 DEF IInv, Write, Set, TypeOK
  <2>4. server' \in [Calls -> {"idle", "queued", "running", "writing", "leaving", "done"}]
    BY DEF IInv, Write, Set, TypeOK
  <2> QED BY <2>3, <2>4 DEF IInv, Write, TypeOK, clientSide
<1>2. ObserverIsOwn' /\ SpanTellsTheOutcome'
  BY DEF IInv, ObserverIsOwn, SpanTellsTheOutcome, IsServed, Write, Set, TypeOK
<1>3. Idle' /\ Over'
  BY DEF IInv, Idle, Over, Write, Set, TypeOK, clientSide
<1>4. status[c] = None
  BY DEF IInv, Over, Write
<1>5. Lost'
  BY DEF IInv, Lost, Write, IsCancelled, Set, TypeOK
<1>6. Finishing'
  BY <1>4 DEF IInv, Finishing, Write, IsCancelled, Set, TypeOK, clientSide
<1>7. Returned'
  BY <1>4 DEF IInv, Returned, Write, Set, TypeOK, clientSide, None
<1> QED BY <1>1, <1>2, <1>3, <1>5, <1>6, <1>7 DEF IInv

LEMMA LeaveKeeps ==
  ASSUME IInv, NEW c \in Calls, NEW result, NEW end, Leave(c, result, end),
         <<result, end>> \in {<<"OK", "ok">>, <<"INTERNAL", "error">>}
  PROVE  IInv'
<1>1. /\ (result = "OK" /\ end = "ok") \/ (result = "INTERNAL" /\ end = "error")
      /\ worker[c] \in Workers
  BY DEF IInv, ObserverIsOwn, IsServed, Leave, TypeOK
<1>2. TypeOK'
  BY <1>1 DEF IInv, Leave, Set, TypeOK, clientSide, transport, Statuses
<1>3. ObserverIsOwn'
  BY <1>1, CallsAssumption DEF IInv, ObserverIsOwn, IsServed, Leave, Set, TypeOK
<1>4. SpanTellsTheOutcome'
  BY <1>1 DEF IInv, SpanTellsTheOutcome, IsServed, Leave, Set, TypeOK
<1>5. Idle' /\ Over'
  BY <1>1 DEF IInv, Idle, Over, Leave, Set, TypeOK, clientSide, None
<1>6. \A d \in Calls : d # c => status'[d] = status[d]
  BY DEF IInv, Leave, Set, TypeOK
<1>7. Lost' /\ Finishing' /\ Returned'
  BY <1>6, ProgramSideKept DEF Leave
<1> QED BY <1>2, <1>3, <1>4, <1>5, <1>7 DEF IInv

-----------------------------------------------------------------------------
LEMMA NextKeeps ==
  ASSUME IInv, [Next]_vars
  PROVE  IInv'
<1>1. CASE UNCHANGED vars
  BY <1>1 DEF vars, clientSide, serverSide, transport, IInv, TypeOK, ObserverIsOwn,
              SpanTellsTheOutcome, IsServed, Idle, Over, Lost, Finishing, Returned
<1>2. CASE Next
  <2> PICK c \in Calls :
        \/ Invoke(c) \/ Read(c) \/ ReadEnds(c) \/ Finish(c)
        \/ Proceed(c)
        \/ Return(c) \/ Throw(c)
        \/ \E why \in {"CANCELLED", "UNAVAILABLE"} : Disturb(c, why)
    BY <1>2 DEF Next
  <2>1. CASE Return(c)
    BY <2>1, LeaveKeeps DEF Return
  <2>2. CASE Throw(c)
    BY <2>2, LeaveKeeps DEF Throw
  <2>3. CASE Proceed(c)
    BY <2>1, <2>2, <2>3, EnterKeeps, TickKeeps, WriteKeeps DEF Proceed
  <2>4. CASE Invoke(c) \/ Read(c) \/ ReadEnds(c) \/ Finish(c)
    BY <2>4, InvokeKeeps, ReadKeeps, ReadEndsKeeps, FinishKeeps
  <2>5. CASE \E why \in {"CANCELLED", "UNAVAILABLE"} : Disturb(c, why)
    BY <2>5, DisturbKeeps
  <2> QED BY <2>1, <2>2, <2>3, <2>4, <2>5
<1> QED BY <1>1, <1>2

LEMMA SpecIInv == Spec => []IInv
  BY InitIInv, NextKeeps, PTL DEF Spec

-----------------------------------------------------------------------------
\* Every variable has its type.
THEOREM StreamTypeOK == Spec => []TypeOK
<1>1. IInv => TypeOK
  BY DEF IInv
<1> QED BY <1>1, SpecIInv, PTL

\* A thread of the gRPC server has the observer of exactly the call it serves,
\* and none when it is back in the pool (GrpcContextObserver::Enable).
THEOREM ObserversAreOwn == Spec => []ObserverIsOwn
<1>1. IInv => ObserverIsOwn
  BY DEF IInv
<1> QED BY <1>1, SpecIInv, PTL

\* The span of a call tells what its status tells (ServerSpanGuard).
THEOREM SpansTellTheOutcome == Spec => []SpanTellsTheOutcome
<1>1. IInv => SpanTellsTheOutcome
  BY DEF IInv
<1> QED BY <1>1, SpecIInv, PTL

\* invoke_stream never takes a broken connection, a failure or a cancellation
\* from elsewhere for the end of the data.
THEOREM StreamsAreNotTruncated == Spec => []NoSilentTruncation
<1>1. IInv => NoSilentTruncation
  BY DEF IInv, TypeOK, Lost, Returned, NoSilentTruncation
<1> QED BY <1>1, SpecIInv, PTL

-----------------------------------------------------------------------------
(***************************************************************************)
(* Calls that nobody reads any more.                                       *)
(***************************************************************************)
Winds(c) ==
  IsCancelled(c) =>
    /\ IsCancelled(c)' /\ queue'[c] <= queue[c]
    /\ server'[c] # server[c] => StepsLeft(c)' < StepsLeft(c)

\* A step that leaves call c alone, but for what its client does.
LEMMA OutOfTheWay ==
  ASSUME IInv, NEW c \in Calls, server'[c] = server[c],
         lost'[c] = lost[c], queue'[c] <= queue[c]
  PROVE  Winds(c)
  BY DEF Winds, IsCancelled

LEMMA OthersWait ==
  ASSUME IInv, NEW c \in Calls, server'[c] = server[c], UNCHANGED <<lost, queue>>
  PROVE  Winds(c)
<1>1. queue[c] <= queue[c]
  BY WindowAssumption DEF IInv, TypeOK
<1> QED BY <1>1, OutOfTheWay

LEMMA ClientsWind ==
  ASSUME IInv, NEW d \in Calls, NEW c \in Calls,
         \/ Invoke(d) \/ Read(d) \/ ReadEnds(d) \/ Finish(d)
         \/ \E why \in {"CANCELLED", "UNAVAILABLE"} : Disturb(d, why)
  PROVE  Winds(c)
<1>0. queue \in [Calls -> 0..Window] /\ lost \in [Calls -> {None, "CANCELLED", "UNAVAILABLE"}]
  BY DEF IInv, TypeOK
<1>1. CASE Invoke(d)
  <2>1. CASE c = d
    <3>1. server[c] = "idle" /\ server'[c] = "queued" /\ UNCHANGED <<lost, queue>>
      BY <1>1, <2>1 DEF Invoke, Set, transport, IInv, TypeOK, Idle
    <3>2. queue[c] <= queue[c]
      BY <1>0, WindowAssumption
    <3> QED BY <3>1, <3>2 DEF Winds, IsCancelled, StepsLeft
  <2>2. CASE c # d
    BY <1>1, <2>2, OthersWait DEF Invoke, Set, transport, IInv, TypeOK
  <2> QED BY <2>1, <2>2
<1>2. CASE ReadEnds(d) \/ Finish(d)
  BY <1>2, OthersWait DEF ReadEnds, Finish, serverSide, transport
<1>3. CASE Read(d) \/ \E why \in {"CANCELLED", "UNAVAILABLE"} : Disturb(d, why)
  <2>1. server' = server
    BY <1>3 DEF Read, Disturb, serverSide
  <2>2. lost'[c] = lost[c] \/ lost[c] = None
    BY <1>0, <1>3 DEF Read, Cancel, Disturb, Set
  <2>3. queue'[c] \in {queue[c], queue[c] - 1, 0}
    BY <1>0, <1>3 DEF Read, Cancel, Disturb, Set
  <2>4. queue'[c] <= queue[c]
    BY <1>0, <2>3, WindowAssumption
  <2> QED BY <2>1, <2>2, <2>4 DEF Winds, IsCancelled
<1> QED BY <1>1, <1>2, <1>3

LEMMA ThreadsWind ==
  ASSUME IInv, NEW d \in Calls, NEW c \in Calls, Proceed(d) \/ Return(d) \/ Throw(d)
  PROVE  Winds(c)
<1>1. /\ server'[c] = server[c] \/ c = d
      /\ lost' = lost /\ (queue'[c] = queue[c] \/ (c = d /\ ~IsCancelled(d)))
  BY DEF Proceed, Enter, Tick, Write, Return, Throw, Leave, Set, transport, IInv, TypeOK
<1>2. CASE c # d
  <2>1. queue'[c] = queue[c] /\ queue[c] <= queue[c]
    BY <1>1, <1>2, WindowAssumption DEF IInv, TypeOK
  <2> QED BY <1>1, <1>2, <2>1, OutOfTheWay
<1>3. CASE c = d
  <2> SUFFICES ASSUME IsCancelled(c) PROVE Winds(c)
    BY DEF Winds
  <2>1. lost' = lost /\ queue'[c] = queue[c]
    BY <1>3 DEF Proceed, Enter, Tick, Write, Return, Throw, Leave, transport
  <2>2. \/ server[c] = "queued" /\ server'[c] \in {"running", "done"}
        \/ server[c] = "running" /\ server'[c] \in {"leaving", "done"}
        \/ server[c] = "writing" /\ server'[c] = "running"
        \/ server[c] = "leaving" /\ server'[c] = "done"
    BY <1>3 DEF Proceed, Enter, Tick, Write, Return, Throw, Leave, Set, IInv, TypeOK
  <2>3. queue'[c] <= queue[c]
    BY <2>1, WindowAssumption DEF IInv, TypeOK
  <2> QED BY <2>1, <2>2, <2>3 DEF Winds, IsCancelled, StepsLeft
<1> QED BY <1>2, <1>3

\* Once a call is cancelled its thread goes straight to the end of the call, as
\* far as it goes on at all, and fills no window meanwhile.
THEOREM AbandonedStreamsOnlyWindDown == Spec => AbandonedStreamsWindDown
<1> DEFINE A == \A c \in Calls : Winds(c)
<1>1. ASSUME IInv, [Next]_vars PROVE A
  <2> SUFFICES ASSUME NEW c \in Calls PROVE Winds(c)
    OBVIOUS
  <2>1. CASE UNCHANGED vars
    BY <1>1, <2>1, OthersWait DEF vars, serverSide, transport
  <2>2. CASE Next
    BY <1>1, <2>2, ClientsWind, ThreadsWind DEF Next
  <2> QED BY <1>1, <2>1, <2>2
<1>2. IInv /\ [Next]_vars => [A]_vars
  BY <1>1
<1>3. A <=> \A c \in Calls : IsCancelled(c) =>
              /\ IsCancelled(c)' /\ queue'[c] <= queue[c]
              /\ server'[c] # server[c] => StepsLeft(c)' < StepsLeft(c)
  BY DEF Winds
<1> QED BY <1>2, <1>3, SpecIInv, PTL DEF Spec, AbandonedStreamsWindDown
=============================================================================
