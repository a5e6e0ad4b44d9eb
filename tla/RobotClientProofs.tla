------------------------- MODULE RobotClientProofs -------------------------
(***************************************************************************)
(* Proofs about RobotClient, for every set of answers the machine can give *)
(* and every setting of the intervals and the bounds.                      *)
(*                                                                         *)
(* TableMatchesNames is not inductive: while a thread is between writing   *)
(* resource_names_ and writing the table it has to be the holder of lock_, *)
(* and the names have to be those of the answer it works with (Writing).   *)
(* Nor is ClosedIsQuiet: that no thread is left rests on where close() is  *)
(* by the time it has joined them (Joined), on what the user thread can be *)
(* doing in which job (Jobs), and on no refresh being under way when impl_ *)
(* is reset (Quiet).                                                       *)
(*                                                                         *)
(* Which label each thread can be at (Places) then gives that nobody waits *)
(* in a circle and that the loops wind down; what a close() has behind it  *)
(* when it comes back (CloseEnded), that it leaves nothing.  The last part *)
(* maps every step to MachineView.                                         *)
(***************************************************************************)
EXTENDS RobotClient, TLAPS

Holding == {"write_names", "write_table"}

Refreshing == {"refreshing", "build", "wait_lock"} \cup Holding

Typed ==
  /\ pc \in [Threads -> Labels]
  /\ lock \in Threads \cup {NoThread}
  /\ machine \in Lists
  /\ got \in [Threads -> Lists \cup {{}}]
  /\ job \in {"ctor", "op", "close", "dtor"}

Writing ==
  /\ \A t \in Threads : pc[t] \in Holding <=> lock = t
  /\ \A t \in Threads : pc[t] = "write_table" => names = NamesOf(got[t])

\* Where the user thread is once it has joined the refresher, the checker.
PastChecker == {"stop_all", "stopping", "close_threw", "close_channel", "destroy", "gone"}
PastRefresher == PastChecker \cup {"join_checker"}
Closing == PastRefresher \cup {"close", "join_refresher"}

Joined ==
  /\ pc["user"] \in PastRefresher => pc["refresher"] = "done"
  /\ pc["user"] \in PastChecker => pc["checker"] = "done"

Jobs ==
  /\ job \in {"close", "dtor"} => pc["user"] \in Closing \cup {"idle"}
  /\ job \in {"ctor", "op"} => pc["user"] \notin Closing

Quiet ==
  impl = "null" => /\ chan = "closed"
                   /\ pc["refresher"] = "done" /\ pc["checker"] = "done"
                   /\ pc["user"] \notin Refreshing

IInv == Typed /\ Writing /\ TableMatchesNames /\ Joined /\ Jobs /\ Quiet

-----------------------------------------------------------------------------
(* The answer can be read back from the names *)

\* The remote of a reported name and its last part make up the name again.
LEMMA SplitName ==
  ASSUME NEW s \in Seq(STRING) \ {<< >>}
  PROVE  SubSeq(s, 1, Len(s) - 1) \o <<s[Len(s)]>> = s
  OBVIOUS

\* In front of the last part there is no empty remote.
LEMMA PrefixIsRemote ==
  ASSUME NEW s \in Seq(STRING) \ {<< >>}, NEW empty, Len(s) > 1 => s[1] # empty
  PROVE  SubSeq(s, 1, Len(s) - 1) # <<empty>>
<1> SUFFICES ASSUME SubSeq(s, 1, Len(s) - 1) = <<empty>> PROVE FALSE
  OBVIOUS
<1>1. s = <<empty>> \o <<s[Len(s)]>>
  BY SplitName, Zenon
<1>2. Len(<<empty>> \o <<s[Len(s)]>>) = 2 /\ (<<empty>> \o <<s[Len(s)]>>)[1] = empty
  OBVIOUS
<1>3. Len(s) = 2 /\ s[1] = empty
  BY <1>1, <1>2, Zenon
<1> QED BY <1>3

\* A reported name has a remote in front of its last part, or nothing.
LEMMA NameOfReported ==
  ASSUME NEW list \in Lists \cup {{}}, NEW p \in list
  PROVE  /\ p \in [api : STRING, name : Seq(STRING) \ {<< >>}]
         /\ from_proto(p).api = p.api
         /\ from_proto(p).name = <<p.name[Len(p.name)]>>
         /\ short_name(from_proto(p)) = p.name
<1> DEFINE s == p.name
           prefix == SubSeq(s, 1, Len(s) - 1)
<1>1. p \in [api : STRING, name : Seq(STRING) \ {<< >>}] /\ (Len(s) > 1 => s[1] # "")
  BY ListsAssumption
<1>2. s \in Seq(STRING) \ {<< >>}
  BY <1>1
<1>3. prefix # <<"">>
  BY <1>1, <1>2, PrefixIsRemote, Zenon
<1>4. prefix \o <<s[Len(s)]>> = s
  <2> HIDE DEF s
  <2> QED BY <1>2, SplitName
<1>5. from_proto(p) = [api |-> p.api, remote |-> prefix, name |-> <<s[Len(s)]>>]
  BY <1>3, Zenon DEF from_proto, get_shortcut_name
<1>6. /\ from_proto(p).api = p.api /\ from_proto(p).remote = prefix
      /\ from_proto(p).name = <<s[Len(s)]>>
  BY <1>5
<1>7. short_name(from_proto(p)) = s
  BY <1>4, <1>6, Zenon DEF short_name
<1> QED BY <1>1, <1>6, <1>7

\* resource_names_ determines the answer it was made of.
LEMMA NamesDetermineAnswer ==
  ASSUME NEW list \in Lists \cup {{}}
  PROVE  ReportedBy(NamesOf(list)) = list
<1>1. ASSUME NEW p \in list
      PROVE  [api |-> from_proto(p).api, name |-> short_name(from_proto(p))] = p
  BY NameOfReported
<1>2. QED
  BY <1>1 DEF ReportedBy, NamesOf

\* The empty table is what replace_all makes of no clients.
LEMMA EmptyMatches ==
  \E built \in Builds(ReportedBy({})) : EmptyTable \in replace_all(built)
<1> DEFINE new == Restrict(Clients(ReportedBy({})), {})
           made(added, f) ==
             [resources   |-> [k \in {short_name(n) : n \in added} |->
                                 new[CHOOSE n \in added : short_name(n) = k]],
              short_names |-> f]
           runs == {a \in SUBSET DOMAIN new :
                      Loadable(a) /\ (a = DOMAIN new \/ Stuck(a, DOMAIN new))}
<1>0. new \in Builds(ReportedBy({}))
  <2>1. DOMAIN Clients(ReportedBy({})) = {}
    BY DEF Clients, ReportedBy
  <2> QED BY <2>1 DEF Builds
<1>1. {} \in runs
  <2>1. DOMAIN new = {}
    BY DEF Restrict
  <2>2. Loadable({})
    BY DEF Loadable
  <2>3. QED
    BY <2>1, <2>2
<1>2. << >> \in FirstChoices({short_name(n) : n \in {}})
  BY DEF FirstChoices
<1>3. EmptyTable = made({}, << >>)
  BY DEF EmptyTable
<1>4. replace_all(new) =
        UNION {{made(added, f) : f \in FirstChoices({short_name(n) : n \in added})} :
               added \in runs}
  BY Zenon DEF replace_all
<1> HIDE DEF made, runs, new
<1>5. EmptyTable \in {made({}, f) : f \in FirstChoices({short_name(n) : n \in {}})}
  BY <1>2, <1>3
<1>6. EmptyTable \in replace_all(new)
  BY <1>1, <1>4, <1>5
<1>7. QED
  BY <1>0, <1>6

-----------------------------------------------------------------------------
(* Steps *)

\* A step moves one thread to a label and leaves the others where they are.
LEMMA GotoMoves ==
  ASSUME IInv, NEW t \in Threads, NEW l \in Labels, Goto(t, l)
  PROVE  /\ pc' \in [Threads -> Labels]
         /\ pc'[t] = l
         /\ \A u \in Threads \ {t} : pc'[u] = pc[u]
  BY DEF IInv, Typed, Goto

\* A step of thread t to l that neither takes, holds nor releases lock_.
Plain(t, l) ==
  /\ Goto(t, l) /\ l \in Labels \ Holding
  /\ pc[t] \notin Holding
  /\ UNCHANGED <<names, table, lock, machine>>
  /\ got' = got \/ \E g \in Lists \cup {{}} : got' = [got EXCEPT ![t] = g]
  /\ job' \in {"ctor", "op", "close", "dtor"}

\* Such a step keeps what concerns the table and the names.
LEMMA PlainKeeps ==
  ASSUME IInv, NEW t \in Threads, NEW l, Plain(t, l)
  PROVE  Typed' /\ Writing' /\ TableMatchesNames'
<1>1. /\ pc' \in [Threads -> Labels]
      /\ pc'[t] \notin Holding
      /\ \A u \in Threads \ {t} : pc'[u] = pc[u]
  BY GotoMoves DEF Plain
<1>2. /\ got' \in [Threads -> Lists \cup {{}}]
      /\ \A u \in Threads \ {t} : got'[u] = got[u]
  BY DEF IInv, Typed, Plain
<1>3. Typed'
  BY <1>1, <1>2 DEF IInv, Typed, Plain
<1>4. Writing'
  BY <1>1, <1>2 DEF IInv, Typed, Writing, Plain, Holding
<1>5. TableMatchesNames'
  BY DEF IInv, TableMatchesNames, Plain
<1>6. QED
  BY <1>3, <1>4, <1>5

\* A step of the refresher or the checker leaves the user thread alone and
\* does not reset impl_.
Background(t) ==
  pc[t] # "done" /\ job' = job /\ (impl' = "null" => impl = "null")

\* So it keeps what concerns the end of the threads: it has not been joined yet.
LEMMA BackgroundKeeps ==
  ASSUME IInv, NEW t \in {"refresher", "checker"}, NEW l \in Labels, Goto(t, l),
         Background(t)
  PROVE  Joined' /\ Jobs' /\ Quiet'
<1>1. \A u \in Threads \ {t} : pc'[u] = pc[u]
  BY GotoMoves DEF Threads
<1>2. Joined' /\ Jobs'
  BY <1>1 DEF IInv, Joined, Jobs, Background, Threads, Closing, PastRefresher, PastChecker
<1>3. Quiet'
  BY DEF IInv, Quiet, Background
<1>4. QED
  BY <1>2, <1>3

\* Where the user thread may go, given the job it then has.
Follows(l) ==
  /\ l \in PastRefresher => pc["refresher"] = "done"
  /\ l \in PastChecker => pc["checker"] = "done"
  /\ job' \in {"close", "dtor"} => l \in Closing \cup {"idle"}
  /\ job' \in {"ctor", "op"} => l \notin Closing
  /\ impl' = "null" => /\ chan' = "closed"
                       /\ pc["refresher"] = "done" /\ pc["checker"] = "done"
                       /\ l \notin Refreshing

\* A step of the user thread to such a place keeps it too.
LEMMA FollowsKeeps ==
  ASSUME IInv, NEW l \in Labels, Goto("user", l), Follows(l)
  PROVE  Joined' /\ Jobs' /\ Quiet'
<1>1. /\ pc'["user"] = l
      /\ pc'["refresher"] = pc["refresher"] /\ pc'["checker"] = pc["checker"]
  BY GotoMoves DEF Threads
<1>2. QED
  BY <1>1 DEF Joined, Jobs, Quiet, Follows

\* Both together give the whole invariant, for the two background threads ...
LEMMA PlainBackground ==
  ASSUME IInv, NEW t \in {"refresher", "checker"}, NEW l, Plain(t, l), Background(t)
  PROVE  IInv'
<1>1. l \in Labels /\ Goto(t, l) /\ t \in Threads
  BY DEF Plain, Threads
<1>2. QED
  BY <1>1, PlainKeeps, BackgroundKeeps DEF IInv

\* ... for the user thread.
LEMMA PlainUser ==
  ASSUME IInv, NEW l, Plain("user", l), Follows(l)
  PROVE  IInv'
<1>1. l \in Labels /\ Goto("user", l) /\ "user" \in Threads
  BY DEF Plain, Threads
<1>2. QED
  BY <1>1, PlainKeeps, FollowsKeeps DEF IInv

\* A step that leaves all of this alone: the world's steps, and the last one.
LEMMA StillKeeps ==
  ASSUME IInv, UNCHANGED <<pc, names, table, lock, got, job, impl, chan>>,
         machine' \in Lists
  PROVE  IInv'
  BY DEF IInv, Typed, Writing, TableMatchesNames, Joined, Jobs, Quiet

\* Undefined behaviour or std::terminate ends the process as it is.
LEMMA DiesKeeps ==
  ASSUME IInv, NEW how, Dies(how)
  PROVE  IInv'
<1>1. UNCHANGED <<pc, names, table, lock, got, job, impl, chan>> /\ machine' \in Lists
  BY DEF Dies, IInv, Typed, world, conn, data
<1>2. QED
  BY <1>1, StillKeeps

-----------------------------------------------------------------------------
(* refresh(), in any of the threads *)

\* A step inside refresh(): it goes on, returns or throws.
LEMMA RefreshMove ==
  ASSUME IInv, NEW t \in Threads, NEW l \in Labels, Goto(t, l),
         UNCHANGED <<job, impl, chan>>,
         pc[t] \in {"refresh"} \cup Refreshing,
         l \in Refreshing \cup {OnThrow(t), OnReturn(t)},
         l \in Refreshing => impl # "null"
  PROVE  Joined' /\ Jobs' /\ Quiet'
<1>1. CASE t \in {"refresher", "checker"}
  BY <1>1, BackgroundKeeps DEF Background, Refreshing, Holding
<1>2. CASE t = "user"
  <2>1. job \in {"ctor", "op"}
    BY <1>2 DEF IInv, Typed, Jobs, Closing, PastRefresher, PastChecker, Refreshing, Holding
  <2>2. OnThrow(t) \in {"unwind", "idle"} /\ OnReturn(t) = "idle"
    BY <1>2, <2>1 DEF OnThrow, OnReturn
  <2>3. Follows(l)
    BY <1>2, <2>1, <2>2 DEF IInv, Quiet, Follows, Closing, PastRefresher, PastChecker,
                            Refreshing, Holding
  <2>4. QED
    BY <1>2, <2>3, FollowsKeeps
<1>3. QED
  BY <1>1, <1>2 DEF Threads

\* Where refresh() throws to and returns to are places without the lock.
LEMMA RefreshExits ==
  ASSUME IInv, NEW t \in Threads, pc[t] \in {"refresh"} \cup Refreshing
  PROVE  OnThrow(t) \in Labels \ Holding /\ OnReturn(t) \in Labels \ Holding
<1>1. t = "user" => job \in {"ctor", "op"}
  BY DEF IInv, Typed, Jobs, Closing, PastRefresher, PastChecker, Refreshing, Holding
<1>2. QED
  BY <1>1 DEF OnThrow, OnReturn, Threads, Labels, Holding

\* Every step of refresh(), by whichever thread, keeps the invariant.
LEMMA RefreshKeeps ==
  ASSUME IInv, NEW t \in Threads, Refresh(t)
  PROVE  IInv'
<1> USE DEF At
<1>1. CASE CallRefresh(t)
  <2>1. pc[t] = "refresh"
    BY <1>1 DEF CallRefresh
  <2>2. CASE impl = "null" /\ Moves(t, OnThrow(t))
    <3>1. Plain(t, OnThrow(t)) /\ UNCHANGED <<job, impl, chan>>
      BY <2>1, <2>2, RefreshExits DEF Plain, Moves, IInv, Typed, Holding, world, conn,
                                      data
    <3>2. OnThrow(t) \notin Refreshing
      BY <2>1 DEF OnThrow, Threads, Refreshing, Holding, IInv, Typed
    <3>3. QED
      BY <2>1, <3>1, <3>2, PlainKeeps, RefreshMove DEF Plain, IInv
  <2>3. CASE Dies("closed_channel_used")
    BY <2>3, DiesKeeps
  <2>4. CASE impl # "null" /\ Goto(t, "refreshing") /\
             UNCHANGED <<world, chan, impl, data, got, job>>
    <3>1. Plain(t, "refreshing") /\ UNCHANGED <<job, impl, chan>>
      BY <2>1, <2>4 DEF Plain, IInv, Typed, Labels, Holding, world, data
    <3>2. "refreshing" \in Refreshing
      BY DEF Refreshing
    <3>3. QED
      BY <2>1, <2>4, <3>1, <3>2, PlainKeeps, RefreshMove DEF Plain, IInv
  <2>5. QED
    BY <1>1, <2>2, <2>3, <2>4 DEF CallRefresh, Begin
<1>2. CASE RefreshAnswered(t)
  <2>1. pc[t] = "refreshing" /\ impl # "null"
    BY <1>2 DEF RefreshAnswered, IInv, Quiet, Refreshing, Threads
  <2>2. Plain(t, "build") /\ UNCHANGED <<job, impl, chan>>
    BY <1>2, <2>1 DEF RefreshAnswered, Answers, Plain, IInv, Typed, Labels, Holding,
                      world, data
  <2>3. "build" \in Refreshing /\ "refreshing" \in Refreshing
    BY DEF Refreshing
  <2>4. QED
    BY <2>1, <2>2, <2>3, PlainKeeps, RefreshMove DEF Plain, IInv
<1>3. CASE RefreshFails(t)
  <2>1. pc[t] = "refreshing" /\ "refreshing" \in Refreshing
    BY <1>3 DEF RefreshFails, Refreshing
  <2>2. CASE Goto(t, OnThrow(t)) /\ UNCHANGED <<world, chan, impl, data, got, job>>
    <3>1. Plain(t, OnThrow(t)) /\ UNCHANGED <<job, impl, chan>>
      BY <2>1, <2>2, RefreshExits DEF Plain, IInv, Typed, Holding, world, data
    <3>2. OnThrow(t) \notin Refreshing
      BY <2>1 DEF OnThrow, Threads, Refreshing, Holding, IInv, Typed
    <3>3. QED
      BY <2>1, <3>1, <3>2, PlainKeeps, RefreshMove DEF Plain, IInv
  <2>3. CASE Dies("freed_object_used")
    BY <2>3, DiesKeeps
  <2>4. QED
    BY <1>3, <2>2, <2>3 DEF RefreshFails, Fails
<1>4. CASE Build(t)
  <2>1. pc[t] = "build" /\ "build" \in Refreshing /\ impl # "null"
    BY <1>4 DEF Build, IInv, Quiet, Refreshing, Threads
  <2>2. ASSUME NEW same \in BOOLEAN, Compared(t, same)
        PROVE  IInv'
    <3> DEFINE l == IF same THEN OnReturn(t) ELSE "wait_lock"
    <3>1. Plain(t, l) /\ UNCHANGED <<job, impl, chan>>
      BY <2>1, <2>2, RefreshExits DEF Compared, Plain, IInv, Typed, Labels, Holding,
                                      world, conn, data
    <3>2. l \in Refreshing \cup {OnReturn(t)}
      BY DEF Refreshing
    <3>3. QED
      BY <2>1, <3>1, <3>2, PlainKeeps, RefreshMove DEF Plain, IInv
  <2>3. SameNames(got[t]) \in BOOLEAN
    BY DEF SameNames
  <2>4. QED
    BY <1>4, <2>2, <2>3, DiesKeeps DEF Build
<1>5. CASE TakeLock(t)
  <2>1. /\ pc[t] = "wait_lock" /\ lock = NoThread /\ lock' = t /\ Goto(t, "write_names")
        /\ UNCHANGED <<names, table, got, machine, job, impl, chan>>
    BY <1>5 DEF TakeLock, world, conn
  <2>2. /\ "write_names" \in Labels /\ "write_names" \in Refreshing
        /\ "wait_lock" \in Refreshing /\ impl # "null"
    BY <2>1 DEF Labels, Refreshing, Holding, IInv, Quiet, Threads
  <2>3. Joined' /\ Jobs' /\ Quiet'
    BY <2>1, <2>2, RefreshMove
  <2>4. /\ pc' \in [Threads -> Labels] /\ pc'[t] = "write_names"
        /\ \A u \in Threads \ {t} : pc'[u] = pc[u]
    BY <2>1, <2>2, GotoMoves
  <2>5. NoThread \notin Threads
    BY DEF Threads, NoThread
  <2>6. Typed' /\ TableMatchesNames'
    BY <2>1, <2>4, <2>5 DEF IInv, Typed, TableMatchesNames
  <2>7. ASSUME NEW u \in Threads
        PROVE  /\ pc'[u] \in Holding <=> lock' = u
               /\ pc'[u] = "write_table" => names' = NamesOf(got'[u])
    BY <2>1, <2>4, <2>5 DEF IInv, Writing, Holding
  <2>8. Writing'
    BY <2>7 DEF Writing
  <2>9. QED
    BY <2>3, <2>6, <2>8 DEF IInv
<1>6. CASE WriteNames(t)
  <2>1. /\ pc[t] = "write_names" /\ names' = NamesOf(got[t]) /\ Goto(t, "write_table")
        /\ UNCHANGED <<table, lock, got, machine, job, impl, chan>>
    BY <1>6 DEF WriteNames, world, conn
  <2>2. /\ "write_table" \in Labels /\ "write_table" \in Refreshing
        /\ "write_names" \in Refreshing /\ impl # "null"
    BY <2>1 DEF Labels, Refreshing, Holding, IInv, Quiet, Threads
  <2>3. Joined' /\ Jobs' /\ Quiet'
    BY <2>1, <2>2, RefreshMove
  <2>4. /\ pc' \in [Threads -> Labels] /\ pc'[t] = "write_table"
        /\ \A u \in Threads \ {t} : pc'[u] = pc[u]
    BY <2>1, <2>2, GotoMoves
  <2>5. lock = t /\ t # NoThread
    BY <2>1 DEF IInv, Writing, Holding, Threads, NoThread
  <2>6. Typed'
    BY <2>1, <2>4 DEF IInv, Typed
  <2>7. ASSUME NEW u \in Threads
        PROVE  /\ pc'[u] \in Holding <=> lock' = u
               /\ pc'[u] = "write_table" => names' = NamesOf(got'[u])
    BY <2>1, <2>4, <2>5 DEF IInv, Writing, Holding
  <2>8. Writing' /\ TableMatchesNames'
    BY <2>1, <2>5, <2>7 DEF Writing, TableMatchesNames
  <2>9. QED
    BY <2>3, <2>6, <2>8 DEF IInv
<1>7. CASE WriteTable(t)
  <2>1. /\ pc[t] = "write_table" /\ Goto(t, OnReturn(t)) /\ lock' = NoThread
        /\ \E built \in Builds(got[t]) : table' \in replace_all(built)
        /\ got' = [got EXCEPT ![t] = {}]
        /\ UNCHANGED <<names, machine, job, impl, chan>>
    BY <1>7 DEF WriteTable, world, conn
  <2>2. "write_table" \in Refreshing /\ impl # "null"
    BY <2>1 DEF Refreshing, Holding, IInv, Quiet, Threads
  <2>3. OnReturn(t) \in Labels \ Holding
    BY <2>1, <2>2, RefreshExits
  <2>4. Joined' /\ Jobs' /\ Quiet'
    BY <2>1, <2>2, <2>3, RefreshMove
  <2>5. /\ pc' \in [Threads -> Labels] /\ pc'[t] \notin Holding
        /\ \A u \in Threads \ {t} : pc'[u] = pc[u]
    BY <2>1, <2>3, GotoMoves
  <2>6. lock = t /\ NoThread \notin Threads
    BY <2>1 DEF IInv, Writing, Holding, Threads, NoThread
  <2>7. Typed'
    BY <2>1, <2>5 DEF IInv, Typed
  <2>8. Writing'
    BY <2>1, <2>5, <2>6 DEF IInv, Typed, Writing, Holding
  <2>9. got[t] \in Lists \cup {{}} /\ names = NamesOf(got[t])
    BY <2>1 DEF IInv, Typed, Writing
  <2>10. TableMatchesNames'
    <3>1. ReportedBy(names') = got[t]
      BY <2>1, <2>9, NamesDetermineAnswer
    <3> QED BY <2>1, <3>1, Zenon DEF TableMatchesNames
  <2>11. QED
    BY <2>4, <2>7, <2>8, <2>10 DEF IInv
<1>8. QED
  BY <1>1, <1>2, <1>3, <1>4, <1>5, <1>6, <1>7 DEF Refresh

-----------------------------------------------------------------------------
(* The threads *)

\* Every step of check_connection() keeps the invariant.
LEMMA CheckerKeeps ==
  ASSUME IInv, Checker
  PROVE  IInv'
<1> USE DEF At
<1>1. SUFFICES ASSUME ~Refresh("checker"), ~BadAddress, ~CheckerJoinsItself
               PROVE  \/ IInv'
                      \/ \E l : Plain("checker", l) /\ Background("checker")
  BY RefreshKeeps, DiesKeeps, PlainBackground DEF BadAddress, CheckerJoinsItself, Threads
<1> USE DEF IInv, Typed, Plain, Background, Moves, Labels, Holding, world, conn, data
<1>2. CASE CheckStart
  <2>1. Plain("checker", "check") /\ Background("checker")
    BY <1>2 DEF CheckStart
  <2>2. QED
    BY <2>1
<1>3. CASE Check
  <2>1. Plain("checker", IF should_check THEN "ping" ELSE "done") /\ Background("checker")
    BY <1>3 DEF Check
  <2>2. QED
    BY <2>1
<1>4. CASE Ping
  <2>1. pc["checker"] = "ping" /\ OnThrow("checker") = "ping_failed"
    BY <1>4 DEF Ping, OnThrow
  <2>2. CASE Moves("checker", OnThrow("checker"))
    <3>1. Plain("checker", "ping_failed") /\ Background("checker")
      BY <2>1, <2>2
    <3>2. QED
      BY <3>1
  <2>3. CASE Dies("closed_channel_used")
    BY <2>3, DiesKeeps
  <2>4. CASE Goto("checker", "pinging") /\ UNCHANGED <<world, chan, impl, data, got, job>>
    <3>1. Plain("checker", "pinging") /\ Background("checker")
      BY <2>1, <2>4
    <3>2. QED
      BY <3>1
  <2>5. QED
    BY <1>4, <2>2, <2>3, <2>4 DEF Ping, Begin
<1>5. CASE Pong
  <2>1. Plain("checker", "check") /\ Background("checker")
    BY <1>5 DEF Pong, Answers
  <2>2. QED
    BY <2>1
<1>6. CASE NoPong
  <2>1. pc["checker"] = "pinging" /\ OnThrow("checker") = "ping_failed"
    BY <1>6 DEF NoPong, OnThrow
  <2>2. CASE Dies("freed_object_used")
    BY <2>2, DiesKeeps
  <2>3. CASE /\ Goto("checker", OnThrow("checker"))
             /\ UNCHANGED <<world, chan, impl, data, got, job>>
    <3>1. Plain("checker", "ping_failed") /\ Background("checker")
      BY <2>1, <2>3
    <3>2. QED
      BY <3>1
  <2>4. QED
    BY <1>6, <2>2, <2>3 DEF NoPong, Fails
<1>7. CASE PingFailed
  <2>1. Plain("checker", IF i + 1 < Tries THEN "ping" ELSE "lost") /\ Background("checker")
    BY <1>7 DEF PingFailed
  <2>2. QED
    BY <2>1
<1>8. CASE Lost
  <2>1. Plain("checker", "dial") /\ Background("checker")
    BY <1>8 DEF Lost, Disconnects
  <2>2. QED
    BY <2>1
<1>9. CASE Dialled
  <2>1. Plain("checker", "new_impl") /\ Background("checker")
    BY <1>9 DEF Dialled, Disconnects
  <2>2. QED
    BY <2>1
<1>10. CASE DialFails
  <2>1. Plain("checker", "dial_failed") /\ Background("checker")
    BY <1>10 DEF DialFails
  <2>2. QED
    BY <2>1
<1>11. CASE NewImpl
  <2>1. Plain("checker", "refresh") /\ Background("checker")
    BY <1>11 DEF NewImpl
  <2>2. QED
    BY <2>1
<1>12. CASE NextDial
  <2>1. Plain("checker", AfterDial) /\ Background("checker")
    BY <1>12 DEF NextDial, AfterDial
  <2>2. QED
    BY <2>1
<1>13. CASE DialFailed
  <2>1. Plain("checker", AfterDial) /\ Background("checker")
    BY <1>13 DEF DialFailed, AfterDial, Disconnects
  <2>2. QED
    BY <2>1
<1>14. CASE Reconnected
  <2>1. Plain("checker", "check") /\ Background("checker")
    BY <1>14 DEF Reconnected
  <2>2. QED
    BY <2>1
<1>15. CASE CheckerCloses
  <2>1. Plain("checker", "joining") /\ Background("checker")
    BY <1>15 DEF CheckerCloses
  <2>2. QED
    BY <2>1
<1>16. QED
  BY <1>1, <1>2, <1>3, <1>4, <1>5, <1>6, <1>7, <1>8, <1>9, <1>10, <1>11, <1>12, <1>13,
     <1>14, <1>15 DEF Checker

\* Every step of refresh_every() keeps the invariant.
LEMMA RefresherKeeps ==
  ASSUME IInv, Refresher
  PROVE  IInv'
<1>1. CASE RefreshLoop
  <2>1. /\ Plain("refresher", IF should_refresh THEN "refresh" ELSE "done")
        /\ Background("refresher")
    BY <1>1 DEF RefreshLoop, At, IInv, Typed, Plain, Background, Moves, Labels, Holding,
                world, conn, data
  <2>2. QED
    BY <2>1, PlainBackground
<1>2. CASE Refresh("refresher")
  BY <1>2, RefreshKeeps DEF Threads
<1>3. QED
  BY <1>1, <1>2 DEF Refresher

\* Every call by the user, close() and the destructor included, keeps it.
LEMMA UserKeeps ==
  ASSUME IInv, UserChooses \/ UserContinues
  PROVE  IInv'
<1> USE DEF At
<1>1. ASSUME NEW j, NEW l, Calls(j, l),
             \/ j = "op" /\ l \in {"refresh", "rpc"}
             \/ j \in {"close", "dtor"} /\ l = "close"
      PROVE  IInv'
  <2>1. Plain("user", l)
    BY <1>1 DEF Calls, Plain, IInv, Typed, Labels, Holding, data
  <2>2. Follows(l)
    BY <1>1 DEF Calls, Follows, IInv, Quiet, Closing, PastRefresher, PastChecker, Refreshing,
                Holding, conn
  <2>3. QED
    BY <2>1, <2>2, PlainUser
<1>2. CASE UserFrameSystem
  BY <1>2, DiesKeeps DEF UserFrameSystem
<1>3. CASE ConnectLogging
  BY <1>3, StillKeeps DEF ConnectLogging, IInv, Typed, conn, data
<1>4. ASSUME NEW l, Plain("user", l), UNCHANGED <<job, impl, chan>>,
             \/ pc["user"] \in {"rpc", "rpc_wait"} /\ l \in {"rpc_wait", "idle", "unwind"}
             \/ pc["user"] \in PastChecker /\ l \in PastChecker
             \/ pc["user"] = "close_threw" /\ l = "idle"
      PROVE  IInv'
  <2>1. Follows(l)
    BY <1>4 DEF Follows, IInv, Typed, Joined, Jobs, Quiet, Closing, PastRefresher, PastChecker,
                Refreshing, Holding
  <2>2. QED
    BY <1>4, <2>1, PlainUser
<1>5. ASSUME pc["user"] \in {"rpc", "rpc_wait"}
      PROVE  OnThrow("user") \in {"idle", "unwind"}
  BY <1>5 DEF IInv, Typed, Jobs, OnThrow, Closing, PastRefresher, PastChecker
<1>6. ASSUME pc["user"] \in {"stop_all", "stopping"}
      PROVE  OnThrow("user") \in {"close_threw", "destroy"}
  BY <1>6 DEF IInv, Typed, Jobs, OnThrow, Closing, PastRefresher, PastChecker
<1>7. ASSUME NEW l \in Labels \ Holding, Goto("user", l), pc["user"] \notin Holding,
             UNCHANGED <<world, chan, impl, data, got, job>>
      PROVE  Plain("user", l) /\ UNCHANGED <<job, impl, chan>>
  BY <1>7 DEF Plain, IInv, Typed, world, data
<1>8. CASE UserRpc
  <2>1. pc["user"] = "rpc"
    BY <1>8 DEF UserRpc
  <2>2. CASE Moves("user", OnThrow("user"))
    BY <2>1, <2>2, <1>4, <1>5, <1>7 DEF Moves, conn, Labels, Holding
  <2>3. CASE Dies("closed_channel_used")
    BY <2>3, DiesKeeps
  <2>4. CASE Goto("user", "rpc_wait") /\ UNCHANGED <<world, chan, impl, data, got, job>>
    BY <2>1, <2>4, <1>4, <1>7 DEF Labels, Holding
  <2>5. QED
    BY <1>8, <2>2, <2>3, <2>4 DEF UserRpc, Begin
<1>9. CASE UserAnswer
  <2>1. pc["user"] = "rpc_wait"
    BY <1>9 DEF UserAnswer
  <2>2. CASE Goto("user", "idle") /\ UNCHANGED <<world, chan, impl, data, got, job>>
    BY <2>1, <2>2, <1>4, <1>7 DEF Labels, Holding
  <2>3. CASE Goto("user", OnThrow("user")) /\ UNCHANGED <<world, chan, impl, data, got, job>>
    BY <2>1, <2>3, <1>4, <1>5, <1>7 DEF Labels, Holding
  <2>4. CASE Dies("freed_object_used")
    BY <2>4, DiesKeeps
  <2>5. QED
    BY <1>9, <2>2, <2>3, <2>4 DEF UserAnswer, Answers, Fails
<1>10. CASE Unwind
  <2>1. Plain("user", "close") /\ Follows("close")
    BY <1>10 DEF Unwind, Plain, Follows, IInv, Typed, Quiet, Labels, Holding, Refreshing,
                 Closing, PastRefresher, PastChecker, world, conn, data
  <2>2. QED
    BY <2>1, PlainUser
<1>11. CASE CloseFlags
  <2>1. Plain("user", "join_refresher")
    BY <1>11 DEF CloseFlags, Plain, IInv, Typed, Labels, Holding, world, data
  <2>2. Follows("join_refresher")
    BY <1>11 DEF CloseFlags, Follows, IInv, Typed, Jobs, Quiet, Refreshing, Holding,
                 Closing, PastRefresher, PastChecker, conn
  <2>3. QED
    BY <2>1, <2>2, PlainUser
<1>12. CASE JoinRefresher
  <2>1. Plain("user", "join_checker")
    BY <1>12 DEF JoinRefresher, Moves, Plain, IInv, Typed, Labels, Holding, world, data
  <2>2. Follows("join_checker")
    BY <1>12 DEF JoinRefresher, Moves, Follows, IInv, Typed, Jobs, Quiet, Refreshing, Holding,
                 Closing, PastRefresher, PastChecker, conn
  <2>3. QED
    BY <2>1, <2>2, PlainUser
<1>13. CASE JoinChecker
  <2>1. Plain("user", "stop_all")
    BY <1>13 DEF JoinChecker, Moves, Plain, IInv, Typed, Labels, Holding, world, data
  <2>2. Follows("stop_all")
    BY <1>13 DEF JoinChecker, Moves, Follows, IInv, Typed, Joined, Jobs, Quiet, Refreshing, Holding,
                 Closing, PastRefresher, PastChecker, conn
  <2>4. QED
    BY <2>1, <2>2, PlainUser
<1>14. CASE StopAll
  <2>1. pc["user"] = "stop_all"
    BY <1>14 DEF StopAll
  <2>2. CASE Moves("user", OnThrow("user"))
    BY <2>1, <2>2, <1>4, <1>6, <1>7 DEF Moves, conn, Labels, Holding, PastChecker
  <2>3. CASE Dies("closed_channel_used")
    BY <2>3, DiesKeeps
  <2>4. CASE Goto("user", "stopping") /\ UNCHANGED <<world, chan, impl, data, got, job>>
    BY <2>1, <2>4, <1>4, <1>7 DEF Labels, Holding, PastChecker
  <2>5. QED
    BY <1>14, <2>2, <2>3, <2>4 DEF StopAll, Begin
<1>15. CASE StopAllEnds
  <2>1. pc["user"] = "stopping"
    BY <1>15 DEF StopAllEnds
  <2>2. CASE /\ Goto("user", "close_channel")
             /\ UNCHANGED <<world, chan, impl, data, got, job>>
    BY <2>1, <2>2, <1>4, <1>7 DEF Labels, Holding, PastChecker
  <2>3. CASE /\ Goto("user", OnThrow("user"))
             /\ UNCHANGED <<world, chan, impl, data, got, job>>
    BY <2>1, <2>3, <1>4, <1>6, <1>7 DEF Labels, Holding, PastChecker
  <2>4. CASE Dies("freed_object_used")
    BY <2>4, DiesKeeps
  <2>5. QED
    BY <1>15, <2>2, <2>3, <2>4 DEF StopAllEnds, Answers, Fails
<1>16. CASE CloseThrew
  BY <1>16, <1>4, <1>7 DEF CloseThrew, Moves, conn, Labels, Holding
<1>17. ASSUME NEW l, Release(l), pc["user"] \in {"close_channel", "destroy"},
              (l = "idle" /\ job = "close") \/ l \in {"destroy", "gone"}
       PROVE  IInv'
  <2>1. Plain("user", l)
    BY <1>17 DEF Release, Plain, IInv, Typed, Labels, Holding, world, data
  <2>2. Follows(l)
    BY <1>17 DEF Release, Follows, IInv, Typed, Joined, Jobs, Closing, PastRefresher,
                 PastChecker, Refreshing, Holding
  <2>3. QED
    BY <2>1, <2>2, PlainUser
<1>18. CASE CloseEnds
  BY <1>18, <1>17 DEF CloseEnds
<1>19. CASE Destroy
  BY <1>19, <1>17 DEF Destroy
<1>20. CASE Refresh("user")
  BY <1>20, RefreshKeeps DEF Threads
<1>21. CASE UserChooses
  BY <1>21, <1>1, <1>2, <1>3 DEF UserChooses
<1>22. QED
  BY <1>8, <1>9, <1>10, <1>11, <1>12, <1>13, <1>14, <1>15, <1>16, <1>18, <1>19, <1>20,
     <1>21 DEF UserContinues

-----------------------------------------------------------------------------
(* The theorems *)

\* The invariant holds when with_channel has started the threads.
LEMMA InitIInv ==
  ASSUME Init
  PROVE  IInv
<1>1. Typed /\ Writing
  BY DEF Init, Typed, Writing, Holding, Threads, NoThread, Labels
<1>2. TableMatchesNames
  BY EmptyMatches DEF Init, TableMatchesNames
<1>3. Joined /\ Jobs /\ Quiet
  BY DEF Init, Joined, Jobs, Quiet, Closing, PastRefresher, PastChecker, Threads
<1>4. QED
  BY <1>1, <1>2, <1>3 DEF IInv

\* Every step of the specification keeps the invariant.
LEMMA StepIInv ==
  ASSUME IInv, [Next]_vars
  PROVE  IInv'
<1>1. CASE GoesDown \/ ComesUp
  BY <1>1, StillKeeps DEF GoesDown, ComesUp, IInv, Typed, data
<1>2. CASE Reconfigured
  BY <1>2, StillKeeps DEF Reconfigured, conn, data
<1>3. CASE UNCHANGED vars
  BY <1>3, StillKeeps DEF vars, world, conn, data, IInv, Typed
<1>4. QED
  BY <1>1, <1>2, <1>3, UserKeeps, RefresherKeeps, CheckerKeeps DEF Next

\* The inductive invariant holds throughout.
LEMMA Invariance == Spec => []IInv
  BY InitIInv, StepIInv, PTL DEF Spec

(***************************************************************************)
(* Whenever lock_ is free the table of clients is what replace_all makes   *)
(* of the resources in resource_names_, but for those whose client's       *)
(* constructor may throw, for any interleaving of any number of refreshes  *)
(* by the three threads.                                                   *)
(***************************************************************************)
THEOREM RefreshesDoNotMix == Spec => []TableMatchesNames
<1>1. IInv => TableMatchesNames
  BY DEF IInv
<1>2. QED
  BY <1>1, Invariance, PTL

(***************************************************************************)
(* Once close() or the destructor has reset impl_, both threads have ended *)
(* and the channel is closed, whatever they were doing when it was called. *)
(***************************************************************************)
THEOREM ClosedStaysQuiet == Spec => []ClosedIsQuiet
<1>1. IInv => ClosedIsQuiet
  BY DEF IInv, Typed, Writing, Quiet, ClosedIsQuiet, Refreshing, Holding, Threads, NoThread
<1>2. QED
  BY <1>1, Invariance, PTL

-----------------------------------------------------------------------------
(***************************************************************************)
(* What rests on the invariant or beside it: the types of the variables    *)
(* that it leaves out, where log records go, and what a lookup finds.      *)
(***************************************************************************)

\* Where a loop of check_connection has a try left.
Trying == {"ping", "pinging", "ping_failed", "dial", "new_impl", "refresh", "refreshing",
           "build", "wait_lock", "write_names", "write_table", "dialled", "dial_failed"}

Beside ==
  /\ using \in [Threads -> {"none", "live", "cut", "freed"}]
  /\ chan \in {"open", "closed"} /\ impl \in {"null", "live", "old"}
  /\ i \in 0..Tries /\ (pc["checker"] \in Trying => i < Tries)

\* resource_names_ is what some answer was turned into.
Reported == \E list \in Lists \cup {{}} : names = NamesOf(list)

\* A step that has no part in the loops of check_connection.
LEMMA NotCounting ==
  ASSUME IInv, NEW t \in Threads \ {"checker"}, NEW l, Goto(t, l) \/ UNCHANGED pc
  PROVE  pc'["checker"] = pc["checker"]
  BY DEF IInv, Typed, Goto, Threads

\* The calls of client_helper.
LEMMA RpcBeside ==
  ASSUME IInv, Beside, NEW t \in Threads, NEW label,
         Begin(t, label) \/ Answers(t, label) \/ Fails(t)
  PROVE  /\ using' \in [Threads -> {"none", "live", "cut", "freed"}]
         /\ UNCHANGED <<chan, impl, sink, console, names>>
  BY Zenon DEF Begin, Answers, Fails, Moves, Dies, Beside, conn, logs, data

\* Every step of refresh().
LEMMA RefreshBeside ==
  ASSUME IInv, Beside, NEW t \in Threads, Refresh(t)
  PROVE  /\ using' \in [Threads -> {"none", "live", "cut", "freed"}]
         /\ UNCHANGED <<chan, impl, sink, console, i>>
         /\ UNCHANGED names \/ WriteNames(t)
         /\ UNCHANGED pc \/ \E l \in Refreshing \cup {OnThrow(t), OnReturn(t)} : Goto(t, l)
         /\ pc[t] \in Refreshing \cup {"refresh"}
<1>1. CASE CallRefresh(t)
  <2>1. Begin(t, "refreshing") /\ pc[t] = "refresh"
    BY <1>1 DEF CallRefresh, At
  <2>2. i' = i /\ (UNCHANGED pc \/ Goto(t, "refreshing") \/ Goto(t, OnThrow(t)))
    BY <2>1 DEF Begin, Moves, Dies, checks
  <2> QED BY <2>1, <2>2, RpcBeside DEF Refreshing
<1>2. CASE RefreshAnswered(t)
  <2>1. Answers(t, "build") /\ pc[t] = "refreshing"
    BY <1>2 DEF RefreshAnswered, At
  <2>2. i' = i /\ Goto(t, "build")
    BY <1>2 DEF RefreshAnswered, Answers, checks
  <2> QED BY <2>1, <2>2, RpcBeside DEF Refreshing
<1>3. CASE RefreshFails(t)
  <2>1. Fails(t) /\ pc[t] = "refreshing"
    BY <1>3 DEF RefreshFails, At
  <2>2. i' = i /\ (UNCHANGED pc \/ Goto(t, OnThrow(t)))
    BY <2>1 DEF Fails, Dies, checks
  <2> QED BY <2>1, <2>2, RpcBeside DEF Refreshing
<1>4. CASE Build(t)
  <2>1. (\E how : Dies(how)) \/ \E same \in BOOLEAN : Compared(t, same)
    <3>1. SameNames(got[t]) \in BOOLEAN
      BY DEF SameNames
    <3> QED BY <1>4, <3>1 DEF Build
  <2>2. /\ UNCHANGED <<using, chan, impl, sink, console, i, names>>
        /\ UNCHANGED pc \/ Goto(t, OnReturn(t)) \/ Goto(t, "wait_lock")
    BY <2>1, Zenon DEF Dies, Compared, conn, logs, checks, data
  <2>3. pc[t] = "build"
    BY <1>4 DEF Build, At
  <2> QED BY <2>2, <2>3 DEF Refreshing, Beside
<1>5. CASE TakeLock(t)
  BY <1>5 DEF TakeLock, At, Refreshing, Holding, Beside, conn, logs, checks
<1>6. CASE WriteNames(t)
  BY <1>6 DEF WriteNames, At, Refreshing, Holding, Beside, conn, logs, checks
<1>7. CASE WriteTable(t)
  BY <1>7 DEF WriteTable, At, Refreshing, Holding, Beside, conn, logs, checks
<1> QED BY <1>1, <1>2, <1>3, <1>4, <1>5, <1>6, <1>7 DEF Refresh

\* refresh() keeps all of it.
LEMMA RefreshKeepsBeside ==
  ASSUME IInv, Beside, LogsHaveADestination, Reported, NEW t \in Threads, Refresh(t)
  PROVE  Beside' /\ LogsHaveADestination' /\ Reported'
<1>1. LogsHaveADestination'
  BY RefreshBeside DEF LogsHaveADestination
<1>2. Reported'
  <2>1. CASE UNCHANGED names
    BY <2>1 DEF Reported
  <2>2. CASE WriteNames(t)
    BY <2>2 DEF WriteNames, Reported, IInv, Typed
  <2> QED BY <2>1, <2>2, RefreshBeside
<1>3. pc'["checker"] \in Trying => i < Tries
  <2>1. CASE t = "checker"
    BY <2>1, RefreshBeside DEF Beside, Trying, Refreshing, Holding
  <2>2. CASE t # "checker"
    <3>1. pc'["checker"] = pc["checker"]
      BY <2>2, RefreshBeside, NotCounting
    <3> QED BY <3>1 DEF Beside
  <2> QED BY <2>1, <2>2
<1> QED BY <1>1, <1>2, <1>3, RefreshBeside DEF Beside

\* The rest of check_connection().
LEMMA CheckerKeepsBeside ==
  ASSUME IInv, Beside, LogsHaveADestination, Reported, Checker
  PROVE  Beside' /\ LogsHaveADestination' /\ Reported'
<1> DEFINE c == pc'["checker"]
<1>1. "checker" \in Threads /\ \A l : Goto("checker", l) => c = l
  BY DEF IInv, Typed, Threads, Goto
\* A failed try is counted, and there is a next one as long as i is below 3.
<1>2. ASSUME pc["checker"] \in Trying
      PROVE  /\ i \in 0..2 /\ i + 1 \in 0..3
             /\ AfterDial \in Trying => i + 1 < 3
  <2>1. i \in 0..2
    BY <1>2 DEF Beside, Tries
  <2>2. CASE i + 1 < 3
    BY <2>1, <2>2
  <2>3. CASE ~(i + 1 < 3)
    <3>1. AfterDial = "tries_over"
      BY <2>3 DEF AfterDial, Tries
    <3> QED BY <2>1, <3>1 DEF Trying
  <2> QED BY <2>2, <2>3
\* What each step has to show.
<1>3. ASSUME using' \in [Threads -> {"none", "live", "cut", "freed"}],
             chan' \in {"open", "closed"},
             impl' = impl \/ (impl # "null" /\ impl' = "old"),
             i' \in 0..3, c \in Trying => i' < 3,
             UNCHANGED <<names, sink, console>>
      PROVE  Beside' /\ LogsHaveADestination' /\ Reported'
  BY <1>3 DEF Beside, LogsHaveADestination, Reported, Tries
<1>4. ASSUME UNCHANGED <<names, sink, console, using, chan, impl, i>>,
             pc' = pc \/ (c \in Trying => i < 3)
      PROVE  Beside' /\ LogsHaveADestination' /\ Reported'
  BY <1>3, <1>4 DEF Beside, Tries
<1>5. ASSUME using' \in [Threads -> {"none", "live", "cut", "freed"}],
             UNCHANGED <<chan, impl, i>>,
             pc' = pc \/ (c \in Trying => i < 3),
             UNCHANGED <<names, sink, console>>
      PROVE  Beside' /\ LogsHaveADestination' /\ Reported'
  BY <1>3, <1>5 DEF Beside, Tries
<1>6. CASE Refresh("checker")
  BY <1>1, <1>6, RefreshKeepsBeside
<1>7. CASE BadAddress \/ CheckerJoinsItself
  BY <1>4, <1>7 DEF BadAddress, CheckerJoinsItself, Dies, conn, logs, data, checks
<1>8. CASE CheckStart \/ Reconnected \/ CheckerCloses
  <2>1. UNCHANGED <<names, sink, console, using, chan, impl, i>>
    BY <1>8 DEF CheckStart, Reconnected, CheckerCloses, Moves, conn, logs, data, checks
  <2>2. c \in {"check", "joining"}
    BY <1>1, <1>8 DEF CheckStart, Reconnected, CheckerCloses, Moves
  <2>3. c \notin Trying
    BY <2>2 DEF Trying
  <2> QED BY <1>4, <2>1, <2>3
<1>9. CASE DialFails
  <2>1. UNCHANGED <<names, sink, console, using, chan, impl, i>>
    BY <1>9 DEF DialFails, Moves, conn, logs, data, checks
  <2>2. i \in 0..2
    BY <1>2, <1>9 DEF DialFails, At, Trying
  <2> QED BY <1>4, <2>1, <2>2
<1>10. CASE Check
  BY <1>3, <1>10 DEF Check, conn, logs, data, Beside
<1>11. CASE Ping
  <2>1. Begin("checker", "pinging") /\ i \in 0..2
    BY <1>2, <1>11 DEF Ping, At, Trying
  <2>2. i' = i
    BY <2>1 DEF Begin, Moves, Dies, checks
  <2> QED BY <2>1, <2>2, <1>1, <1>5, RpcBeside
<1>12. CASE Pong
  <2>1. Answers("checker", "check") /\ i' = i /\ c = "check"
    BY <1>1, <1>12 DEF Pong, Answers
  <2>2. c \notin Trying
    BY <2>1 DEF Trying
  <2> QED BY <2>1, <2>2, <1>1, <1>5, RpcBeside
<1>13. CASE NoPong
  <2>1. Fails("checker") /\ i \in 0..2
    BY <1>2, <1>13 DEF NoPong, At, Trying
  <2>2. i' = i
    BY <2>1 DEF Fails, Dies, checks
  <2> QED BY <2>1, <2>2, <1>1, <1>5, RpcBeside
<1>14. CASE PingFailed
  <2>1. i' = i + 1 /\ i \in 0..2
    BY <1>2, <1>14 DEF PingFailed, At, Trying
  <2>2. c \in Trying => i + 1 < 3
    <3>1. CASE i + 1 < 3
      BY <3>1
    <3>2. CASE ~(i + 1 < 3)
      <4>1. c = "lost"
        BY <1>1, <1>14, <3>2 DEF PingFailed, Tries
      <4> QED BY <4>1 DEF Trying
    <3> QED BY <3>1, <3>2
  <2>3. UNCHANGED <<names, sink, console, using, chan, impl>>
    BY <1>14 DEF PingFailed, conn, logs, data
  <2> QED BY <2>1, <2>2, <2>3, <1>3 DEF Beside
<1>15. ASSUME Disconnects
       PROVE  /\ using' \in [Threads -> {"none", "live", "cut", "freed"}]
              /\ impl' = impl \/ (impl # "null" /\ impl' = "old")
  BY <1>15 DEF Disconnects, Beside
<1>16. CASE Lost
  <2>1. i' = 0 /\ Disconnects /\ chan' = "closed" /\ UNCHANGED <<names, sink, console>>
    BY <1>16 DEF Lost, logs
  <2> QED BY <1>3, <1>15, <2>1
<1>17. CASE Dialled
  <2>1. i \in 0..2 /\ i' = i
    BY <1>2, <1>17 DEF Dialled, At, checks, Trying
  <2>2. Disconnects /\ chan' = "open" /\ UNCHANGED <<names, sink, console>>
    BY <1>17 DEF Dialled, logs
  <2> QED BY <1>3, <1>15, <2>1, <2>2
<1>18. CASE DialFailed
  <2>1. i' = i + 1 /\ i' \in 0..3 /\ (c \in Trying => i' < 3)
    BY <1>1, <1>2, <1>18 DEF DialFailed, At, Trying
  <2>2. Disconnects /\ chan' = "closed" /\ UNCHANGED <<names, sink, console>>
    BY <1>18 DEF DialFailed, logs
  <2> QED BY <1>3, <1>15, <2>1, <2>2
<1>19. CASE NextDial
  <2>1. i' = i + 1 /\ i' \in 0..3 /\ (c \in Trying => i' < 3)
    BY <1>1, <1>2, <1>19 DEF NextDial, At, Trying
  <2>2. UNCHANGED <<names, sink, console, using, chan, impl>>
    BY <1>19 DEF NextDial, conn, logs, data
  <2> QED BY <1>3, <2>1, <2>2 DEF Beside
<1>20. CASE NewImpl
  <2>1. impl' = "live" /\ DestroyImpl /\ UNCHANGED <<chan, i, names>> /\ i \in 0..2
    BY <1>2, <1>20 DEF NewImpl, At, data, checks, Trying
  <2>2. using' \in [Threads -> {"none", "live", "cut", "freed"}]
    BY <2>1 DEF DestroyImpl
  <2>3. LogsHaveADestination'
    BY <2>1 DEF DestroyImpl, LogsHaveADestination
  <2> QED BY <2>1, <2>2, <2>3 DEF Beside, Reported, Tries
<1> QED BY <1>6, <1>7, <1>8, <1>9, <1>10, <1>11, <1>12, <1>13, <1>14, <1>16, <1>17,
           <1>18, <1>19, <1>20 DEF Checker

\* The user, the refresher and the machine.
LEMMA OthersKeepBeside ==
  ASSUME IInv, Beside, LogsHaveADestination, Reported,
         UserChooses \/ UserContinues \/ Refresher \/ GoesDown \/ ComesUp \/ Reconfigured
  PROVE  Beside' /\ LogsHaveADestination' /\ Reported'
<1>1. "user" \in Threads \ {"checker"} /\ "refresher" \in Threads \ {"checker"}
  BY DEF Threads
<1>2. ASSUME UNCHANGED <<chan, impl, sink, console, names, i>>,
             using' \in [Threads -> {"none", "live", "cut", "freed"}],
             pc'["checker"] = pc["checker"]
      PROVE  Beside' /\ LogsHaveADestination' /\ Reported'
  BY <1>2 DEF Beside, LogsHaveADestination, Reported
<1>3. ASSUME UNCHANGED <<chan, impl, using, sink, console, names, i>>,
             UNCHANGED pc \/ \E l : Goto("user", l) \/ Goto("refresher", l)
      PROVE  Beside' /\ LogsHaveADestination' /\ Reported'
  BY <1>1, <1>2, <1>3, NotCounting DEF Beside
<1>4. ASSUME NEW label, Begin("user", label) \/ Answers("user", label) \/ Fails("user"),
             i' = i
      PROVE  Beside' /\ LogsHaveADestination' /\ Reported'
  <2>1. UNCHANGED pc \/ \E l : Goto("user", l)
    BY <1>4 DEF Begin, Answers, Fails, Moves, Dies
  <2>2. pc'["checker"] = pc["checker"]
    BY <1>1, <2>1, NotCounting
  <2> QED BY <1>1, <1>2, <1>4, <2>2, RpcBeside
<1>5. CASE Refresh("user") \/ Refresh("refresher")
  BY <1>1, <1>5, RefreshKeepsBeside
<1>6. CASE RefreshLoop
  BY <1>3, <1>6 DEF RefreshLoop, Moves, conn, logs, data, checks
<1>7. CASE GoesDown \/ ComesUp \/ Reconfigured
  BY <1>3, <1>7 DEF GoesDown, ComesUp, Reconfigured, conn, logs, data, checks
<1>8. ASSUME NEW j, NEW l, Calls(j, l)
      PROVE  Beside' /\ LogsHaveADestination' /\ Reported'
  BY <1>3, <1>8 DEF Calls, conn, logs, data, checks
<1>9. CASE UserFrameSystem
  BY <1>3, <1>9 DEF UserFrameSystem, Dies, conn, logs, data, checks
<1>10. CASE ConnectLogging
  BY <1>10 DEF ConnectLogging, conn, data, checks, Beside, LogsHaveADestination, Reported
<1>11. CASE Unwind \/ CloseFlags \/ JoinRefresher \/ JoinChecker \/ CloseThrew
  BY <1>3, <1>11 DEF Unwind, CloseFlags, JoinRefresher, JoinChecker, CloseThrew, Moves,
                     conn, logs, data, checks
<1>12. ASSUME NEW l, Release(l)
       PROVE  Beside' /\ LogsHaveADestination' /\ Reported'
  <2>1. pc'["checker"] = pc["checker"]
    BY <1>1, <1>12, NotCounting DEF Release
  <2>2. /\ chan' = "closed" /\ impl' = "null" /\ DestroyImpl
        /\ UNCHANGED <<names, i>>
    BY <1>12 DEF Release, checks
  <2> QED BY <2>1, <2>2 DEF DestroyImpl, Beside, LogsHaveADestination, Reported
<1>13. CASE CloseEnds \/ Destroy
  BY <1>12, <1>13 DEF CloseEnds, Destroy
<1>14. CASE UserRpc \/ UserAnswer \/ StopAll \/ StopAllEnds
  <2>1. i' = i
    BY <1>14 DEF UserRpc, UserAnswer, StopAll, StopAllEnds, Begin, Fails, Moves, Dies, checks
  <2>2. \E label : Begin("user", label) \/ Answers("user", label) \/ Fails("user")
    BY <1>14 DEF UserRpc, UserAnswer, StopAll, StopAllEnds
  <2> QED BY <1>4, <2>1, <2>2
<1> QED BY <1>5, <1>6, <1>7, <1>8, <1>9, <1>10, <1>11, <1>13, <1>14
           DEF UserChooses, UserContinues, Refresher

LEMMA BesideInvariance == Spec => [](IInv /\ Beside /\ LogsHaveADestination /\ Reported)
<1>1. Init => Beside /\ LogsHaveADestination /\ Reported
  <2>1. NamesOf({}) = {}
    BY DEF NamesOf
  <2> QED BY <2>1 DEF Init, Beside, LogsHaveADestination, Reported, Trying, Threads, Tries
<1>2. IInv /\ Beside /\ LogsHaveADestination /\ Reported /\ [Next]_vars
        => Beside' /\ LogsHaveADestination' /\ Reported'
  <2> SUFFICES ASSUME IInv, Beside, LogsHaveADestination, Reported, [Next]_vars
               PROVE  Beside' /\ LogsHaveADestination' /\ Reported'
    OBVIOUS
  <2>1. CASE UNCHANGED vars
    BY <2>1 DEF vars, conn, logs, data, checks, Beside, LogsHaveADestination, Reported
  <2> QED BY <2>1, CheckerKeepsBeside, OthersKeepBeside DEF Next
<1> QED BY <1>1, <1>2, Invariance, PTL DEF Spec

(***************************************************************************)
(* Every variable of the three threads has its type throughout, and no     *)
(* loop of check_connection makes more than three tries.                   *)
(***************************************************************************)
THEOREM ClientTypeOK == Spec => []TypeOK
<1>1. IInv /\ Beside => TypeOK
  BY DEF IInv, Typed, Beside, TypeOK
<1> QED BY <1>1, BesideInvariance, PTL

(***************************************************************************)
(* A log record always has a sink or the console to go to, and the sink is *)
(* never that of a client without an impl_.                                *)
(***************************************************************************)
THEOREM LogsAlwaysGoSomewhere == Spec => []LogsHaveADestination
BY BesideInvariance, PTL

-----------------------------------------------------------------------------
(* What a lookup finds *)

\* replace_all gets through with some of the batch, with all of it if nothing stops it.
LEMMA Loads ==
  ASSUME NEW new, NEW t \in replace_all(new)
  PROVE  \E a \in SUBSET DOMAIN new :
           /\ Loadable(a)
           /\ Loadable(DOMAIN new) => a = DOMAIN new
           /\ t.resources = [k \in {short_name(n) : n \in a} |->
                               new[CHOOSE n \in a : short_name(n) = k]]
           /\ t.short_names \in FirstChoices({short_name(n) : n \in a})
<1> DEFINE made(added, f) ==
             [resources   |-> [k \in {short_name(n) : n \in added} |->
                                 new[CHOOSE n \in added : short_name(n) = k]],
              short_names |-> f]
           runs == {a \in SUBSET DOMAIN new :
                      Loadable(a) /\ (a = DOMAIN new \/ Stuck(a, DOMAIN new))}
<1>1. ASSUME NEW a \in runs
      PROVE  a \in SUBSET DOMAIN new /\ Loadable(a) /\ (Loadable(DOMAIN new) => a = DOMAIN new)
  BY DEF Stuck, Loadable
<1>2. replace_all(new) =
        UNION {{made(added, f) : f \in FirstChoices({short_name(n) : n \in added})} :
               added \in runs}
  BY Zenon DEF replace_all
<1> HIDE DEF made, runs
<1>3. PICK a \in runs : t \in {made(a, f) : f \in FirstChoices({short_name(n) : n \in a})}
  BY <1>2, Zenon
<1>4. PICK f \in FirstChoices({short_name(n) : n \in a}) : t = made(a, f)
  BY <1>3
<1>5. /\ t.resources = [k \in {short_name(n) : n \in a} |->
                          new[CHOOSE n \in a : short_name(n) = k]]
      /\ t.short_names = f
  BY <1>4 DEF made
<1>6. /\ a \in SUBSET DOMAIN new /\ Loadable(a) /\ (Loadable(DOMAIN new) => a = DOMAIN new)
      /\ t.short_names \in FirstChoices({short_name(n) : n \in a})
  BY <1>1, <1>4, <1>5, Zenon
<1> QED BY <1>5, <1>6, Zenon

\* What is in a table under a name is the client of a reported resource of that name.
LEMMA ClientOfKey ==
  ASSUME NEW list \in Lists \cup {{}}, NEW built \in Builds(list), NEW t \in replace_all(built)
  PROVE  /\ \A k \in DOMAIN t.resources :
              t.resources[k] \in {p \in list : p.api \in KnownApis /\ p.name = k}
         /\ Loadable(DOMAIN Clients(list)) =>
              \A p \in list : p.api \in KnownApis \ FragileApis => p.name \in DOMAIN t.resources
         /\ t.short_names \in FirstChoices(DOMAIN t.resources)
<1> DEFINE all == Clients(list)
           D == DOMAIN all
           key(p) == [api |-> p.api, remote |-> << >>, name |-> p.name]
<1>1. /\ D = {key(p) : p \in {q \in list : q.api \in KnownApis}}
      /\ \A n \in D : all[n] = [api |-> n.api, name |-> n.name]
  BY DEF Clients
<1>2. ASSUME NEW p \in list
      PROVE  /\ p = [api |-> p.api, name |-> p.name]
             /\ short_name(key(p)) = p.name /\ key(p).api = p.api /\ key(p).name = p.name
  <2>1. p \in [api : STRING, name : Seq(STRING) \ {<< >>}]
    BY NameOfReported
  <2>2. p.name \in Seq(STRING) \ {<< >>}
    BY <2>1
  <2>3. << >> \o p.name = p.name
    BY <2>2
  <2> QED BY <2>1, <2>3 DEF short_name
<1>3. PICK kept \in SUBSET D : /\ built = Restrict(all, kept)
                               /\ {n \in D : n.api \notin FragileApis} \subseteq kept
  BY Zenon DEF Builds
<1> HIDE DEF all, D, key
<1>4. DOMAIN built = kept /\ \A n \in kept : built[n] = all[n]
  BY <1>3 DEF Restrict
<1>5. PICK a \in SUBSET kept :
        /\ Loadable(a)
        /\ Loadable(kept) => a = kept
        /\ t.resources = [k \in {short_name(n) : n \in a} |->
                            built[CHOOSE n \in a : short_name(n) = k]]
        /\ t.short_names \in FirstChoices({short_name(n) : n \in a})
  BY <1>4, Loads
<1>6. ASSUME NEW k \in DOMAIN t.resources
      PROVE  t.resources[k] \in {p \in list : p.api \in KnownApis /\ p.name = k}
  <2>1. PICK n \in a : short_name(n) = k /\ t.resources[k] = built[n]
    BY <1>5
  <2>2. n \in D /\ t.resources[k] = [api |-> n.api, name |-> n.name]
    BY <1>1, <1>3, <1>4, <1>5, <2>1
  <2>3. PICK p \in list : p.api \in KnownApis /\ n = key(p)
    BY <1>1, <2>2
  <2> QED BY <1>2, <2>1, <2>2, <2>3
<1>7. ASSUME Loadable(D), NEW p \in list, p.api \in KnownApis \ FragileApis
      PROVE  p.name \in DOMAIN t.resources
  <2>1. Loadable(kept)
    BY <1>3, <1>7 DEF Loadable
  <2>2. key(p) \in kept
    BY <1>1, <1>2, <1>3, <1>7
  <2> QED BY <1>2, <1>5, <2>1, <2>2
<1>8. t.short_names \in FirstChoices(DOMAIN t.resources)
  BY <1>5
<1> QED BY <1>6, <1>7, <1>8 DEF D, all

\* A table that holds what was reported answers for a last part.
LEMMA TableAnswers ==
  ASSUME TableMatchesNames, Reported
  PROVE  LookupFindsTheOne
<1> SUFFICES ASSUME lock = NoThread, NEW n \in names
             PROVE  \/ resource_by_name(n) \in Bearers(n)
                    \/ /\ resource_by_name(n) = NoResource
                       /\ \/ \A p \in Bearers(n) : p.api \in FragileApis
                          \/ ~Loadable(DOMAIN Clients(ReportedBy(names)))
  BY DEF LookupFindsTheOne
<1>1. PICK list \in Lists \cup {{}} : names = NamesOf(list)
  BY DEF Reported
<1>2. ReportedBy(names) = list
  BY <1>1, NamesDetermineAnswer
<1>3. PICK built \in Builds(list) : table \in replace_all(built)
  BY <1>2 DEF TableMatchesNames
<1>4. /\ \A k \in DOMAIN table.resources :
           table.resources[k] \in {p \in list : p.api \in KnownApis /\ p.name = k}
      /\ Loadable(DOMAIN Clients(list)) =>
           \A p \in list : p.api \in KnownApis \ FragileApis => p.name \in DOMAIN table.resources
      /\ table.short_names \in FirstChoices(DOMAIN table.resources)
  BY <1>3, ClientOfKey
<1>5. Bearers(n) = {p \in list : p.api \in KnownApis /\ get_shortcut_name(p.name) = n.name}
  BY <1>2, Zenon DEF Bearers
<1>6. get_shortcut_name(n.name) = n.name
  <2>1. PICK p \in list : n = from_proto(p)
    BY <1>1 DEF NamesOf
  <2>2. n.name = <<p.name[Len(p.name)]>>
    BY <2>1, NameOfReported
  <2>3. \A x : Len(<<x>>) = 1 /\ <<x>>[1] = x
    OBVIOUS
  <2> QED BY <2>2, <2>3 DEF get_shortcut_name
\* Whatever is found under a key that ends in the part is a bearer of it.
<1>7. ASSUME NEW k \in DOMAIN table.resources, get_shortcut_name(k) = n.name
      PROVE  table.resources[k] \in Bearers(n)
  BY <1>4, <1>5, <1>7
<1>8. CASE n.name \in DOMAIN table.resources
  BY <1>6, <1>7, <1>8 DEF resource_by_name, resource
<1>9. CASE n.name \notin DOMAIN table.resources /\ n.name \in DOMAIN table.short_names
  <2>1. /\ table.short_names[n.name] \in DOMAIN table.resources
        /\ get_shortcut_name(table.short_names[n.name]) = n.name
    BY <1>4, <1>9 DEF FirstChoices
  <2> QED BY <1>7, <1>9, <2>1 DEF resource_by_name, resource
<1>10. CASE n.name \notin DOMAIN table.resources /\ n.name \notin DOMAIN table.short_names
  <2>1. resource_by_name(n) = NoResource
    BY <1>10 DEF resource_by_name, resource
  <2>2. ASSUME NEW k \in DOMAIN table.resources PROVE get_shortcut_name(k) # n.name
    BY <1>4, <1>10 DEF FirstChoices
  <2>3. ASSUME Loadable(DOMAIN Clients(list)), NEW p \in Bearers(n)
        PROVE  p.api \in FragileApis
    BY <1>4, <1>5, <2>2, <2>3
  <2> QED BY <1>2, <2>1, <2>3
<1> QED BY <1>8, <1>9, <1>10

(***************************************************************************)
(* For every set of answers, and whichever APIs have clients that may      *)
(* fail: a Name is answered with the client of a reported resource that    *)
(* has its last part, and with none only if there may be none, by          *)
(* resource_by_name, from_proto, refresh and replace_all together.         *)
(***************************************************************************)
THEOREM LookupsFindTheOne == Spec => []LookupFindsTheOne
<1>1. IInv => TableMatchesNames
  BY DEF IInv
<1> QED BY <1>1, TableAnswers, BesideInvariance, PTL

-----------------------------------------------------------------------------
(***************************************************************************)
(* Who waits for whom, and how the background threads come to an end: both *)
(* rest on where each of the threads can be (Places).                      *)
(***************************************************************************)
Own(t) ==
  CASE t = "refresher" -> {"loop", "refresh", "done"} \cup Refreshing
    [] t = "checker"   -> {"start", "check", "lost", "tries_over", "joining", "done"} \cup Trying
    [] t = "user"      -> {"idle", "refresh", "rpc", "rpc_wait", "unwind"}
                            \cup Refreshing \cup Closing

Places == \A t \in Threads : pc[t] \in Own(t)

\* Flags are lowered and never raised.
FlagsGoDown == (~should_refresh => ~should_refresh') /\ (~should_check => ~should_check')

\* A step within refresh() goes ahead, throws or returns.
LEMMA RefreshAhead ==
  ASSUME IInv, NEW t \in Threads, Refresh(t)
  PROVE  /\ i' = i /\ UNCHANGED flags
         /\ \/ UNCHANGED pc
            \/ \E l : /\ Goto(t, l) /\ Ahead(pc[t]) \in 2..7
                      /\ pc[t] \in {"refresh"} \cup Refreshing
                      /\ \/ l \in {OnThrow(t), OnReturn(t)}
                         \/ l \in Refreshing /\ Ahead(l) \in 2..7 /\ Ahead(l) < Ahead(pc[t])
<1> DEFINE Ways(l) == \/ l \in {OnThrow(t), OnReturn(t)}
                      \/ l \in Refreshing /\ Ahead(l) \in 2..7 /\ Ahead(l) < Ahead(pc[t])
           From == Ahead(pc[t]) \in 2..7 /\ pc[t] \in {"refresh"} \cup Refreshing
           Forth(l) == Goto(t, l) /\ From /\ Ways(l)
<1>1. /\ Ahead("refresh") = 7 /\ Ahead("refreshing") = 6 /\ Ahead("build") = 5
      /\ Ahead("wait_lock") = 4 /\ Ahead("write_names") = 3 /\ Ahead("write_table") = 2
  BY DEF Ahead
<1>2. /\ pc[t] \in {"refresh"} \cup Refreshing => From
      /\ \A l \in {OnThrow(t), OnReturn(t)} : Ways(l)
      /\ pc[t] = "refresh" => Ways("refreshing")
      /\ pc[t] = "refreshing" => Ways("build")
      /\ pc[t] = "build" => Ways("wait_lock")
      /\ pc[t] = "wait_lock" => Ways("write_names")
      /\ pc[t] = "write_names" => Ways("write_table")
  BY <1>1 DEF Refreshing, Holding
<1> HIDE DEF Ways, From
<1>3. CASE CallRefresh(t)
  <2>1. pc[t] = "refresh" /\ Begin(t, "refreshing")
    BY <1>3 DEF CallRefresh, At
  <2>2. i' = i /\ UNCHANGED flags /\ (UNCHANGED pc \/ Goto(t, "refreshing") \/ Goto(t, OnThrow(t)))
    BY <2>1 DEF Begin, Moves, Dies, checks
  <2>3. UNCHANGED pc \/ Forth("refreshing") \/ Forth(OnThrow(t))
    BY <1>2, <2>1, <2>2 DEF Refreshing
  <2> QED BY <2>2, <2>3 DEF Ways, From
<1>4. CASE RefreshAnswered(t)
  <2>1. pc[t] = "refreshing" /\ Goto(t, "build") /\ i' = i /\ UNCHANGED flags
    BY <1>4 DEF RefreshAnswered, Answers, At, checks
  <2>2. Forth("build")
    BY <1>2, <2>1 DEF Refreshing
  <2> QED BY <2>1, <2>2 DEF Ways, From
<1>5. CASE RefreshFails(t)
  <2>1. pc[t] = "refreshing" /\ (UNCHANGED pc \/ Goto(t, OnThrow(t))) /\ i' = i /\ UNCHANGED flags
    BY <1>5 DEF RefreshFails, Fails, Dies, At, checks
  <2>2. UNCHANGED pc \/ Forth(OnThrow(t))
    BY <1>2, <2>1 DEF Refreshing
  <2> QED BY <2>1, <2>2 DEF Ways, From
<1>6. CASE Build(t)
  <2>1. (\E how : Dies(how)) \/ \E same \in BOOLEAN : Compared(t, same)
    <3>1. SameNames(got[t]) \in BOOLEAN
      BY DEF SameNames
    <3> QED BY <1>6, <3>1 DEF Build
  <2>2. /\ i' = i /\ UNCHANGED flags
        /\ UNCHANGED pc \/ Goto(t, OnReturn(t)) \/ Goto(t, "wait_lock")
    BY <2>1, Zenon DEF Dies, Compared, checks
  <2>3. pc[t] = "build"
    BY <1>6 DEF Build, At
  <2>4. UNCHANGED pc \/ Forth("wait_lock") \/ Forth(OnReturn(t))
    BY <1>2, <2>2, <2>3 DEF Refreshing
  <2> QED BY <2>2, <2>4 DEF Ways, From
<1>7. CASE TakeLock(t)
  <2>1. pc[t] = "wait_lock" /\ Goto(t, "write_names") /\ i' = i /\ UNCHANGED flags
    BY <1>7 DEF TakeLock, At, checks
  <2>2. Forth("write_names")
    BY <1>2, <2>1 DEF Refreshing, Holding
  <2> QED BY <2>1, <2>2 DEF Ways, From
<1>8. CASE WriteNames(t)
  <2>1. pc[t] = "write_names" /\ Goto(t, "write_table") /\ i' = i /\ UNCHANGED flags
    BY <1>8 DEF WriteNames, At, checks
  <2>2. Forth("write_table")
    BY <1>2, <2>1 DEF Refreshing, Holding
  <2> QED BY <2>1, <2>2 DEF Ways, From
<1>9. CASE WriteTable(t)
  <2>1. pc[t] = "write_table" /\ Goto(t, OnReturn(t)) /\ i' = i /\ UNCHANGED flags
    BY <1>9 DEF WriteTable, At, checks
  <2>2. Forth(OnReturn(t))
    BY <1>2, <2>1 DEF Refreshing, Holding
  <2> QED BY <2>1, <2>2 DEF Ways, From
<1> QED BY <1>3, <1>4, <1>5, <1>6, <1>7, <1>8, <1>9 DEF Refresh

\* The user's steps move the user alone, and only to places of its own.
LEMMA UserMoves ==
  ASSUME IInv, Places, UserChooses \/ UserContinues
  PROVE  /\ i' = i /\ FlagsGoDown
         /\ UNCHANGED pc \/ \E l \in Own("user") : Goto("user", l)
<1> USE DEF FlagsGoDown, flags
<1>1. /\ {"idle", "refresh", "rpc", "rpc_wait", "unwind", "close", "join_refresher", "join_checker",
          "stop_all", "stopping", "close_threw", "close_channel", "destroy", "gone"}
           \subseteq Own("user")
      /\ Refreshing \subseteq Own("user")
  BY DEF Own, Closing, PastRefresher, PastChecker
<1>2. OnThrow("user") \in Own("user") /\ OnReturn("user") \in Own("user")
  BY <1>1 DEF OnThrow, OnReturn, IInv, Typed
<1>3. ASSUME NEW l, l \in Own("user"), Begin("user", l) \/ Answers("user", l) \/ Fails("user")
      PROVE  /\ UNCHANGED flags
             /\ UNCHANGED pc \/ \E m \in Own("user") : Goto("user", m)
  BY <1>2, <1>3 DEF Begin, Answers, Fails, Moves, Dies
<1>4. CASE Refresh("user")
  BY <1>1, <1>2, <1>4, RefreshAhead DEF Threads
<1>5. CASE UserRpc \/ UserAnswer \/ StopAll \/ StopAllEnds
  <2>1. i' = i
    BY <1>5 DEF UserRpc, UserAnswer, StopAll, StopAllEnds, Begin, Fails, Moves, Dies, checks
  <2>2. \E l \in Own("user") : Begin("user", l) \/ Answers("user", l) \/ Fails("user")
    BY <1>1, <1>5 DEF UserRpc, UserAnswer, StopAll, StopAllEnds
  <2> QED BY <1>3, <2>1, <2>2
<1>6. CASE UserChooses
  BY <1>1, <1>6 DEF UserChooses, Calls, UserFrameSystem, ConnectLogging, Dies, checks
<1>7. CASE Unwind \/ CloseFlags \/ JoinRefresher \/ JoinChecker \/ CloseThrew \/ CloseEnds \/ Destroy
  BY <1>1, <1>7 DEF Unwind, CloseFlags, JoinRefresher, JoinChecker, CloseThrew, CloseEnds, Destroy,
                    Release, Moves, checks
<1> QED BY <1>4, <1>5, <1>6, <1>7 DEF UserContinues

\* The refresher's steps move the refresher alone, with its flag down to its end.
LEMMA RefresherMoves ==
  ASSUME IInv, Places, Refresher
  PROVE  /\ i' = i /\ FlagsGoDown
         /\ UNCHANGED pc \/ \E l \in Own("refresher") : Goto("refresher", l)
         /\ ~should_refresh => ComesNearer("refresher")
<1> DEFINE t == "refresher"
<1>1. t \in Threads /\ \A l : Goto(t, l) => pc'[t] = l
  BY DEF IInv, Typed, Threads, Goto
<1>2. OnThrow(t) = "done" /\ OnReturn(t) = "loop"
  BY DEF OnThrow, OnReturn
<1>3. \A l, n : l \in Own(t) => StepsLeft(t, l, n) = Ahead(l)
  BY DEF Own, StepsLeft, Refreshing, Holding
<1>4. Ahead("loop") = 1 /\ Ahead("done") = 0 /\ {"loop", "refresh", "done"} \cup Refreshing = Own(t)
  BY DEF Ahead, Own
<1>5. pc[t] \in Own(t)
  BY <1>1 DEF Places
<1> HIDE DEF t
<1>6. CASE RefreshLoop
  <2>1. i' = i /\ UNCHANGED flags /\ pc[t] = "loop" /\ Goto(t, IF should_refresh THEN "refresh" ELSE "done")
    BY <1>6 DEF RefreshLoop, Moves, At, checks, t
  <2>2. ~should_refresh => StepsLeft(t, pc'[t], i') = 0 /\ StepsLeft(t, pc[t], i) = 1
    BY <1>1, <1>3, <1>4, <2>1
  <2> QED BY <1>4, <2>1, <2>2 DEF ComesNearer, FlagsGoDown, flags, t
<1>7. CASE Refresh(t)
  <2>1. i' = i /\ UNCHANGED flags
    BY <1>1, <1>7, RefreshAhead
  <2>2. CASE UNCHANGED pc
    BY <2>1, <2>2 DEF ComesNearer, FlagsGoDown, flags, t
  <2>3. CASE ~UNCHANGED pc
    <3>1. PICK l : /\ Goto(t, l) /\ Ahead(pc[t]) \in 2..7
                   /\ \/ l \in {"done", "loop"}
                      \/ l \in Refreshing /\ Ahead(l) \in 2..7 /\ Ahead(l) < Ahead(pc[t])
      BY <1>1, <1>2, <1>7, <2>3, RefreshAhead
    <3>2. l \in Own(t) /\ Ahead(l) < Ahead(pc[t])
      BY <1>4, <3>1
    <3>3. StepsLeft(t, pc'[t], i') < StepsLeft(t, pc[t], i)
      BY <1>1, <1>3, <1>5, <3>1, <3>2
    <3> QED BY <2>1, <3>1, <3>2, <3>3 DEF ComesNearer, FlagsGoDown, flags, t
  <2> QED BY <2>2, <2>3
<1> QED BY <1>6, <1>7 DEF Refresher, t

\* How far the checker is from its end, in one round of three tries or less.
LEMMA CheckerBetween ==
  ASSUME NEW n
  PROVE  /\ StepsLeft("checker", "start", n) = 2 /\ StepsLeft("checker", "check", n) = 1
         /\ StepsLeft("checker", "done", n) = 0 /\ StepsLeft("checker", "joining", n) = 1
         /\ StepsLeft("checker", "tries_over", n) = 2 /\ StepsLeft("checker", "lost", n) = 30
<1>1. \A l \in {"start", "tries_over", "check", "joining", "lost", "done"} : Ahead(l) = 0
  BY DEF Ahead
<1>2. ~(0 > 0)
  OBVIOUS
<1>3. StepsLeft("checker", "start", n) = 2 /\ StepsLeft("checker", "tries_over", n) = 2
  BY <1>1, <1>2 DEF StepsLeft
<1>4. StepsLeft("checker", "check", n) = 1 /\ StepsLeft("checker", "joining", n) = 1
  BY <1>1, <1>2 DEF StepsLeft
<1>5. StepsLeft("checker", "lost", n) = 30 /\ StepsLeft("checker", "done", n) = 0
  BY <1>1, <1>2 DEF StepsLeft
<1> QED BY <1>3, <1>4, <1>5

LEMMA CheckerAhead ==
  ASSUME NEW n \in 0..2
  PROVE  /\ StepsLeft("checker", "ping", n) = 30 + 3 * (2 - n) + 3
         /\ StepsLeft("checker", "pinging", n) = 30 + 3 * (2 - n) + 2
         /\ StepsLeft("checker", "ping_failed", n) = 30 + 3 * (2 - n) + 1
         /\ StepsLeft("checker", "dial", n) = 2 + 9 * (2 - n) + 9
         /\ StepsLeft("checker", "new_impl", n) = 2 + 9 * (2 - n) + 8
         /\ StepsLeft("checker", "dialled", n) = 2 + 9 * (2 - n) + 1
         /\ StepsLeft("checker", "dial_failed", n) = 2 + 9 * (2 - n) + 1
         /\ \A l \in {"refresh"} \cup Refreshing :
              Ahead(l) \in 2..7 /\ StepsLeft("checker", l, n) = 2 + 9 * (2 - n) + Ahead(l)
<1>1. Tries - 1 - n = 2 - n
  BY DEF Tries
<1>2. \A l \in {"refresh"} \cup Refreshing :
        Ahead(l) \in 2..7 /\ StepsLeft("checker", l, n) = 2 + 9 * (2 - n) + Ahead(l)
  BY <1>1 DEF StepsLeft, Ahead, Refreshing, Holding
<1> QED BY <1>1, <1>2 DEF StepsLeft, Ahead

\* The checker's steps move the checker alone, with its flag down to its end.
LEMMA CheckerMoves ==
  ASSUME IInv, Beside, Places, Checker
  PROVE  /\ FlagsGoDown
         /\ UNCHANGED pc \/ \E l \in Own("checker") : Goto("checker", l)
         /\ ~should_check => ComesNearer("checker")
<1> DEFINE t == "checker"
           left(l, n) == StepsLeft(t, l, n)
           Result == /\ FlagsGoDown
                     /\ UNCHANGED pc \/ \E l \in Own(t) : Goto(t, l)
                     /\ ~should_check => ComesNearer(t)
<1>1. t \in Threads /\ \A l : Goto(t, l) => pc'[t] = l
  BY DEF IInv, Typed, Threads, Goto
<1>2. pc[t] \in Trying => i \in 0..2
  BY DEF Beside, Tries
<1>3. i \in 0..3
  BY DEF Beside, Tries
<1>4. /\ {"start", "check", "lost", "tries_over", "joining", "done"} \cup Trying = Own(t)
      /\ {"refresh"} \cup Refreshing \subseteq Trying
  BY DEF Own, Trying, Refreshing, Holding
<1>5. ASSUME UNCHANGED <<pc, i, flags>> PROVE Result
  BY <1>5 DEF ComesNearer, FlagsGoDown, flags
<1>6. ASSUME FlagsGoDown, NEW l \in Own(t), Goto(t, l), ~should_check => left(l, i') < left(pc[t], i)
      PROVE  Result
  BY <1>1, <1>6 DEF ComesNearer
<1>7. ASSUME UNCHANGED flags PROVE FlagsGoDown
  BY <1>7 DEF FlagsGoDown, flags
<1>8. ASSUME NEW x, NEW l, x = Begin(t, l) \/ x = Fails(t)
      PROVE  x => i' = i /\ UNCHANGED flags
  BY <1>8 DEF Begin, Fails, Moves, Dies, checks
<1>9. OnThrow(t) = (IF pc[t] \in {"ping", "pinging"} THEN "ping_failed" ELSE "dial_failed")
      /\ OnReturn(t) = "dialled"
  BY DEF OnThrow, OnReturn
<1> HIDE DEF left
<1> SUFFICES Result
  OBVIOUS
<1> HIDE DEF t, Result
<1>10. CASE Refresh(t)
  <2>1. i' = i /\ UNCHANGED flags
    BY <1>1, <1>10, RefreshAhead
  <2>2. CASE UNCHANGED pc
    BY <1>5, <2>1, <2>2
  <2>3. CASE ~UNCHANGED pc
    <3>1. PICK l : /\ Goto(t, l) /\ pc[t] \in {"refresh"} \cup Refreshing
                   /\ \/ l \in {OnThrow(t), OnReturn(t)}
                      \/ l \in Refreshing /\ Ahead(l) < Ahead(pc[t])
      BY <1>1, <1>10, <2>3, RefreshAhead
    <3>2. l \in {"dial_failed", "dialled"} \/ (l \in Refreshing /\ Ahead(l) < Ahead(pc[t]))
      BY <1>9, <3>1 DEF Refreshing, Holding
    <3>3. i \in 0..2 /\ l \in Own(t)
      BY <1>2, <1>4, <3>1, <3>2 DEF Trying
    <3>4. left(l, i) < left(pc[t], i)
      <4>1. Ahead(pc[t]) \in 2..7 /\ left(pc[t], i) = 2 + 9 * (2 - i) + Ahead(pc[t])
        BY <3>1, <3>3, CheckerAhead DEF left, t
      <4>2. CASE l \in {"dial_failed", "dialled"}
        <5>1. left(l, i) = 2 + 9 * (2 - i) + 1
          BY <3>3, <4>2, CheckerAhead DEF left, t
        <5> QED BY <3>3, <4>1, <5>1
      <4>3. CASE l \in Refreshing /\ Ahead(l) < Ahead(pc[t])
        <5>1. Ahead(l) \in 2..7 /\ left(l, i) = 2 + 9 * (2 - i) + Ahead(l)
          BY <3>3, <4>3, CheckerAhead DEF left, t
        <5> QED BY <3>3, <4>1, <4>3, <5>1
      <4> QED BY <3>2, <4>2, <4>3
    <3> QED BY <1>6, <1>7, <2>1, <3>1, <3>3, <3>4
  <2> QED BY <2>2, <2>3
<1>11. CASE BadAddress \/ CheckerJoinsItself
  BY <1>5, <1>11 DEF BadAddress, CheckerJoinsItself, Dies, checks
<1>12. CASE CheckStart
  <2>1. /\ pc[t] = "start" /\ Goto(t, "check") /\ i' = i /\ FlagsGoDown
    BY <1>12 DEF CheckStart, At, checks, FlagsGoDown, t
  <2>2. left("check", i) < left("start", i)
    BY CheckerBetween DEF left, t
  <2> QED BY <1>4, <1>6, <2>1, <2>2
<1>13. CASE Check
  <2>1. /\ pc[t] = "check" /\ Goto(t, IF should_check THEN "ping" ELSE "done") /\ i' = 0
        /\ UNCHANGED flags
    BY <1>13 DEF Check, At, t
  <2>2. left("done", 0) < left("check", i)
    BY CheckerBetween DEF left, t
  <2> QED BY <1>4, <1>6, <1>7, <2>1, <2>2 DEF Trying
<1>14. CASE Ping
  <2>1. /\ pc[t] = "ping" /\ i' = i /\ UNCHANGED flags
        /\ UNCHANGED pc \/ Goto(t, "pinging") \/ Goto(t, "ping_failed")
    BY <1>9, <1>14 DEF Ping, Begin, Moves, Dies, At, checks, t
  <2>2. i \in 0..2
    BY <1>2, <2>1 DEF Trying
  <2>3. left("pinging", i) < left("ping", i) /\ left("ping_failed", i) < left("ping", i)
    BY <2>2, CheckerAhead DEF left, t
  <2> QED BY <1>4, <1>5, <1>6, <1>7, <2>1, <2>3 DEF Trying
<1>15. CASE Pong \/ NoPong
  <2>1. /\ pc[t] = "pinging" /\ i' = i /\ UNCHANGED flags
        /\ UNCHANGED pc \/ Goto(t, "check") \/ Goto(t, "ping_failed")
    BY <1>9, <1>15 DEF Pong, NoPong, Answers, Fails, Dies, At, checks, t
  <2>2. i \in 0..2
    BY <1>2, <2>1 DEF Trying
  <2>3. left("check", i) < left("pinging", i) /\ left("ping_failed", i) < left("pinging", i)
    BY <2>2, CheckerAhead, CheckerBetween DEF left, t
  <2> QED BY <1>4, <1>5, <1>6, <1>7, <2>1, <2>3 DEF Trying
<1>16. CASE PingFailed
  <2>1. /\ pc[t] = "ping_failed" /\ i' = i + 1 /\ UNCHANGED flags
        /\ Goto(t, IF i + 1 < 3 THEN "ping" ELSE "lost")
    BY <1>16 DEF PingFailed, At, Tries, t
  <2>2. i \in 0..2
    BY <1>2, <2>1 DEF Trying
  <2>3. left("ping_failed", i) = 30 + 3 * (2 - i) + 1
    BY <2>2, CheckerAhead DEF left, t
  <2>4. i + 1 < 3 => left("ping", i + 1) < left("ping_failed", i)
    <3>1. i + 1 < 3 => i + 1 \in 0..2
      BY <2>2
    <3>2. i + 1 < 3 => left("ping", i + 1) = 30 + 3 * (2 - (i + 1)) + 3
      BY <3>1, CheckerAhead DEF left, t
    <3> QED BY <2>2, <2>3, <3>2
  <2>5. left("lost", i + 1) < left("ping_failed", i)
    <3>1. left("lost", i + 1) = 30
      BY CheckerBetween DEF left, t
    <3> QED BY <2>2, <2>3, <3>1
  <2> QED BY <1>4, <1>6, <1>7, <2>1, <2>4, <2>5 DEF Trying
<1>17. CASE Lost
  <2>1. pc[t] = "lost" /\ i' = 0 /\ Goto(t, "dial") /\ UNCHANGED flags
    BY <1>17 DEF Lost, At, t
  <2>2. left("dial", 0) = 29 /\ left("lost", i) = 30
    <3>1. left("dial", 0) = 2 + 9 * (2 - 0) + 9
      BY CheckerAhead DEF left, t
    <3>2. left("lost", i) = 30
      BY CheckerBetween DEF left, t
    <3> QED BY <3>1, <3>2
  <2> QED BY <1>4, <1>6, <1>7, <2>1, <2>2 DEF Trying
<1>18. CASE Dialled \/ DialFails \/ NewImpl
  <2>1. /\ i' = i /\ UNCHANGED flags
        /\ \/ pc[t] = "dial" /\ Goto(t, "new_impl")
           \/ pc[t] = "dial" /\ Goto(t, "dial_failed")
           \/ pc[t] = "new_impl" /\ Goto(t, "refresh")
    BY <1>18 DEF Dialled, DialFails, NewImpl, Moves, At, checks, t
  <2>2. i \in 0..2
    BY <1>2, <2>1 DEF Trying
  <2>3. Ahead("refresh") = 7
    BY DEF Ahead
  <2>4. /\ left("new_impl", i) < left("dial", i) /\ left("dial_failed", i) < left("dial", i)
        /\ left("refresh", i) < left("new_impl", i)
    BY <2>2, <2>3, CheckerAhead DEF left, t
  <2> QED BY <1>4, <1>6, <1>7, <2>1, <2>4 DEF Trying
<1>19. CASE NextDial \/ DialFailed
  <2>1. /\ i' = i + 1 /\ UNCHANGED flags /\ Goto(t, AfterDial)
        /\ pc[t] \in {"dialled", "dial_failed"}
    BY <1>19 DEF NextDial, DialFailed, At, t
  <2>2. i \in 0..2
    BY <1>2, <2>1 DEF Trying
  <2>3. left(pc[t], i) = 2 + 9 * (2 - i) + 1
    BY <2>1, <2>2, CheckerAhead DEF left, t
  <2>4. CASE i + 1 < 3
    <3>1. AfterDial = "dial" /\ i + 1 \in 0..2
      BY <2>2, <2>4 DEF AfterDial, Tries
    <3>2. left("dial", i + 1) = 2 + 9 * (2 - (i + 1)) + 9
      BY <3>1, CheckerAhead DEF left, t
    <3>3. left("dial", i + 1) < left(pc[t], i)
      BY <2>2, <2>3, <3>2
    <3> QED BY <1>4, <1>6, <1>7, <2>1, <3>1, <3>3 DEF Trying
  <2>5. CASE ~(i + 1 < 3)
    <3>1. AfterDial = "tries_over"
      BY <2>5 DEF AfterDial, Tries
    <3>2. left("tries_over", i + 1) = 2
      BY CheckerBetween DEF left, t
    <3>3. left("tries_over", i + 1) < left(pc[t], i)
      BY <2>2, <2>3, <3>2
    <3> QED BY <1>4, <1>6, <1>7, <2>1, <3>1, <3>3
  <2> QED BY <2>4, <2>5
<1>20. CASE Reconnected \/ CheckerCloses
  <2>1. /\ pc[t] = "tries_over" /\ i' = i /\ FlagsGoDown
        /\ Goto(t, "check") \/ Goto(t, "joining")
    BY <1>20 DEF Reconnected, CheckerCloses, Moves, At, checks, FlagsGoDown, flags, t
  <2>2. left("check", i) < left("tries_over", i) /\ left("joining", i) < left("tries_over", i)
    BY CheckerBetween DEF left, t
  <2> QED BY <1>4, <1>6, <2>1, <2>2
<1> QED BY <1>10, <1>11, <1>12, <1>13, <1>14, <1>15, <1>16, <1>17, <1>18, <1>19, <1>20
           DEF Checker, t

\* Together: each step moves one thread at most, within its own places, and
\* brings a thread whose flag is down nearer its end.
LEMMA EveryStepMoves ==
  ASSUME IInv, Beside, Places, [Next]_vars
  PROVE  /\ FlagsGoDown
         /\ UNCHANGED pc \/ \E t \in Threads : \E l \in Own(t) : Goto(t, l)
         /\ ~should_refresh => ComesNearer("refresher")
         /\ ~should_check => ComesNearer("checker")
<1>1. /\ "user" \in Threads /\ "refresher" \in Threads /\ "checker" \in Threads
      /\ \A t, u \in Threads : \A l : t # u /\ Goto(t, l) => pc'[u] = pc[u]
  BY DEF IInv, Typed, Goto, Threads
<1>2. \A n : StepsLeft("refresher", pc["refresher"], n) = Ahead(pc["refresher"])
  <2>1. pc["refresher"] \in {"loop", "refresh", "done"} \cup Refreshing
    BY <1>1 DEF Places, Own
  <2> QED BY <2>1 DEF StepsLeft, Refreshing, Holding
<1>3. ASSUME UNCHANGED <<pc, i>>
      PROVE  ComesNearer("refresher") /\ ComesNearer("checker")
  BY <1>3 DEF ComesNearer
<1>4. CASE UserChooses \/ UserContinues
  <2>1. /\ i' = i /\ FlagsGoDown
        /\ UNCHANGED pc \/ \E l \in Own("user") : Goto("user", l)
    BY <1>4, UserMoves
  <2>2. pc'["refresher"] = pc["refresher"] /\ pc'["checker"] = pc["checker"]
    BY <1>1, <2>1
  <2>3. ComesNearer("refresher") /\ ComesNearer("checker")
    BY <2>1, <2>2 DEF ComesNearer
  <2> QED BY <1>1, <2>1, <2>3
<1>5. CASE Refresher
  <2>1. /\ i' = i /\ FlagsGoDown /\ (~should_refresh => ComesNearer("refresher"))
        /\ UNCHANGED pc \/ \E l \in Own("refresher") : Goto("refresher", l)
    BY <1>5, RefresherMoves
  <2>2. pc'["checker"] = pc["checker"]
    BY <1>1, <2>1
  <2>3. ComesNearer("checker")
    BY <2>1, <2>2 DEF ComesNearer
  <2> QED BY <1>1, <2>1, <2>3
<1>6. CASE Checker
  <2>1. /\ FlagsGoDown /\ (~should_check => ComesNearer("checker"))
        /\ UNCHANGED pc \/ \E l \in Own("checker") : Goto("checker", l)
    BY <1>6, CheckerMoves
  <2>2. pc'["refresher"] = pc["refresher"]
    BY <1>1, <2>1
  <2>3. ComesNearer("refresher")
    BY <1>2, <2>2 DEF ComesNearer
  <2> QED BY <1>1, <2>1, <2>3
<1>7. CASE GoesDown \/ ComesUp \/ Reconfigured \/ UNCHANGED vars
  <2>1. UNCHANGED <<pc, i, flags>>
    BY <1>7 DEF GoesDown, ComesUp, Reconfigured, vars, checks
  <2> QED BY <1>3, <2>1 DEF FlagsGoDown, flags
<1> QED BY <1>4, <1>5, <1>6, <1>7 DEF Next

LEMMA PlacesInvariance == Spec => [](IInv /\ Beside /\ Places)
<1>1. Init => Places
  BY DEF Init, Places, Own, Threads
<1>2. IInv /\ Beside /\ Places /\ [Next]_vars => Places'
  <2> SUFFICES ASSUME IInv, Beside, Places, [Next]_vars PROVE Places'
    OBVIOUS
  <2>1. CASE UNCHANGED pc
    BY <2>1 DEF Places
  <2>2. ASSUME NEW t \in Threads, NEW l \in Own(t), Goto(t, l) PROVE Places'
    BY <2>2 DEF Places, Goto, IInv, Typed
  <2> QED BY <2>1, <2>2, EveryStepMoves
<1> QED BY <1>1, <1>2, BesideInvariance, PTL DEF Spec

\* In a set of threads, one waits for none of the others: the holder of lock_,
\* or else the refresher, or else the checker, or else the user.
LEMMA NobodyInACircle ==
  ASSUME IInv, Places
  PROVE  NoCircularWait
<1>1. /\ pc["user"] \in Own("user") /\ pc["checker"] \in Own("checker")
      /\ pc["refresher"] \in Own("refresher")
  BY DEF Places, Threads
<1>2. \A t \in Threads : lock = t => pc[t] \in Holding
  BY DEF IInv, Writing
<1>3. /\ pc["user"] \notin {"joining", "done"} /\ pc["checker"] \notin {"idle", "gone"}
      /\ pc["refresher"] \notin {"idle", "gone", "join_refresher", "joining", "join_checker"}
      /\ pc["checker"] \notin {"join_refresher", "join_checker"}
  BY <1>1 DEF Own, Trying, Refreshing, Holding, Closing, PastRefresher, PastChecker
<1>4. ASSUME NEW t \in Threads, NEW u \in Threads, WaitsFor(t, u)
      PROVE  pc[u] \notin {"done", "idle", "gone"}
  BY <1>2, <1>3, <1>4 DEF WaitsFor, Holding
<1>5. ASSUME NEW S \in (SUBSET Threads) \ {{}}
      PROVE  \E t \in S : \A u \in S : ~WaitsFor(t, u)
  <2>1. CASE lock \in S
    BY <1>2, <2>1 DEF WaitsFor, Holding
  <2>2. CASE lock \notin S
    <3>1. CASE "refresher" \in S
      BY <1>3, <2>2, <3>1 DEF WaitsFor
    <3>2. CASE "refresher" \notin S /\ "checker" \in S
      BY <1>3, <2>2, <3>2 DEF WaitsFor
    <3>3. CASE S = {"user"}
      BY <2>2, <3>3 DEF WaitsFor
    <3> QED BY <3>1, <3>2, <3>3 DEF Threads
  <2> QED BY <2>1, <2>2
<1> QED BY <1>4, <1>5 DEF NoCircularWait

(***************************************************************************)
(* No interleaving of refreshes, re-dials and closes makes the threads     *)
(* wait for each other in a circle, or one wait for a thread that has      *)
(* ended or has gone back to its caller.                                   *)
(***************************************************************************)
THEOREM ThreadsNeverDeadlock == Spec => []NoCircularWait
BY NobodyInACircle, PlacesInvariance, PTL

(***************************************************************************)
(* With its flag down a background thread has a number of steps left that  *)
(* each of its steps reduces, wherever it was when close() was called: the *)
(* safety half of the joins' coming to an end.                             *)
(***************************************************************************)
THEOREM BackgroundThreadsWindDown == Spec => ThreadsWindDown
<1>1. IInv /\ Beside /\ Places /\ [Next]_vars
        => [/\ ~should_refresh => ~should_refresh' /\ ComesNearer("refresher")
            /\ ~should_check => ~should_check' /\ ComesNearer("checker")]_vars
  BY EveryStepMoves DEF FlagsGoDown
<1> QED BY <1>1, PlacesInvariance, PTL DEF Spec, ThreadsWindDown

-----------------------------------------------------------------------------
(* What close() and the destructor leave behind *)

CloseEnded ==
  /\ pc["user"] = "idle" /\ job = "close" =>
       pc["refresher"] = "done" /\ pc["checker"] = "done"
  /\ pc["user"] = "gone" =>
       impl = "null" /\ chan = "closed" /\ attached = {}

\* A thread that has come to its end does nothing any more.
LEMMA TheEnd ==
  ASSUME IInv, Beside
  PROVE  /\ pc["refresher"] = "done" => ~Refresher
         /\ pc["checker"] = "done" => ~Checker
         /\ pc["user"] = "gone" => ~UserChooses /\ ~UserContinues
<1>1. \A t \in Threads : pc[t] \in {"done", "gone"} => ~Refresh(t)
  BY RefreshBeside DEF Refreshing, Holding
<1>2. pc["refresher"] = "done" => ~Refresher
  BY <1>1 DEF Refresher, RefreshLoop, At, Threads
<1>3. pc["checker"] = "done" => ~Checker
  BY <1>1 DEF Checker, CheckStart, Check, Ping, Pong, NoPong, PingFailed, Lost, BadAddress, Dialled,
              DialFails, NewImpl, NextDial, DialFailed, Reconnected, CheckerCloses,
              CheckerJoinsItself, At, Threads
<1>4. pc["user"] = "gone" => ~UserChooses /\ ~UserContinues
  BY <1>1 DEF UserChooses, Calls, UserFrameSystem, ConnectLogging, UserContinues, UserRpc, UserAnswer,
              Unwind, CloseFlags, JoinRefresher, JoinChecker, StopAll, StopAllEnds, CloseThrew,
              CloseEnds, Destroy, At, Threads
<1> QED BY <1>2, <1>3, <1>4

\* What the user is in is for the user's thread alone.
LEMMA RefreshJobs ==
  ASSUME NEW t, Refresh(t)
  PROVE  job' = job
BY DEF Refresh, CallRefresh, RefreshAnswered, RefreshFails, Build, Compared, TakeLock, WriteNames,
       WriteTable, Begin, Answers, Fails, Moves, Dies

LEMMA BackgroundJobs ==
  ASSUME Refresher \/ Checker
  PROVE  job' = job
BY RefreshJobs
   DEF Refresher, RefreshLoop, Checker, CheckStart, Check, Ping, Pong, NoPong, PingFailed, Lost,
       BadAddress, Dialled, DialFails, NewImpl, NextDial, DialFailed, Reconnected, CheckerCloses,
       CheckerJoinsItself, Begin, Answers, Fails, Moves, Dies

\* The user gets back from a close() only past the joins, and is gone only when
\* the destructor has released everything.
LEMMA UserEnds ==
  ASSUME IInv, Beside, CloseEnded, UserChooses \/ UserContinues
  PROVE  /\ pc'["user"] = "idle" /\ job' = "close" =>
              pc["refresher"] = "done" /\ pc["checker"] = "done"
         /\ pc'["user"] = "gone" => impl' = "null" /\ chan' = "closed" /\ attached' = {}
<1> DEFINE Result ==
             /\ pc'["user"] = "idle" /\ job' = "close" =>
                  pc["refresher"] = "done" /\ pc["checker"] = "done"
             /\ pc'["user"] = "gone" => impl' = "null" /\ chan' = "closed" /\ attached' = {}
<1> SUFFICES Result
  OBVIOUS
<1>1. \A l : Goto("user", l) => pc'["user"] = l
  BY DEF IInv, Typed, Goto, Threads
<1>2. pc["user"] # "gone"
  BY TheEnd
<1>3. ASSUME UNCHANGED <<pc, job>> PROVE Result
  BY <1>2, <1>3 DEF CloseEnded
<1>4. ASSUME NEW l, Goto("user", l), l # "gone", l = "idle" => job' # "close" PROVE Result
  BY <1>1, <1>4
<1>5. ASSUME NEW l, Goto("user", l), l # "gone", pc["user"] \in PastChecker PROVE Result
  BY <1>1, <1>5 DEF IInv, Joined, PastRefresher
<1>6. ASSUME pc["user"] \in {"refresh", "rpc", "rpc_wait"} \cup Refreshing
      PROVE  /\ job \in {"ctor", "op"}
             /\ OnThrow("user") \in {"idle", "unwind"} /\ OnReturn("user") = "idle"
  BY <1>6 DEF IInv, Typed, Jobs, OnThrow, OnReturn, Closing, PastRefresher, PastChecker, Refreshing,
              Holding
<1> HIDE DEF Result
<1>7. CASE Refresh("user")
  <2>1. /\ pc["user"] \in {"refresh"} \cup Refreshing
        /\ UNCHANGED pc \/ \E l \in Refreshing \cup {OnThrow("user"), OnReturn("user")} : Goto("user", l)
    BY <1>7, RefreshBeside DEF Threads
  <2>2. job' = job
    BY <1>7, RefreshJobs
  <2>3. "idle" \notin Refreshing /\ "gone" \notin Refreshing
    BY DEF Refreshing, Holding
  <2> QED BY <1>3, <1>4, <1>6, <2>1, <2>2, <2>3
<1>8. CASE UserRpc \/ UserAnswer
  <2>1. /\ pc["user"] \in {"rpc", "rpc_wait"} /\ job' = job
        /\ UNCHANGED pc \/ \E l \in {"rpc_wait", "idle", OnThrow("user")} : Goto("user", l)
    BY <1>8 DEF UserRpc, UserAnswer, Begin, Answers, Fails, Moves, Dies, At
  <2> QED BY <1>3, <1>4, <1>6, <2>1
<1>9. CASE StopAll \/ StopAllEnds
  <2>1. /\ pc["user"] \in {"stop_all", "stopping"} /\ job' = job
        /\ UNCHANGED pc \/ \E l \in {"stopping", "close_channel", OnThrow("user")} : Goto("user", l)
    BY <1>9 DEF StopAll, StopAllEnds, Begin, Answers, Fails, Moves, Dies, At
  <2>2. OnThrow("user") # "gone"
    BY <2>1 DEF IInv, Typed, OnThrow
  <2> QED BY <1>3, <1>5, <2>1, <2>2 DEF PastChecker
<1>10. CASE UserChooses
  <2>1. ASSUME NEW j, NEW l \in {"refresh", "rpc", "close"}, Calls(j, l) PROVE Result
    BY <1>4, <2>1 DEF Calls
  <2>2. CASE UserFrameSystem \/ ConnectLogging
    BY <1>3, <2>2 DEF UserFrameSystem, ConnectLogging, Dies
  <2> QED BY <1>10, <2>1, <2>2 DEF UserChooses
<1>11. CASE Unwind \/ CloseFlags \/ JoinRefresher \/ JoinChecker
  BY <1>4, <1>11 DEF Unwind, CloseFlags, JoinRefresher, JoinChecker, Moves
<1>12. CASE CloseThrew
  BY <1>5, <1>12 DEF CloseThrew, Moves, At, PastChecker
<1>13. CASE CloseEnds
  BY <1>5, <1>13 DEF CloseEnds, Release, At, PastChecker
<1>14. CASE Destroy
  BY <1>1, <1>14 DEF Destroy, Release, Result
<1> QED BY <1>7, <1>8, <1>9, <1>10, <1>11, <1>12, <1>13, <1>14 DEF UserContinues

LEMMA ClosesInvariance == Spec => [](IInv /\ Beside /\ CloseEnded /\ LogsHaveADestination)
<1>1. Init => CloseEnded
  BY DEF Init, CloseEnded, Threads
<1>2. IInv /\ Beside /\ Places /\ CloseEnded /\ [Next]_vars => CloseEnded'
  <2> SUFFICES ASSUME IInv, Beside, Places, CloseEnded, [Next]_vars PROVE CloseEnded'
    OBVIOUS
  <2>1. /\ "user" \in Threads /\ "refresher" \in Threads /\ "checker" \in Threads
        /\ \A t, u \in Threads : \A l : t # u /\ Goto(t, l) => pc'[u] = pc[u]
    BY DEF IInv, Typed, Goto, Threads
  <2>2. CASE UserChooses \/ UserContinues
    <3>1. UNCHANGED pc \/ \E l : Goto("user", l)
      BY <2>2, UserMoves
    <3>2. pc'["refresher"] = pc["refresher"] /\ pc'["checker"] = pc["checker"]
      BY <2>1, <3>1
    <3> QED BY <2>2, <3>2, UserEnds DEF CloseEnded
  <2>3. CASE Refresher
    <3>1. pc["refresher"] # "done" /\ pc["user"] # "gone"
      BY <2>3, TheEnd DEF IInv, Joined, PastRefresher, PastChecker
    <3>2. pc'["user"] = pc["user"] /\ job' = job
      BY <2>1, <2>3, RefresherMoves, BackgroundJobs
    <3> QED BY <3>1, <3>2 DEF CloseEnded
  <2>4. CASE Checker
    <3>1. pc["checker"] # "done" /\ pc["user"] # "gone"
      BY <2>4, TheEnd DEF IInv, Joined, PastRefresher, PastChecker
    <3>2. pc'["user"] = pc["user"] /\ job' = job
      BY <2>1, <2>4, CheckerMoves, BackgroundJobs
    <3> QED BY <3>1, <3>2 DEF CloseEnded
  <2>5. CASE GoesDown \/ ComesUp \/ Reconfigured \/ UNCHANGED vars
    BY <2>5 DEF GoesDown, ComesUp, Reconfigured, vars, conn, data, CloseEnded
  <2> QED BY <2>2, <2>3, <2>4, <2>5 DEF Next
<1> QED BY <1>1, <1>2, BesideInvariance, PlacesInvariance, PTL DEF Spec

(***************************************************************************)
(* Whichever way a close() ended, and whatever the two threads were doing  *)
(* when it was called, it leaves no thread and no held lock behind, and    *)
(* the destructor no connection, no client on one and no sink.             *)
(***************************************************************************)
THEOREM ClosesLeaveNothing == Spec => []CloseLeavesNothing
<1>1. IInv /\ Beside /\ CloseEnded /\ LogsHaveADestination => CloseLeavesNothing
  <2> SUFFICES ASSUME IInv, Beside, CloseEnded, LogsHaveADestination PROVE CloseLeavesNothing
    OBVIOUS
  <2>1. ASSUME pc["user"] \in {"idle", "gone"}, pc["refresher"] = "done", pc["checker"] = "done"
        PROVE  lock = NoThread
    BY <2>1 DEF IInv, Typed, Writing, Holding, Threads
  <2>2. pc["user"] = "gone" => pc["refresher"] = "done" /\ pc["checker"] = "done"
    BY DEF CloseEnded, IInv, Quiet
  <2> QED BY <2>1, <2>2 DEF CloseLeavesNothing, CloseEnded, LogsHaveADestination
<1> QED BY <1>1, ClosesInvariance, PTL

-----------------------------------------------------------------------------
(***************************************************************************)
(* RobotClient implements MachineView: an answer is asked for where        *)
(* ResourceNames has answered, applied where resource_names_ is written,   *)
(* dropped where the comparison makes refresh() return, and everything     *)
(* else is a stutter but the reset of impl_ and what the machine does.     *)
(***************************************************************************)
Busy == {"build", "wait_lock", "write_names"}

\* A step that leaves alone what the view is made of.
LEMMA OutOfView ==
  ASSUME IInv, NEW t \in Threads, NEW l, Goto(t, l), l \notin Busy, pc[t] \notin Busy,
         UNCHANGED <<machine, names>>, impl' = "null" <=> impl = "null",
         \A u \in Threads \ {t} : got'[u] = got[u]
  PROVE  UNCHANGED View!vars
<1>1. \A u \in Threads : HeldAnswers[u] = HeldAnswers'[u]
  BY DEF HeldAnswers, Busy, Goto, IInv, Typed
<1>2. HeldAnswers' = HeldAnswers
  BY <1>1 DEF HeldAnswers
<1>3. ReportedBy(names)' = ReportedBy(names) /\ (impl = "null")' = (impl = "null")
  BY DEF ReportedBy, short_name
<1> QED BY <1>2, <1>3 DEF View!vars

LEMMA StillView ==
  ASSUME UNCHANGED <<machine, names, got, impl, pc>>
  PROVE  UNCHANGED View!vars
BY DEF View!vars, HeldAnswers, ReportedBy, short_name

\* The calls of client_helper outside refresh().
LEMMA RpcView ==
  ASSUME IInv, NEW t \in Threads, NEW label, Begin(t, label) \/ Answers(t, label) \/ Fails(t),
         pc[t] \notin Busy, label \notin Busy, OnThrow(t) \notin Busy, got' = got
  PROVE  UNCHANGED View!vars
<1>1. UNCHANGED <<machine, names, impl>>
  BY DEF Begin, Answers, Fails, Moves, Dies, world, conn, data
<1>2. UNCHANGED pc \/ Goto(t, label) \/ Goto(t, OnThrow(t))
  BY DEF Begin, Answers, Fails, Moves, Dies
<1> QED BY <1>1, <1>2, OutOfView, StillView

LEMMA ExitsNotBusy ==
  ASSUME IInv, NEW t \in Threads
  PROVE  OnThrow(t) \notin Busy /\ OnReturn(t) \notin Busy
BY DEF IInv, Typed, OnThrow, OnReturn, Threads, Busy

\* What a refresh() does to the view.
LEMMA RefreshView ==
  ASSUME IInv, Reported, NEW t \in Threads, Refresh(t)
  PROVE  View!Ask(t) \/ View!Apply(t) \/ View!Drop(t) \/ UNCHANGED View!vars
<1> DEFINE H == HeldAnswers
<1>1. /\ \A l : Goto(t, l) => pc'[t] = l /\ \A u \in Threads \ {t} : pc'[u] = pc[u]
      /\ H = [u \in Threads |-> IF pc[u] \in Busy THEN {got[u]} ELSE {}]
      /\ H' = [u \in Threads |-> IF pc'[u] \in Busy THEN {got'[u]} ELSE {}]
  BY DEF IInv, Typed, Goto, HeldAnswers, Busy
<1>2. OnThrow(t) \notin Busy /\ OnReturn(t) \notin Busy
  BY ExitsNotBusy
<1>3. names' = names => ReportedBy(names)' = ReportedBy(names)
  BY DEF ReportedBy, short_name
<1>4. pc[t] \in Refreshing => impl # "null"
  BY DEF IInv, Quiet, Threads, Refreshing, Holding
<1> HIDE DEF H
<1>5. CASE CallRefresh(t)
  <2>1. pc[t] = "refresh" /\ Begin(t, "refreshing") /\ got' = got
    BY <1>5 DEF CallRefresh, At, Begin, Moves, Dies
  <2> QED BY <1>2, <2>1, RpcView DEF Busy
<1>6. CASE RefreshAnswered(t)
  <2>1. /\ pc[t] = "refreshing" /\ Goto(t, "build") /\ got' = [got EXCEPT ![t] = machine]
        /\ UNCHANGED <<machine, names, impl>>
    BY <1>6 DEF RefreshAnswered, Answers, At, world, data
  <2>2. impl # "null"
    BY <1>4, <2>1 DEF Refreshing
  <2>3. H[t] = {} /\ H' = [H EXCEPT ![t] = {machine}]
    BY <1>1, <2>1 DEF IInv, Typed, Busy
  <2> QED BY <1>3, <2>1, <2>2, <2>3 DEF View!Ask, H
<1>7. CASE RefreshFails(t)
  <2>1. pc[t] = "refreshing" /\ Fails(t) /\ got' = got
    BY <1>7 DEF RefreshFails, Fails, Dies, At
  <2> QED BY <1>2, <2>1, RpcView DEF Busy
<1>8. CASE Build(t)
  <2>1. pc[t] = "build"
    BY <1>8 DEF Build, At
  <2>2. ASSUME NEW how, Dies(how) PROVE UNCHANGED View!vars
    BY <2>2, StillView DEF Dies, world, conn, data
  <2>3. ASSUME Compared(t, FALSE) PROVE UNCHANGED View!vars
    <3>1. Goto(t, "wait_lock") /\ got' = got /\ UNCHANGED <<machine, names, impl>>
      BY <2>3 DEF Compared, world, conn
    <3>2. H' = H
      BY <1>1, <2>1, <3>1 DEF Busy
    <3> QED BY <1>3, <3>1, <3>2 DEF View!vars, H
  <2>4. ASSUME Compared(t, TRUE), SameNames(got[t]) \/ Racing(t) PROVE View!Drop(t)
    <3>1. /\ Goto(t, OnReturn(t)) /\ got' = [got EXCEPT ![t] = {}]
          /\ UNCHANGED <<machine, names, impl>>
      BY <2>4 DEF Compared, world, conn
    <3>2. H' = [H EXCEPT ![t] = {}]
      <4>1. pc'[t] \notin Busy
        BY <1>1, <1>2, <3>1
      <4>2. \A u \in Threads \ {t} : pc'[u] = pc[u] /\ got'[u] = got[u]
        BY <1>1, <3>1 DEF IInv, Typed
      <4> QED BY <1>1, <4>1, <4>2
    <3>3. CASE SameNames(got[t])
      <4>1. got[t] \in Lists \cup {{}} /\ names = NamesOf(got[t])
        BY <3>3 DEF SameNames, IInv, Typed
      <4>2. H[t] = {ReportedBy(names)}
        BY <1>1, <2>1, <4>1, NamesDetermineAnswer DEF Busy
      <4> QED BY <1>3, <3>1, <3>2, <4>2 DEF View!Drop, H
    <3>4. CASE Racing(t)
      <4>1. PICK u \in Threads \ {t} : pc[u] = "write_names"
        BY <3>4 DEF Racing
      <4>2. H[u] # {}
        BY <1>1, <4>1 DEF Busy
      <4> QED BY <1>3, <3>1, <3>2, <4>1, <4>2 DEF View!Drop, H
    <3> QED BY <2>4, <3>3, <3>4
  <2>5. \/ \E how : Dies(how)
        \/ Compared(t, FALSE)
        \/ Compared(t, TRUE) /\ (SameNames(got[t]) \/ Racing(t))
    <3>1. SameNames(got[t]) \in BOOLEAN
      BY DEF SameNames
    <3> QED BY <1>8, <3>1 DEF Build
  <2> QED BY <2>2, <2>3, <2>4, <2>5
<1>9. CASE TakeLock(t)
  <2>1. /\ pc[t] = "wait_lock" /\ Goto(t, "write_names") /\ got' = got
        /\ UNCHANGED <<machine, names, impl>>
    BY <1>9 DEF TakeLock, At, world, conn
  <2>2. H' = H
    BY <1>1, <2>1 DEF Busy
  <2> QED BY <1>3, <2>1, <2>2 DEF View!vars, H
<1>10. CASE WriteNames(t)
  <2>1. /\ pc[t] = "write_names" /\ Goto(t, "write_table") /\ got' = got
        /\ names' = NamesOf(got[t]) /\ UNCHANGED <<machine, impl>>
    BY <1>10 DEF WriteNames, At, world, conn
  <2>2. impl # "null"
    BY <1>4, <2>1 DEF Refreshing, Holding
  <2>3. H[t] = {got[t]} /\ H' = [H EXCEPT ![t] = {}]
    <3>1. pc[t] \in Busy /\ pc'[t] \notin Busy
      BY <1>1, <2>1 DEF Busy
    <3>2. \A u \in Threads \ {t} : pc'[u] = pc[u] /\ got'[u] = got[u]
      BY <1>1, <2>1
    <3> QED BY <1>1, <3>1, <3>2
  <2>4. ReportedBy(names)' = ReportedBy(NamesOf(got[t]))
    BY <2>1 DEF ReportedBy, short_name
  <2>5. ReportedBy(NamesOf(got[t])) = got[t]
    BY NamesDetermineAnswer DEF IInv, Typed
  <2>6. ReportedBy(names)' \in H[t]
    BY <2>3, <2>4, <2>5
  <2> QED BY <2>1, <2>2, <2>3, <2>6 DEF View!Apply, H
<1>11. CASE WriteTable(t)
  <2>1. /\ pc[t] = "write_table" /\ Goto(t, OnReturn(t)) /\ UNCHANGED <<machine, names, impl>>
        /\ \A u \in Threads \ {t} : got'[u] = got[u]
    BY <1>11 DEF WriteTable, At, world, conn, IInv, Typed
  <2> QED BY <1>2, <2>1, OutOfView DEF Busy
<1> QED BY <1>5, <1>6, <1>7, <1>8, <1>9, <1>10, <1>11 DEF Refresh

\* The rest of check_connection() and of refresh_every() is out of view.
LEMMA BackgroundView ==
  ASSUME IInv, Reported, Refresher \/ Checker
  PROVE  \/ \E t \in Threads : View!Ask(t) \/ View!Apply(t) \/ View!Drop(t)
         \/ UNCHANGED View!vars
<1>1. "refresher" \in Threads /\ "checker" \in Threads
  BY DEF Threads
<1>2. CASE Refresh("refresher") \/ Refresh("checker")
  BY <1>1, <1>2, RefreshView
<1>3. CASE RefreshLoop
  <2>1. /\ pc["refresher"] = "loop" /\ UNCHANGED <<machine, names, got, impl>>
        /\ \E l \in {"refresh", "done"} : Goto("refresher", l)
    BY <1>3 DEF RefreshLoop, Moves, At, world, conn, data
  <2> QED BY <1>1, <2>1, OutOfView DEF Busy
<1>4. CASE BadAddress \/ CheckerJoinsItself
  BY <1>4, StillView DEF BadAddress, CheckerJoinsItself, Dies, world, conn, data
<1>5. CASE Ping \/ Pong \/ NoPong
  <2>1. /\ pc["checker"] \in {"ping", "pinging"} /\ got' = got
        /\ \E l \in {"pinging", "check"} :
             Begin("checker", l) \/ Answers("checker", l) \/ Fails("checker")
    BY <1>5 DEF Ping, Pong, NoPong, Begin, Fails, Moves, Dies, At
  <2> QED BY <1>1, <2>1, RpcView, ExitsNotBusy DEF Busy
<1>6. ASSUME NEW l \in {"check", "ping", "done", "lost", "dial", "new_impl", "refresh", "dial_failed",
                        "tries_over", "joining"},
             Goto("checker", l), UNCHANGED <<machine, names, got>>, impl' = "null" <=> impl = "null",
             pc["checker"] \in {"start", "check", "ping_failed", "lost", "dial", "new_impl", "dialled",
                                "dial_failed", "tries_over"}
      PROVE  UNCHANGED View!vars
  BY <1>1, <1>6, OutOfView DEF Busy
<1>7. CASE CheckStart \/ Check \/ PingFailed \/ DialFails \/ NextDial \/ Reconnected \/ CheckerCloses
  <2>1. UNCHANGED <<machine, names, got, impl>>
    BY <1>7 DEF CheckStart, Check, PingFailed, DialFails, NextDial, Reconnected, CheckerCloses, Moves,
                world, conn, data
  <2> QED BY <1>6, <1>7, <2>1 DEF CheckStart, Check, PingFailed, DialFails, NextDial, AfterDial,
                                 Reconnected, CheckerCloses, Moves, At
<1>8. CASE Lost \/ Dialled \/ DialFailed
  <2>1. UNCHANGED <<machine, names, got>> /\ (impl' = "null" <=> impl = "null")
    BY <1>8 DEF Lost, Dialled, DialFailed, Disconnects, world
  <2> QED BY <1>6, <1>8, <2>1 DEF Lost, Dialled, DialFailed, AfterDial, At
<1>9. CASE NewImpl
  <2>1. pc["checker"] # "done"
    BY <1>9 DEF NewImpl, At
  <2>2. impl # "null" /\ impl' # "null" /\ UNCHANGED <<machine, names, got>>
    BY <1>9, <2>1 DEF NewImpl, IInv, Quiet, world, data
  <2> QED BY <1>6, <1>9, <2>2 DEF NewImpl, At
<1> QED BY <1>2, <1>3, <1>4, <1>5, <1>7, <1>8, <1>9 DEF Refresher, Checker

\* So is what the user does, but for the reset of impl_.
LEMMA UserView ==
  ASSUME IInv, Reported, UserChooses \/ UserContinues
  PROVE  \/ \E t \in Threads : View!Ask(t) \/ View!Apply(t) \/ View!Drop(t)
         \/ View!Close
         \/ UNCHANGED View!vars
<1>1. "user" \in Threads
  BY DEF Threads
<1>2. CASE Refresh("user")
  BY <1>1, <1>2, RefreshView
<1>3. CASE UserRpc \/ UserAnswer \/ StopAll \/ StopAllEnds
  <2>1. /\ pc["user"] \in {"rpc", "rpc_wait", "stop_all", "stopping"} /\ got' = got
        /\ \E l \in {"rpc_wait", "idle", "stopping", "close_channel"} :
             Begin("user", l) \/ Answers("user", l) \/ Fails("user")
    BY <1>3 DEF UserRpc, UserAnswer, StopAll, StopAllEnds, Begin, Fails, Moves, Dies, At
  <2> QED BY <1>1, <2>1, RpcView, ExitsNotBusy DEF Busy
<1>4. CASE UserFrameSystem \/ ConnectLogging
  BY <1>4, StillView DEF UserFrameSystem, ConnectLogging, Dies, world, conn, data
<1>5. ASSUME NEW l \in {"refresh", "rpc", "close", "join_refresher", "join_checker", "stop_all", "idle"},
             Goto("user", l), UNCHANGED <<machine, names, got, impl>>,
             pc["user"] \in {"idle", "unwind", "close", "join_refresher", "join_checker", "close_threw"}
      PROVE  UNCHANGED View!vars
  BY <1>1, <1>5, OutOfView DEF Busy
<1>6. ASSUME NEW j, NEW l \in {"refresh", "rpc", "close"}, Calls(j, l)
      PROVE  UNCHANGED View!vars
  BY <1>5, <1>6 DEF Calls, At, conn, data
<1>7. CASE Unwind \/ CloseFlags \/ JoinRefresher \/ JoinChecker \/ CloseThrew
  <2>1. UNCHANGED <<machine, names, got, impl>>
    BY <1>7 DEF Unwind, CloseFlags, JoinRefresher, JoinChecker, CloseThrew, Moves, world, conn, data
  <2> QED BY <1>5, <1>7, <2>1 DEF Unwind, CloseFlags, JoinRefresher, JoinChecker, CloseThrew, Moves, At
\* The two threads are done, and the user thread is not refreshing.
<1>8. CASE CloseEnds \/ Destroy
  <2>1. PICK l \in {"idle", "destroy", "gone"} :
          /\ pc["user"] \in {"close_channel", "destroy"} /\ Goto("user", l)
          /\ impl' = "null" /\ UNCHANGED <<machine, names, got>>
    BY <1>8 DEF CloseEnds, Destroy, Release, At, world
  <2>2. \A t \in Threads : pc[t] \notin Busy /\ pc'[t] \notin Busy
    BY <1>1, <2>1 DEF IInv, Typed, Joined, Goto, PastRefresher, PastChecker, Threads, Busy
  <2>3. HeldAnswers = [t \in Threads |-> {}] /\ HeldAnswers' = [t \in Threads |-> {}]
    BY <2>2 DEF HeldAnswers, Busy
  <2>4. ReportedBy(names)' = ReportedBy(names)
    BY <2>1 DEF ReportedBy, short_name
  <2> QED BY <2>1, <2>3, <2>4 DEF View!Close
<1> QED BY <1>2, <1>3, <1>4, <1>6, <1>7, <1>8 DEF UserChooses, UserContinues

(***************************************************************************)
(* For any number of refreshes in any order: what the client shows is a    *)
(* list the machine reported, exchanged as a whole, and no answer is left  *)
(* out without reason or applied after the end.                            *)
(***************************************************************************)
THEOREM ClientFollowsMachine == Spec => FollowsMachine
<1>1. Init => View!Init
  <2> SUFFICES ASSUME Init PROVE View!Init
    OBVIOUS
  <2>1. ReportedBy(names) = {}
    BY DEF Init, ReportedBy
  <2>2. HeldAnswers = [t \in Threads |-> {}]
    BY DEF Init, HeldAnswers, Threads
  <2>3. machine \in Lists /\ (impl = "null") = FALSE
    BY DEF Init
  <2> QED BY <2>1, <2>2, <2>3 DEF View!Init
<1>2. IInv /\ Reported /\ [Next]_vars => [View!Next]_(View!vars)
  <2> SUFFICES ASSUME IInv, Reported, [Next]_vars PROVE [View!Next]_(View!vars)
    OBVIOUS
  <2>1. CASE UserChooses \/ UserContinues \/ Refresher \/ Checker
    BY <2>1, UserView, BackgroundView DEF View!Next
  <2>2. CASE GoesDown \/ ComesUp \/ UNCHANGED vars
    BY <2>2, StillView DEF GoesDown, ComesUp, vars, world, conn, data
  <2>3. CASE Reconfigured
    <3>1. machine' \in Lists \ {machine} /\ UNCHANGED <<names, got, pc, impl>>
      BY <2>3 DEF Reconfigured, conn, data
    <3>2. UNCHANGED <<HeldAnswers, ReportedBy(names), impl = "null">>
      BY <3>1 DEF HeldAnswers, ReportedBy, short_name
    <3> QED BY <3>1, <3>2 DEF View!Changes, View!Next
  <2> QED BY <2>1, <2>2, <2>3 DEF Next
<1> QED BY <1>1, <1>2, BesideInvariance, PTL DEF Spec, FollowsMachine, View!Spec
=============================================================================
