--------------------- MODULE ResourceManagerStepsProofs ---------------------
(***************************************************************************)
(* ResourceManagerSteps implements ResourceManager, for every set of       *)
(* Names, Resources and Threads.                                           *)
(*                                                                         *)
(* The inductive invariant says, for every place in an operation, what the *)
(* two maps are in terms of what they were when lock_ was taken: the table *)
(* from which a do_add starts (Start), a table in which only the shortcut  *)
(* has been added, a do_remove that has not seen all the candidates for    *)
(* the shortcut (Restoring), a replace_all that has added some of its      *)
(* entries (Loading).  What has been reached at the return is what the     *)
(* operation promises (Result).                                            *)
(***************************************************************************)
EXTENDS ResourceManagerSteps, TLAPS

-----------------------------------------------------------------------------
(* The operators of the two modules are the same *)

\* What the two modules ask of a name and of a table.
LEMMA SameTests ==
  /\ \A n : Abstract!short_name(n) = short_name(n)
  /\ \A n : Abstract!IsEmptyName(n) <=> IsEmptyName(n)
  /\ \A t, k : Abstract!AddThrows(t, k) <=> AddThrows(t, k)
  /\ \A t, k : Abstract!RemoveThrows(t, k) <=> RemoveThrows(t, k)
  BY DEF short_name, Abstract!short_name, IsEmptyName, Abstract!IsEmptyName,
         AddThrows, Abstract!AddThrows, RemoveThrows, Abstract!RemoveThrows

\* What they make of a table by an add ...
LEMMA SameAdd == \A t, k, r : Abstract!do_add(t, k, r) = do_add(t, k, r)
  BY DEF do_add, Abstract!do_add, Emplace, Abstract!Emplace,
         get_shortcut_name, Abstract!get_shortcut_name

\* ... by a removal ...
LEMMA SameRemove == \A t, k : Abstract!do_remove(t, k) = do_remove(t, k)
<1>1. \A f, k, v : Abstract!Emplace(f, k, v) = Emplace(f, k, v)
  BY DEF Emplace, Abstract!Emplace
<1>2. \A k : Abstract!get_shortcut_name(k) = get_shortcut_name(k)
  BY DEF get_shortcut_name, Abstract!get_shortcut_name
<1>3. \A f, k : Abstract!Erase(f, k) = Erase(f, k)
  BY DEF Erase, Abstract!Erase, Restrict, Abstract!Restrict
<1>4. \A t, k : Abstract!Heirs(t, k) = Heirs(t, k)
  BY <1>2 DEF Heirs, Abstract!Heirs
<1>5. QED
  BY <1>1, <1>2, <1>3, <1>4 DEF do_remove, Abstract!do_remove

\* ... and by a replacement.
LEMMA SameReplaceAll == \A f : Abstract!replace_all(f) = replace_all(f)
  BY DEF replace_all, Abstract!replace_all, Loadable, Abstract!Loadable,
         Stuck, Abstract!Stuck, FirstChoices, Abstract!FirstChoices,
         get_shortcut_name, Abstract!get_shortcut_name,
         short_name, Abstract!short_name, IsEmptyName, Abstract!IsEmptyName

-----------------------------------------------------------------------------
(* The loop of replace_all *)

KeysOf(S) == {short_name(n) : n \in S}

\* The tables the loop can have made once it has added the entries of S.
Loading(new, S) ==
  {[resources   |-> [k \in KeysOf(S) |-> new[CHOOSE n \in S : short_name(n) = k]],
    short_names |-> f] : f \in FirstChoices(KeysOf(S))}

\* The shortcut kept by the key that came first is again such a choice.
LEMMA NextChoice ==
  ASSUME NEW K, NEW k, k \notin K, NEW f \in FirstChoices(K),
         NEW c, c = get_shortcut_name(k)
  PROVE  (IF c # k THEN Emplace(f, c, k) ELSE f) \in FirstChoices(K \cup {k})
<1> DEFINE L     == K \cup {k}
           R(X)  == {x \in X : get_shortcut_name(x) # x}
           C(X)  == {get_shortcut_name(x) : x \in R(X)}
           g     == IF c # k THEN Emplace(f, c, k) ELSE f
<1>1. f \in [C(K) -> R(K)] /\ \A s \in C(K) : get_shortcut_name(f[s]) = s
  BY DEF FirstChoices
<1>2. CASE c = k
  <2>1. R(L) = R(K)
    BY <1>2
  <2>2. C(L) = C(K)
    BY <2>1
  <2>3. g = f
    BY <1>2
  <2>4. g \in [C(L) -> R(L)] /\ \A s \in C(L) : get_shortcut_name(g[s]) = s
    BY <1>1, <2>1, <2>2, <2>3
  <2>5. QED
    BY <2>4 DEF FirstChoices
<1>3. CASE c # k
  <2>1. R(L) = R(K) \cup {k}
    BY <1>3
  <2>2. C(L) = C(K) \cup {c}
    BY <2>1
  <2>3. g = [x \in C(K) \cup {c} |-> IF x \in C(K) THEN f[x] ELSE k]
    BY <1>1, <1>3 DEF Emplace
  <2>4. g \in [C(L) -> R(L)]
    <3> HIDE DEF R, C, g
    <3>1. QED
      BY <1>1, <2>1, <2>2, <2>3
  <2>5. \A s \in C(L) : get_shortcut_name(g[s]) = s
    <3> HIDE DEF R, C, g
    <3>1. QED
      BY <1>1, <2>2, <2>3
  <2>6. QED
    BY <2>4, <2>5 DEF FirstChoices
<1>4. QED
  BY <1>2, <1>3

\* do_add of an entry that does not throw takes the loop one entry further.
LEMMA LoadOneMore ==
  ASSUME NEW S, Loadable(S), NEW n, n \notin S, ~IsEmptyName(n),
         short_name(n) \notin KeysOf(S),
         NEW new, NEW u \in Loading(new, S)
  PROVE  /\ Loadable(S \cup {n})
         /\ do_add(u, short_name(n), new[n]) \in Loading(new, S \cup {n})
<1> DEFINE T == S \cup {n}
           k == short_name(n)
           c == get_shortcut_name(k)
           v == do_add(u, k, new[n])
<1>1. Loadable(T)
  BY DEF Loadable, KeysOf
<1>2. KeysOf(T) = KeysOf(S) \cup {k}
  BY DEF KeysOf
<1>3. PICK f \in FirstChoices(KeysOf(S)) :
        u = [resources   |-> [x \in KeysOf(S) |-> new[CHOOSE m \in S : short_name(m) = x]],
             short_names |-> f]
  BY DEF Loading
<1>4. v = [resources   |-> Emplace(u.resources, k, new[n]),
           short_names |-> IF c # k THEN Emplace(f, c, k) ELSE f]
  BY <1>3 DEF do_add
<1>5. v.short_names \in FirstChoices(KeysOf(T))
  <2>1. (IF c # k THEN Emplace(f, c, k) ELSE f) \in FirstChoices(KeysOf(S) \cup {k})
    <3> HIDE DEF k, T, v
    <3>1. k \notin KeysOf(S)
      BY DEF k
    <3>2. QED
      BY <3>1, NextChoice
  <2>2. QED
    BY <1>2, <1>4, <2>1
<1>6. ASSUME NEW x \in KeysOf(T)
      PROVE  (CHOOSE m \in T : short_name(m) = x) =
               IF x = k THEN n ELSE (CHOOSE m \in S : short_name(m) = x)
  <2> DEFINE d == CHOOSE m \in T : short_name(m) = x
             e == CHOOSE m \in S : short_name(m) = x
  <2>1. d \in T /\ short_name(d) = x
    <3>1. \E m \in T : short_name(m) = x
      BY DEF KeysOf
    <3>2. QED
      BY <3>1
  <2>2. CASE x = k
    BY <1>1, <2>1, <2>2 DEF Loadable
  <2>3. CASE x # k
    <3>1. \E m \in S : short_name(m) = x
      BY <2>3 DEF KeysOf
    <3>2. e \in S /\ short_name(e) = x
      BY <3>1
    <3>3. d = e
      BY <1>1, <2>1, <3>2 DEF Loadable
    <3>4. QED
      BY <2>3, <3>3
  <2>4. QED
    BY <2>2, <2>3
<1>7. v.resources = [x \in KeysOf(T) |-> new[CHOOSE m \in T : short_name(m) = x]]
  <2> DEFINE pick(x) == CHOOSE m \in S : short_name(m) = x
             last(x) == CHOOSE m \in T : short_name(m) = x
  <2>1. v.resources = [x \in KeysOf(S) \cup {k} |->
                         IF x \in KeysOf(S) THEN new[pick(x)] ELSE new[n]]
    <3> HIDE DEF pick
    <3>1. u.resources = [x \in KeysOf(S) |-> new[pick(x)]]
      BY <1>3 DEF pick
    <3>2. QED
      BY <1>4, <3>1 DEF Emplace
  <2>2. \A x \in KeysOf(T) :
          new[last(x)] = IF x \in KeysOf(S) THEN new[pick(x)] ELSE new[n]
    <3> HIDE DEF pick, last
    <3>1. \A x \in KeysOf(T) : last(x) = IF x = k THEN n ELSE pick(x)
      BY <1>6 DEF pick, last
    <3>2. QED
      BY <1>2, <3>1
  <2>3. QED
    <3> HIDE DEF pick, last, v, T
    <3>1. v.resources = [x \in KeysOf(T) |-> new[last(x)]]
      BY <1>2, <2>1, <2>2
    <3>2. QED
      BY <3>1 DEF last
<1>8. QED
  <2> HIDE DEF T, k
  <2>1. v = [resources   |-> [x \in KeysOf(T) |-> new[CHOOSE m \in T : short_name(m) = x]],
             short_names |-> v.short_names]
    BY <1>4, <1>7
  <2>2. v \in Loading(new, T)
    BY <1>5, <2>1 DEF Loading
  <2>3. QED
    BY <1>1, <2>2 DEF T, k

\* Where the loop ends, through or stuck, the table is one of replace_all's.
LEMMA LoopEnds ==
  ASSUME NEW new, NEW S \in SUBSET DOMAIN new, Loadable(S),
         S = DOMAIN new \/ Stuck(S, DOMAIN new),
         NEW u \in Loading(new, S)
  PROVE  u \in replace_all(new)
<1> DEFINE made(a) == Loading(new, a)
           ends    == {a \in SUBSET DOMAIN new :
                         Loadable(a) /\ (a = DOMAIN new \/ Stuck(a, DOMAIN new))}
<1>1. replace_all(new) = UNION {made(a) : a \in ends}
  BY Zenon DEF replace_all, Loading, KeysOf
<1>2. S \in ends
  OBVIOUS
<1> HIDE DEF made, ends
<1>3. u \in made(S)
  BY DEF made
<1>4. QED
  BY <1>1, <1>2, <1>3

\* Nothing has been added to the two emptied maps.
LEMMA LoopStarts ==
  ASSUME NEW new
  PROVE  Loadable({}) /\ EmptyTable \in Loading(new, {})
<1>1. Loadable({})
  BY DEF Loadable
<1>2. KeysOf({}) = {}
  BY DEF KeysOf
<1>3. << >> \in FirstChoices({})
  BY DEF FirstChoices
<1>4. EmptyTable = [resources   |-> [k \in {} |-> new[CHOOSE n \in {} : short_name(n) = k]],
                    short_names |-> << >>]
  BY DEF EmptyTable
<1>5. QED
  BY <1>1, <1>2, <1>3, <1>4 DEF Loading

-----------------------------------------------------------------------------
(* The loop of do_remove *)

\* The shortcuts while the loop of do_remove(key) has still to look at left.
Restoring(t, k, names, left) ==
  LET c == get_shortcut_name(k)
  IN  \/ names = Erase(t.short_names, c) /\ Heirs(t, k) \subseteq left
      \/ \E h \in Heirs(t, k) : names = Emplace(Erase(t.short_names, c), c, h)

\* A round of the loop.
LEMMA RestoreOne ==
  ASSUME NEW t, NEW k, NEW names, NEW left, Restoring(t, k, names, left),
         NEW r \in left, r \in DOMAIN t.resources \ {k}
  PROVE  Restoring(t, k,
                   IF /\ get_shortcut_name(k) = get_shortcut_name(r)
                      /\ k # get_shortcut_name(r)
                   THEN Emplace(names, get_shortcut_name(r), r) ELSE names,
                   left \ {r})
<1> DEFINE c  == get_shortcut_name(k)
           e  == Erase(t.short_names, c)
           is == get_shortcut_name(k) = get_shortcut_name(r) /\ k # get_shortcut_name(r)
           after == IF is THEN Emplace(names, get_shortcut_name(r), r) ELSE names
<1>1. is <=> r \in Heirs(t, k)
  BY DEF Heirs
<1>2. CASE names = e /\ Heirs(t, k) \subseteq left
  <2>1. CASE is
    BY <1>1, <1>2, <2>1 DEF Restoring
  <2>2. CASE ~is
    BY <1>1, <1>2, <2>2 DEF Restoring
  <2>3. QED
    BY <2>1, <2>2
<1>3. CASE \E h \in Heirs(t, k) : names = Emplace(e, c, h)
  <2>1. PICK h \in Heirs(t, k) : names = Emplace(e, c, h)
    BY <1>3
  <2>2. is => Emplace(names, c, r) = names
    BY <2>1 DEF Emplace
  <2>3. after = names
    BY <2>2
  <2>4. QED
    BY <2>1, <2>3 DEF Restoring
<1>4. QED
  BY <1>2, <1>3 DEF Restoring

\* Where the loop has looked at everything, the table is one of do_remove's.
LEMMA RestoreEnds ==
  ASSUME NEW t, NEW k, NEW names, Restoring(t, k, names, {})
  PROVE  [resources |-> Erase(t.resources, k), short_names |-> names] \in do_remove(t, k)
  BY DEF Restoring, do_remove

\* A table without the key: an add of the key after its removal cannot throw.
LEMMA RemovedIsGone ==
  ASSUME NEW t, NEW k, NEW u \in do_remove(t, k)
  PROVE  k \notin DOMAIN u.resources
<1>1. u.resources = Erase(t.resources, k)
  BY DEF do_remove
<1>2. QED
  BY <1>1 DEF Erase, Restrict

-----------------------------------------------------------------------------
(* The inductive invariant *)

Labels ==
  {"idle", "name", "check", "shortcut", "insert", "find", "erase",
   "erase shortcut", "restore", "construct", "clear resources",
   "clear short names", "next", "look up", "look up shortcut", "return", "threw"}

Typed ==
  /\ pc \in [Threads -> Labels]
  /\ lock \in Threads \cup {NoThread}
  /\ op \in [Threads -> Operations \cup {[kind |-> "none"]}]
  /\ DOMAIN key = Threads /\ DOMAIN res = Threads
  /\ DOMAIN todo = Threads /\ DOMAIN answer = Threads

\* The names whose entries the loop of replace_all has added, or is adding.
Reached(t) == DOMAIN op[t].new \ todo[t]

\* do_add starts from the table u.
Start(t, u) ==
  \/ Is(t, {"add", "add_string"}) /\ u = before /\ res[t] \in Resources
  \/ /\ Is(t, {"replace_one"}) /\ res[t] \in Resources
     /\ key[t] \in DOMAIN before.resources
     /\ u \in do_remove(before, key[t])
  \/ /\ Is(t, {"replace_all"})
     /\ todo[t] \subseteq DOMAIN op[t].new
     /\ \E n \in Reached(t) :
          /\ ~IsEmptyName(n) /\ key[t] = short_name(n) /\ res[t] = op[t].new[n]
          /\ Loadable(Reached(t) \ {n}) /\ u \in Loading(op[t].new, Reached(t) \ {n})

\* The key is that of the operation, which has passed the test of its name.
Named(t) ==
  /\ Is(t, {"add"}) => ~IsEmptyName(op[t].name)
  /\ Is(t, {"replace_one"}) => ~IsEmptyName(op[t].name)

Keyed(t) ==
  /\ Is(t, {"add", "remove", "replace_one"}) => key[t] = short_name(op[t].name)
  /\ Is(t, {"add", "add_string"}) => res[t] = op[t].res
  /\ Is(t, {"add_string", "resource"}) => key[t] = op[t].key

\* What the operation promises of the table it leaves.
Result(t, threw) ==
  LET b == before
      k == key[t]
  IN  \/ /\ Is(t, {"add"})
         /\ IF IsEmptyName(op[t].name) \/ AddThrows(b, k)
            THEN working = b ELSE working = do_add(b, k, res[t])
      \/ /\ Is(t, {"add_string"})
         /\ threw = AddThrows(b, k)
         /\ IF threw THEN working = b ELSE working = do_add(b, k, res[t])
      \/ /\ Is(t, {"remove"})
         /\ IF RemoveThrows(b, k) THEN working = b ELSE working \in do_remove(b, k)
      \/ /\ Is(t, {"replace_one"})
         /\ \E r \in Resources \cup {NoResource} :
              IF RemoveThrows(b, k) THEN working = b
              ELSE \E u \in do_remove(b, k) :
                     working = IF r = NoResource \/ IsEmptyName(op[t].name)
                               THEN u ELSE do_add(u, k, r)
      \/ Is(t, {"replace_all"}) /\ working \in replace_all(op[t].new)
      \/ Is(t, {"resource"}) /\ working = b

Adding == {"add", "add_string", "replace_one", "replace_all"}

\* Where a thread is, and what the two maps are when it is there.
Progress(t) ==
  /\ pc[t] = "name" =>
       /\ Is(t, {"add", "replace_one"}) /\ Start(t, working)
  /\ pc[t] = "check" =>
       /\ Is(t, Adding) /\ Named(t) /\ Start(t, working)
  /\ pc[t] = "shortcut" =>
       /\ Is(t, Adding) /\ Named(t) /\ Start(t, working)
       /\ key[t] \notin DOMAIN resources
  /\ pc[t] = "insert" =>
       /\ Is(t, Adding) /\ Named(t)
       /\ \E u : /\ Start(t, u) /\ key[t] \notin DOMAIN u.resources
                 /\ resources = u.resources
                 /\ short_names = do_add(u, key[t], res[t]).short_names
  /\ pc[t] = "find" =>
       Is(t, {"remove", "replace_one"}) /\ working = before
  /\ pc[t] = "erase" =>
       /\ Is(t, {"remove", "replace_one"}) /\ working = before
       /\ key[t] \in DOMAIN before.resources
  /\ pc[t] = "erase shortcut" =>
       /\ Is(t, {"remove", "replace_one"})
       /\ key[t] \in DOMAIN before.resources
       /\ resources = Erase(before.resources, key[t])
       /\ short_names = before.short_names
  /\ pc[t] = "restore" =>
       /\ Is(t, {"remove", "replace_one"})
       /\ key[t] \in DOMAIN before.resources
       /\ resources = Erase(before.resources, key[t])
       /\ todo[t] \subseteq DOMAIN resources
       /\ Restoring(before, key[t], short_names, todo[t])
  /\ pc[t] = "construct" =>
       /\ Is(t, {"replace_one"})
       /\ key[t] \in DOMAIN before.resources
       /\ working \in do_remove(before, key[t])
  /\ pc[t] = "clear resources" => Is(t, {"replace_all"})
  /\ pc[t] = "clear short names" => Is(t, {"replace_all"}) /\ resources = << >>
  /\ pc[t] = "next" =>
       /\ Is(t, {"replace_all"})
       /\ todo[t] \subseteq DOMAIN op[t].new
       /\ Loadable(Reached(t)) /\ working \in Loading(op[t].new, Reached(t))
  /\ pc[t] \in {"look up", "look up shortcut"} =>
       Is(t, {"resource"}) /\ working = before
  /\ pc[t] = "look up shortcut" => key[t] \notin DOMAIN resources
  /\ pc[t] = "return" =>
       /\ Result(t, FALSE)
       /\ Is(t, {"resource"}) => answer[t] = resource(before, key[t])
  /\ pc[t] = "threw" => Result(t, TRUE) /\ ~Is(t, {"resource"})

IInv ==
  /\ Typed
  /\ \A t \in Threads : pc[t] # "idle" <=> lock = t
  /\ \A t \in Threads : pc[t] # "idle" => op[t] \in Operations /\ Keyed(t) /\ Progress(t)

-----------------------------------------------------------------------------
(* Every step keeps it *)

\* The operations have the arguments their handlers use.
LEMMA OperationFields ==
  ASSUME NEW o \in Operations
  PROVE  /\ o.kind \in {"add", "add_string", "remove", "replace_one", "replace_all", "resource"}
         /\ o.kind \in {"add", "remove", "replace_one"} => o.name \in Names
         /\ o.kind \in {"add", "add_string"} => o.res \in Resources
         /\ o.kind \in {"add_string", "resource"} => o.key \in UsedKeys
         /\ o.kind = "replace_all" =>
              \E batch \in SUBSET Names : o.new \in [batch -> Resources]
  BY DEF Operations, Batches

\* The thread that is in an operation is the one that holds the lock.
LEMMA Inside ==
  ASSUME IInv, NEW t \in Threads, pc[t] # "idle"
  PROVE  /\ lock = t /\ op[t] \in Operations /\ Keyed(t) /\ Progress(t)
         /\ \A u \in Threads \ {t} : pc[u] = "idle"
  BY DEF IInv

\* A step inside an operation leaves the other threads where they are, so that
\* only what it says of its own thread matters.
LEMMA InsideStep ==
  ASSUME IInv, NEW t \in Threads, pc[t] # "idle",
         NEW l \in Labels \ {"idle"}, Goto(t, l), lock' = lock, op' = op,
         DOMAIN key' = Threads, DOMAIN res' = Threads,
         DOMAIN todo' = Threads, DOMAIN answer' = Threads,
         Keyed(t)', Progress(t)'
  PROVE  IInv'
<1>1. /\ lock = t /\ op[t] \in Operations
      /\ \A u \in Threads \ {t} : pc[u] = "idle"
  BY Inside
<1>2. /\ pc' \in [Threads -> Labels] /\ pc'[t] = l
      /\ \A u \in Threads \ {t} : pc'[u] = "idle"
  BY <1>1 DEF IInv, Typed, Goto
<1>3. Typed'
  BY <1>2 DEF IInv, Typed
<1>4. \A u \in Threads : pc'[u] # "idle" <=> lock' = u
  BY <1>1, <1>2
<1>5. QED
  BY <1>1, <1>2, <1>3, <1>4 DEF IInv

\* The steps of do_add.
LEMMA AddStep ==
  ASSUME IInv, NEW t \in Threads, Adds(t)
  PROVE  IInv'
<1>1. CASE AddName(t)
  <2>1. /\ pc[t] = "name" /\ Goto(t, IF IsEmptyName(op[t].name) THEN "threw" ELSE "check")
        /\ UNCHANGED <<maps, lock, todo, op, key, res, answer, before>>
    BY <1>1 DEF AddName, CheckName, At, SameFrame, Observers
  <2>2. Keyed(t) /\ Is(t, {"add", "replace_one"}) /\ Start(t, working)
    BY <2>1, Inside DEF Progress
  <2>3. CASE IsEmptyName(op[t].name)
    <3>1. pc'[t] = "threw"
      BY <2>1, <2>3 DEF Goto, IInv, Typed
    <3>2. Result(t, TRUE)
      <4>1. CASE Is(t, {"add"})
        BY <2>2, <2>3, <4>1 DEF Start, Result, Is
      <4>2. CASE Is(t, {"replace_one"})
        BY <2>2, <2>3, <4>2 DEF Start, Result, Is, RemoveThrows
      <4>3. QED
        BY <2>2, <4>1, <4>2 DEF Is
    <3>3. Result(t, TRUE)' /\ Keyed(t)'
      BY <2>1, <2>2, <3>2 DEF Result, Keyed, Is, maps, working
    <3>4. Progress(t)'
      BY <2>1, <2>2, <3>1, <3>3 DEF Progress, Is
    <3>5. QED
      BY <2>1, <2>3, <3>3, <3>4, InsideStep DEF Labels, IInv, Typed
  <2>4. CASE ~IsEmptyName(op[t].name)
    <3>1. pc'[t] = "check"
      BY <2>1, <2>4 DEF Goto, IInv, Typed
    <3>2. Named(t) /\ Is(t, Adding)
      BY <2>2, <2>4 DEF Named, Is, Adding
    <3>3. (Named(t) /\ Is(t, Adding) /\ Start(t, working) /\ Keyed(t))'
      BY <2>1, <2>2, <3>2 DEF Named, Is, Start, Reached, Keyed, maps, working
    <3>4. Progress(t)'
      BY <3>1, <3>3 DEF Progress
    <3>5. QED
      BY <2>1, <2>4, <3>3, <3>4, InsideStep DEF Labels, IInv, Typed
  <2>5. QED
    BY <2>3, <2>4
<1>2. CASE AddCheck(t)
  <2>1. /\ pc[t] = "check"
        /\ Goto(t, IF key[t] \in DOMAIN resources THEN "threw" ELSE "shortcut")
        /\ UNCHANGED <<maps, lock, todo, op, key, res, answer, before>>
    BY <1>2 DEF AddCheck, At, SameFrame, Observers
  <2>2. Keyed(t) /\ Is(t, Adding) /\ Named(t) /\ Start(t, working)
    BY <2>1, Inside DEF Progress
  <2>3. CASE key[t] \in DOMAIN resources
    <3>1. pc'[t] = "threw"
      BY <2>1, <2>3 DEF Goto, IInv, Typed
    <3>2. key[t] \in DOMAIN working.resources
      BY <2>3 DEF working
    <3>3. Result(t, TRUE)
      <4>1. CASE Is(t, {"add"})
        BY <2>2, <3>2, <4>1 DEF Start, Result, Is, AddThrows
      <4>2. CASE Is(t, {"add_string"})
        BY <2>2, <3>2, <4>2 DEF Start, Result, Is, AddThrows
      <4>3. CASE Is(t, {"replace_one"})
        BY <2>2, <3>2, <4>3, RemovedIsGone DEF Start, Is
      <4>4. CASE Is(t, {"replace_all"})
        <5>1. PICK n \in Reached(t) :
                /\ key[t] = short_name(n)
                /\ Loadable(Reached(t) \ {n})
                /\ working \in Loading(op[t].new, Reached(t) \ {n})
          BY <2>2, <4>4 DEF Start, Is
        <5>2. DOMAIN working.resources = KeysOf(Reached(t) \ {n})
          BY <5>1 DEF Loading
        <5>3. Stuck(Reached(t) \ {n}, DOMAIN op[t].new)
          BY <3>2, <5>1, <5>2 DEF Stuck, KeysOf, Reached
        <5>4. Reached(t) \ {n} \in SUBSET DOMAIN op[t].new
          BY DEF Reached
        <5>5. working \in replace_all(op[t].new)
          BY <5>1, <5>3, <5>4, LoopEnds
        <5>6. QED
          BY <4>4, <5>5 DEF Result
      <4>5. QED
        BY <2>2, <4>1, <4>2, <4>3, <4>4 DEF Is, Adding
    <3>4. Result(t, TRUE)' /\ Keyed(t)'
      BY <2>1, <2>2, <3>3 DEF Result, Keyed, Is, maps, working
    <3>5. Progress(t)'
      BY <2>1, <2>2, <3>1, <3>4 DEF Progress, Is, Adding
    <3>6. QED
      BY <2>1, <2>3, <3>4, <3>5, InsideStep DEF Labels, IInv, Typed
  <2>4. CASE key[t] \notin DOMAIN resources
    <3>1. pc'[t] = "shortcut"
      BY <2>1, <2>4 DEF Goto, IInv, Typed
    <3>2. (Named(t) /\ Is(t, Adding) /\ Start(t, working) /\ Keyed(t))'
      BY <2>1, <2>2 DEF Named, Is, Start, Reached, Keyed, maps, working
    <3>3. Progress(t)'
      BY <2>1, <2>4, <3>1, <3>2 DEF Progress, maps
    <3>4. QED
      BY <2>1, <2>4, <3>2, <3>3, InsideStep DEF Labels, IInv, Typed
  <2>5. QED
    BY <2>3, <2>4
<1>3. CASE AddShortcut(t)
  <2>1. /\ pc[t] = "shortcut" /\ Goto(t, "insert")
        /\ short_names' = IF get_shortcut_name(key[t]) # key[t]
                          THEN Emplace(short_names, get_shortcut_name(key[t]), key[t])
                          ELSE short_names
        /\ UNCHANGED <<resources, lock, todo, op, key, res, answer, before>>
    BY <1>3 DEF AddShortcut, At, SameFrame, Observers
  <2>2. /\ Keyed(t) /\ Is(t, Adding) /\ Named(t) /\ Start(t, working)
        /\ key[t] \notin DOMAIN resources
    BY <2>1, Inside DEF Progress
  <2>3. pc'[t] = "insert"
    BY <2>1 DEF Goto, IInv, Typed
  <2>4. /\ key'[t] \notin DOMAIN working.resources
        /\ resources' = working.resources
        /\ short_names' = do_add(working, key'[t], res'[t]).short_names
    BY <2>1, <2>2 DEF working, do_add
  <2>5. (Named(t) /\ Is(t, Adding) /\ Keyed(t))'
    BY <2>1, <2>2 DEF Named, Is, Keyed
  <2>6. ASSUME NEW u, Start(t, u)
        PROVE  Start(t, u)'
    BY <2>1, <2>6 DEF Start, Is, Reached
  <2>7. Progress(t)'
    <3>1. (\E u : /\ Start(t, u) /\ key[t] \notin DOMAIN u.resources
                 /\ resources = u.resources
                 /\ short_names = do_add(u, key[t], res[t]).short_names)'
      <4> DEFINE w == working
      <4>1. Start(t, w)
        BY <2>2
      <4> HIDE DEF w
      <4>2. PICK u : u = w
        OBVIOUS
      <4>3. QED
        BY <2>4, <2>6, <4>1, <4>2 DEF w
    <3>2. QED
      BY <2>3, <2>5, <3>1 DEF Progress
  <2>8. QED
    BY <2>1, <2>5, <2>7, InsideStep DEF Labels, IInv, Typed
<1>4. CASE AddInsert(t)
  <2>1. /\ pc[t] = "insert"
        /\ Goto(t, IF Is(t, {"replace_all"}) THEN "next" ELSE "return")
        /\ resources' = Emplace(resources, key[t], res[t])
        /\ UNCHANGED <<short_names, lock, todo, op, key, res, answer, before>>
    BY <1>4 DEF AddInsert, At, SameFrame, Observers
  <2>2. Keyed(t) /\ Is(t, Adding) /\ Named(t)
    BY <2>1, Inside DEF Progress
  <2>3. PICK u : /\ Start(t, u) /\ key[t] \notin DOMAIN u.resources
                 /\ resources = u.resources
                 /\ short_names = do_add(u, key[t], res[t]).short_names
    BY <2>1, Inside DEF Progress
  <2>4. working' = do_add(u, key[t], res[t])
    BY <2>1, <2>3 DEF working, do_add
  <2>5. Keyed(t)'
    BY <2>1, <2>2 DEF Keyed, Is
  <2>6. CASE Is(t, {"replace_all"})
    <3>1. PICK n \in Reached(t) :
            /\ ~IsEmptyName(n) /\ key[t] = short_name(n) /\ res[t] = op[t].new[n]
            /\ Loadable(Reached(t) \ {n}) /\ u \in Loading(op[t].new, Reached(t) \ {n})
            /\ todo[t] \subseteq DOMAIN op[t].new
      BY <2>3, <2>6 DEF Start, Is
    <3>2. short_name(n) \notin KeysOf(Reached(t) \ {n})
      BY <2>3, <3>1 DEF Loading
    <3>3. (Reached(t) \ {n}) \cup {n} = Reached(t)
      OBVIOUS
    <3>4. /\ Loadable((Reached(t) \ {n}) \cup {n})
          /\ do_add(u, short_name(n), op[t].new[n])
               \in Loading(op[t].new, (Reached(t) \ {n}) \cup {n})
      BY <3>1, <3>2, LoadOneMore
    <3>5. Loadable(Reached(t)) /\ working' \in Loading(op[t].new, Reached(t))
      BY <2>4, <3>1, <3>3, <3>4
    <3>6. pc'[t] = "next"
      BY <2>1, <2>6 DEF Goto, IInv, Typed
    <3>7. Progress(t)'
      BY <2>1, <2>6, <3>1, <3>5, <3>6 DEF Progress, Is, Reached
    <3>8. QED
      BY <2>1, <2>5, <2>6, <3>7, InsideStep DEF Labels, IInv, Typed
  <2>7. CASE ~Is(t, {"replace_all"})
    <3>1. pc'[t] = "return"
      BY <2>1, <2>7 DEF Goto, IInv, Typed
    <3>2. Result(t, FALSE)'
      <4>1. CASE Is(t, {"add"})
        <5>1. u = before
          BY <2>3, <4>1 DEF Start, Is
        <5>2. ~IsEmptyName(op[t].name) /\ ~AddThrows(before, key[t])
          BY <2>2, <2>3, <4>1, <5>1 DEF Named, AddThrows
        <5>3. QED
          BY <2>1, <2>4, <4>1, <5>1, <5>2 DEF Result, Is
      <4>2. CASE Is(t, {"add_string"})
        <5>1. u = before
          BY <2>3, <4>2 DEF Start, Is
        <5>2. ~AddThrows(before, key[t])
          BY <2>3, <5>1 DEF AddThrows
        <5>3. QED
          BY <2>1, <2>4, <4>2, <5>1, <5>2 DEF Result, Is
      <4>3. CASE Is(t, {"replace_one"})
        <5>1. /\ res[t] \in Resources /\ u \in do_remove(before, key[t])
              /\ ~RemoveThrows(before, key[t])
          BY <2>3, <4>3 DEF Start, Is, RemoveThrows
        <5>2. ~IsEmptyName(op[t].name) /\ res[t] # NoResource
          BY <2>2, <4>3, <5>1, ResourcesAssumption DEF Named
        <5>3. QED
          BY <2>1, <2>4, <4>3, <5>1, <5>2 DEF Result, Is
      <4>4. QED
        BY <2>2, <2>7, <4>1, <4>2, <4>3 DEF Is, Adding
    <3>3. Progress(t)'
      BY <2>1, <2>2, <3>1, <3>2 DEF Progress, Is, Adding
    <3>4. QED
      BY <2>1, <2>5, <2>7, <3>3, InsideStep DEF Labels, IInv, Typed
  <2>8. QED
    BY <2>6, <2>7
<1>5. QED
  BY <1>1, <1>2, <1>3, <1>4 DEF Adds

\* The steps of do_remove and the constructor of replace_one.
LEMMA RemoveStep ==
  ASSUME IInv, NEW t \in Threads, Removes(t)
  PROVE  IInv'
<1>1. CASE RemoveFind(t)
  <2>1. /\ pc[t] = "find"
        /\ Goto(t, IF key[t] \in DOMAIN resources THEN "erase" ELSE "threw")
        /\ UNCHANGED <<maps, lock, todo, op, key, res, answer, before>>
    BY <1>1 DEF RemoveFind, At, SameFrame, Observers
  <2>2. Keyed(t) /\ Is(t, {"remove", "replace_one"}) /\ working = before
    BY <2>1, Inside DEF Progress
  <2>3. (Keyed(t) /\ Is(t, {"remove", "replace_one"}) /\ working = before)'
    BY <2>1, <2>2 DEF Keyed, Is, working, maps
  <2>4. CASE key[t] \in DOMAIN resources
    <3>1. pc'[t] = "erase"
      BY <2>1, <2>4 DEF Goto, IInv, Typed
    <3>2. key'[t] \in DOMAIN before'.resources
      BY <2>1, <2>2, <2>4 DEF working
    <3>3. Progress(t)'
      BY <2>3, <3>1, <3>2 DEF Progress
    <3>4. QED
      BY <2>1, <2>3, <2>4, <3>3, InsideStep DEF Labels, IInv, Typed
  <2>5. CASE key[t] \notin DOMAIN resources
    <3>1. pc'[t] = "threw"
      BY <2>1, <2>5 DEF Goto, IInv, Typed
    <3>2. RemoveThrows(before', key'[t])
      BY <2>1, <2>2, <2>5 DEF working, RemoveThrows
    <3>3. Result(t, TRUE)'
      BY <2>3, <3>2 DEF Result, Is
    <3>4. Progress(t)'
      BY <2>3, <3>1, <3>3 DEF Progress, Is
    <3>5. QED
      BY <2>1, <2>3, <2>5, <3>4, InsideStep DEF Labels, IInv, Typed
  <2>6. QED
    BY <2>4, <2>5
<1>2. CASE RemoveErase(t)
  <2>1. /\ pc[t] = "erase" /\ Goto(t, "erase shortcut")
        /\ resources' = Erase(resources, key[t])
        /\ UNCHANGED <<short_names, lock, todo, op, key, res, answer, before>>
    BY <1>2 DEF RemoveErase, At, SameFrame, Observers
  <2>2. /\ Keyed(t) /\ Is(t, {"remove", "replace_one"}) /\ working = before
        /\ key[t] \in DOMAIN before.resources
    BY <2>1, Inside DEF Progress
  <2>3. resources = before.resources /\ short_names = before.short_names
    BY <2>2 DEF working
  <2>4. pc'[t] = "erase shortcut"
    BY <2>1 DEF Goto, IInv, Typed
  <2>5. Keyed(t)' /\ Progress(t)'
    BY <2>1, <2>2, <2>3, <2>4 DEF Progress, Keyed, Is
  <2>6. QED
    BY <2>1, <2>5, InsideStep DEF Labels, IInv, Typed
<1>3. CASE RemoveShortcut(t)
  <2>1. /\ pc[t] = "erase shortcut" /\ Goto(t, "restore")
        /\ short_names' = Erase(short_names, get_shortcut_name(key[t]))
        /\ todo' = [todo EXCEPT ![t] = DOMAIN resources]
        /\ UNCHANGED <<resources, lock, op, key, res, answer, before>>
    BY <1>3 DEF RemoveShortcut, At, SameFrame, Observers
  <2>2. /\ Keyed(t) /\ Is(t, {"remove", "replace_one"})
        /\ key[t] \in DOMAIN before.resources
        /\ resources = Erase(before.resources, key[t])
        /\ short_names = before.short_names
    BY <2>1, Inside DEF Progress
  <2>3. pc'[t] = "restore" /\ todo'[t] = DOMAIN resources /\ DOMAIN todo' = Threads
    BY <2>1 DEF Goto, IInv, Typed
  <2>4. Heirs(before, key[t]) \subseteq DOMAIN resources
    BY <2>2 DEF Heirs, Erase, Restrict
  <2>5. Restoring(before, key[t], short_names', todo'[t])
    BY <2>1, <2>2, <2>3, <2>4 DEF Restoring
  <2>6. Keyed(t)' /\ Progress(t)'
    BY <2>1, <2>2, <2>3, <2>5 DEF Progress, Keyed, Is
  <2>7. QED
    BY <2>1, <2>3, <2>6, InsideStep DEF Labels, IInv, Typed
<1>4. ASSUME NEW k \in todo[t], Restore(t, k)
      PROVE  IInv'
  <2>1. /\ pc[t] = "restore" /\ pc' = pc
        /\ todo' = [todo EXCEPT ![t] = @ \ {k}]
        /\ short_names' = IF /\ get_shortcut_name(key[t]) = get_shortcut_name(k)
                             /\ key[t] # get_shortcut_name(k)
                          THEN Emplace(short_names, get_shortcut_name(k), k)
                          ELSE short_names
        /\ UNCHANGED <<resources, lock, op, key, res, answer, before>>
    BY <1>4 DEF Restore, At, SameFrame, Observers
  <2>2. /\ Keyed(t) /\ Is(t, {"remove", "replace_one"})
        /\ key[t] \in DOMAIN before.resources
        /\ resources = Erase(before.resources, key[t])
        /\ todo[t] \subseteq DOMAIN resources
        /\ Restoring(before, key[t], short_names, todo[t])
    BY <2>1, Inside DEF Progress
  <2>3. /\ Goto(t, "restore") /\ todo'[t] = todo[t] \ {k} /\ DOMAIN todo' = Threads
        /\ pc'[t] = "restore"
    BY <2>1 DEF Goto, IInv, Typed
  <2>4. k \in DOMAIN before.resources \ {key[t]}
    BY <2>2 DEF Erase, Restrict
  <2>5. Restoring(before, key[t], short_names', todo'[t])
    BY <2>1, <2>2, <2>3, <2>4, RestoreOne
  <2>6. Keyed(t)' /\ Progress(t)'
    BY <2>1, <2>2, <2>3, <2>5 DEF Progress, Keyed, Is
  <2>7. QED
    BY <2>1, <2>3, <2>6, InsideStep DEF Labels, IInv, Typed
<1>5. CASE Restored(t)
  <2>1. /\ pc[t] = "restore" /\ todo[t] = {}
        /\ Goto(t, IF Is(t, {"remove"}) THEN "return" ELSE "construct")
        /\ UNCHANGED <<maps, lock, todo, op, key, res, answer, before>>
    BY <1>5 DEF Restored, At, SameFrame, Observers
  <2>2. /\ Keyed(t) /\ Is(t, {"remove", "replace_one"})
        /\ key[t] \in DOMAIN before.resources
        /\ resources = Erase(before.resources, key[t])
        /\ Restoring(before, key[t], short_names, {})
    BY <2>1, Inside DEF Progress
  <2>3. working \in do_remove(before, key[t])
    BY <2>2, RestoreEnds DEF working
  <2>4. (Keyed(t) /\ Is(t, {"remove", "replace_one"})
          /\ key[t] \in DOMAIN before.resources /\ working \in do_remove(before, key[t]))'
    BY <2>1, <2>2, <2>3 DEF Keyed, Is, working, maps
  <2>5. CASE Is(t, {"remove"})
    <3>1. pc'[t] = "return"
      BY <2>1, <2>5 DEF Goto, IInv, Typed
    <3>2. Result(t, FALSE)'
      BY <2>1, <2>4, <2>5 DEF Result, Is, RemoveThrows
    <3>3. Progress(t)'
      BY <2>4, <3>1, <3>2 DEF Progress, Is
    <3>4. QED
      BY <2>1, <2>4, <2>5, <3>3, InsideStep DEF Labels, IInv, Typed
  <2>6. CASE ~Is(t, {"remove"})
    <3>1. pc'[t] = "construct"
      BY <2>1, <2>6 DEF Goto, IInv, Typed
    <3>2. Is(t, {"replace_one"})'
      BY <2>1, <2>2, <2>6 DEF Is
    <3>3. Progress(t)'
      BY <2>4, <3>1, <3>2 DEF Progress
    <3>4. QED
      BY <2>1, <2>4, <2>6, <3>3, InsideStep DEF Labels, IInv, Typed
  <2>7. QED
    BY <2>5, <2>6
<1>6. CASE Construct(t)
  <2>1. /\ pc[t] = "construct"
        /\ UNCHANGED <<maps, lock, todo, op, key, answer, before>>
        /\ \/ \E r \in Resources : res' = [res EXCEPT ![t] = r] /\ Goto(t, "name")
           \/ Goto(t, "threw") /\ UNCHANGED res
    BY <1>6 DEF Construct, At, Observers
  <2>2. /\ Keyed(t) /\ Is(t, {"replace_one"})
        /\ key[t] \in DOMAIN before.resources
        /\ working \in do_remove(before, key[t])
    BY <2>1, Inside DEF Progress
  <2>3. (/\ Keyed(t) /\ Is(t, {"replace_one"})
         /\ key[t] \in DOMAIN before.resources
         /\ working \in do_remove(before, key[t]))'
    BY <2>1, <2>2 DEF Keyed, Is, working, maps
  <2>4. CASE Goto(t, "threw") /\ UNCHANGED res
    <3>1. pc'[t] = "threw"
      BY <2>4 DEF Goto, IInv, Typed
    <3>2. Result(t, TRUE)'
      BY <2>3 DEF Result, Is, RemoveThrows
    <3>3. Progress(t)'
      BY <2>3, <3>1, <3>2 DEF Progress, Is
    <3>4. QED
      BY <2>1, <2>3, <2>4, <3>3, InsideStep DEF Labels, IInv, Typed
  <2>5. ASSUME NEW r \in Resources, res' = [res EXCEPT ![t] = r], Goto(t, "name")
        PROVE  IInv'
    <3>1. pc'[t] = "name" /\ res'[t] = r /\ DOMAIN res' = Threads
      BY <2>5 DEF Goto, IInv, Typed
    <3>2. Start(t, working)'
      BY <2>3, <3>1 DEF Start
    <3>3. Progress(t)'
      BY <2>3, <3>1, <3>2 DEF Progress, Is
    <3>4. QED
      BY <2>1, <2>3, <2>5, <3>1, <3>3, InsideStep DEF Labels, IInv, Typed
  <2>6. QED
    BY <2>1, <2>4, <2>5
<1>7. QED
  BY <1>1, <1>2, <1>3, <1>4, <1>5, <1>6 DEF Removes

\* The steps of replace_all around its do_adds.
LEMMA ReplaceStep ==
  ASSUME IInv, NEW t \in Threads, Replaces(t)
  PROVE  IInv'
<1>1. CASE ClearResources(t)
  <2>1. /\ pc[t] = "clear resources" /\ Goto(t, "clear short names")
        /\ resources' = << >>
        /\ UNCHANGED <<short_names, lock, todo, op, key, res, answer, before>>
    BY <1>1 DEF ClearResources, At, SameFrame, Observers
  <2>2. Keyed(t) /\ Is(t, {"replace_all"})
    BY <2>1, Inside DEF Progress
  <2>3. pc'[t] = "clear short names"
    BY <2>1 DEF Goto, IInv, Typed
  <2>4. Keyed(t)' /\ Progress(t)'
    BY <2>1, <2>2, <2>3 DEF Progress, Keyed, Is
  <2>5. QED
    BY <2>1, <2>4, InsideStep DEF Labels, IInv, Typed
<1>2. CASE ClearShortNames(t)
  <2>1. /\ pc[t] = "clear short names" /\ Goto(t, "next")
        /\ short_names' = << >>
        /\ todo' = [todo EXCEPT ![t] = DOMAIN op[t].new]
        /\ UNCHANGED <<resources, lock, op, key, res, answer, before>>
    BY <1>2 DEF ClearShortNames, At, SameFrame, Observers
  <2>2. Keyed(t) /\ Is(t, {"replace_all"}) /\ resources = << >>
    BY <2>1, Inside DEF Progress
  <2>3. /\ pc'[t] = "next" /\ DOMAIN todo' = Threads
        /\ todo'[t] = DOMAIN op'[t].new /\ Reached(t)' = {}
    BY <2>1 DEF Goto, IInv, Typed, Reached
  <2>4. working' = EmptyTable
    BY <2>1, <2>2 DEF working, EmptyTable
  <2>5. Loadable(Reached(t)') /\ working' \in Loading(op'[t].new, Reached(t)')
    BY <2>3, <2>4, LoopStarts
  <2>6. (Keyed(t) /\ Is(t, {"replace_all"}))'
    BY <2>1, <2>2 DEF Keyed, Is
  <2>7. Progress(t)'
    BY <2>3, <2>5, <2>6 DEF Progress
  <2>8. QED
    BY <2>1, <2>3, <2>6, <2>7, InsideStep DEF Labels, IInv, Typed
<1>3. ASSUME NEW n \in todo[t], NextEntry(t, n)
      PROVE  IInv'
  <2>1. /\ pc[t] = "next"
        /\ Goto(t, IF IsEmptyName(n) THEN "threw" ELSE "check")
        /\ todo' = [todo EXCEPT ![t] = @ \ {n}]
        /\ key' = [key EXCEPT ![t] = short_name(n)]
        /\ res' = [res EXCEPT ![t] = op[t].new[n]]
        /\ UNCHANGED <<maps, lock, op, answer, before>>
    BY <1>3 DEF NextEntry, At, Argument, Observers
  <2>2. /\ Is(t, {"replace_all"}) /\ todo[t] \subseteq DOMAIN op[t].new
        /\ Loadable(Reached(t)) /\ working \in Loading(op[t].new, Reached(t))
    BY <2>1, Inside DEF Progress
  <2>3. /\ todo'[t] = todo[t] \ {n} /\ key'[t] = short_name(n)
        /\ res'[t] = op'[t].new[n]
        /\ DOMAIN todo' = Threads /\ DOMAIN key' = Threads /\ DOMAIN res' = Threads
    BY <2>1 DEF IInv, Typed
  <2>4. Reached(t)' = Reached(t) \cup {n} /\ n \notin Reached(t)
    BY <2>1, <2>2, <2>3 DEF Reached
  <2>5. (Is(t, {"replace_all"}) /\ Keyed(t))'
    BY <2>1, <2>2 DEF Is, Keyed
  <2>6. working' = working
    BY <2>1 DEF working, maps
  <2>7. CASE IsEmptyName(n)
    <3>1. pc'[t] = "threw"
      BY <2>1, <2>7 DEF Goto, IInv, Typed
    <3>2. Stuck(Reached(t), DOMAIN op[t].new)
      BY <2>2, <2>4, <2>7 DEF Stuck
    <3>3. Reached(t) \in SUBSET DOMAIN op[t].new
      BY DEF Reached
    <3>4. working \in replace_all(op[t].new)
      BY <2>2, <3>2, <3>3, LoopEnds
    <3>5. Result(t, TRUE)'
      BY <2>1, <2>5, <2>6, <3>4 DEF Result
    <3>6. Progress(t)'
      BY <2>5, <3>1, <3>5 DEF Progress, Is
    <3>7. QED
      BY <2>1, <2>3, <2>5, <2>7, <3>6, InsideStep DEF Labels, IInv, Typed
  <2>8. CASE ~IsEmptyName(n)
    <3>1. pc'[t] = "check"
      BY <2>1, <2>8 DEF Goto, IInv, Typed
    <3>2. Reached(t)' \ {n} = Reached(t)
      BY <2>4
    <3>3. Start(t, working)'
      BY <2>1, <2>2, <2>3, <2>4, <2>5, <2>6, <2>8, <3>2 DEF Start
    <3>4. (Named(t) /\ Is(t, Adding))'
      BY <2>5 DEF Named, Is, Adding
    <3>5. Progress(t)'
      BY <3>1, <3>3, <3>4 DEF Progress
    <3>6. QED
      BY <2>1, <2>3, <2>5, <2>8, <3>5, InsideStep DEF Labels, IInv, Typed
  <2>9. QED
    BY <2>7, <2>8
<1>4. CASE LastEntry(t)
  <2>1. /\ pc[t] = "next" /\ todo[t] = {} /\ Goto(t, "return")
        /\ UNCHANGED <<maps, lock, todo, op, key, res, answer, before>>
    BY <1>4 DEF LastEntry, At, SameFrame, Observers
  <2>2. /\ Keyed(t) /\ Is(t, {"replace_all"})
        /\ Loadable(Reached(t)) /\ working \in Loading(op[t].new, Reached(t))
    BY <2>1, Inside DEF Progress
  <2>3. Reached(t) = DOMAIN op[t].new
    BY <2>1 DEF Reached
  <2>4. working \in replace_all(op[t].new)
    BY <2>2, <2>3, LoopEnds
  <2>5. pc'[t] = "return"
    BY <2>1 DEF Goto, IInv, Typed
  <2>6. (Keyed(t) /\ Is(t, {"replace_all"}) /\ Result(t, FALSE))'
    BY <2>1, <2>2, <2>4 DEF Keyed, Is, Result, working, maps
  <2>7. Progress(t)'
    BY <2>5, <2>6 DEF Progress, Is
  <2>8. QED
    BY <2>1, <2>6, <2>7, InsideStep DEF Labels, IInv, Typed
<1>5. QED
  BY <1>1, <1>2, <1>3, <1>4 DEF Replaces

\* The steps of a lookup.
LEMMA FindStep ==
  ASSUME IInv, NEW t \in Threads, Finds(t)
  PROVE  IInv'
<1>1. ASSUME pc[t] \in {"look up", "look up shortcut"}, Goto(t, "return"),
             answer' = [answer EXCEPT ![t] = resource(before, key[t])],
             UNCHANGED <<maps, lock, todo, op, key, res, before>>
      PROVE  IInv'
  <2>1. /\ Goto(t, "return") /\ answer' = [answer EXCEPT ![t] = resource(before, key[t])]
        /\ UNCHANGED <<maps, lock, todo, op, key, res, before>>
    BY <1>1
  <2>2. Keyed(t) /\ Is(t, {"resource"}) /\ working = before
    BY <1>1, Inside DEF Progress
  <2>3. /\ pc'[t] = "return" /\ answer'[t] = resource(before, key[t])
        /\ DOMAIN answer' = Threads
    BY <2>1 DEF Goto, IInv, Typed
  <2>4. (Keyed(t) /\ Result(t, FALSE) /\ answer[t] = resource(before, key[t]))'
    BY <1>1, <2>1, <2>2, <2>3 DEF Keyed, Is, Result, working, maps
  <2>5. Progress(t)'
    BY <2>3, <2>4 DEF Progress
  <2>6. QED
    BY <1>1, <2>1, <2>3, <2>4, <2>5, InsideStep DEF Labels, IInv, Typed
<1>2. CASE FindExact(t)
  <2>1. pc[t] = "look up"
    BY <1>2 DEF FindExact, At
  <2>2. Keyed(t) /\ Is(t, {"resource"}) /\ working = before
    BY <2>1, Inside DEF Progress
  <2>3. CASE key[t] \in DOMAIN resources
    <3>1. resources[key[t]] = resource(before, key[t])
      BY <2>2, <2>3 DEF resource, working
    <3>2. QED
      BY <1>1, <1>2, <2>1, <2>3, <3>1 DEF FindExact, Answers, Observers
  <2>4. CASE key[t] \notin DOMAIN resources
    <3>1. /\ Goto(t, "look up shortcut")
          /\ UNCHANGED <<maps, lock, todo, op, key, res, answer, before>>
      BY <1>2, <2>4 DEF FindExact, SameFrame, Observers
    <3>2. pc'[t] = "look up shortcut"
      BY <3>1 DEF Goto, IInv, Typed
    <3>3. (Keyed(t) /\ Is(t, {"resource"}) /\ working = before)'
      BY <2>2, <3>1 DEF Keyed, Is, working, maps
    <3>4. Progress(t)'
      BY <2>4, <3>1, <3>2, <3>3 DEF Progress, maps
    <3>5. QED
      BY <2>1, <3>1, <3>3, <3>4, InsideStep DEF Labels, IInv, Typed
  <2>5. QED
    BY <2>3, <2>4
<1>3. CASE FindShortcut(t)
  <2>1. pc[t] = "look up shortcut"
    BY <1>3 DEF FindShortcut, At
  <2>2. working = before /\ key[t] \notin DOMAIN resources
    BY <2>1, Inside DEF Progress
  <2>3. (IF key[t] \in DOMAIN short_names /\ short_names[key[t]] \in DOMAIN resources
         THEN resources[short_names[key[t]]] ELSE NoResource) = resource(before, key[t])
    BY <2>2 DEF resource, working
  <2>4. QED
    BY <1>1, <1>3, <2>1, <2>3 DEF FindShortcut, Answers, Observers
<1>4. QED
  BY <1>2, <1>3 DEF Finds

\* An operation begins, with the arguments its first statement finds.
LEMMA BeginStep ==
  ASSUME IInv, NEW t \in Threads, NEW o \in Operations, Begin(t, o)
  PROVE  IInv'
<1> DEFINE l == CASE o.kind = "add"                      -> "name"
                  [] o.kind = "add_string"               -> "check"
                  [] o.kind \in {"remove", "replace_one"} -> "find"
                  [] o.kind = "replace_all"              -> "clear resources"
                  [] o.kind = "resource"                 -> "look up"
           k == CASE o.kind \in {"add", "remove", "replace_one"} -> short_name(o.name)
                  [] o.kind \in {"add_string", "resource"}       -> o.key
                  [] o.kind = "replace_all"                      -> << >>
           r == IF o.kind \in {"add", "add_string"} THEN o.res ELSE NoResource
<1>1. /\ pc[t] = "idle" /\ lock = NoThread /\ lock' = t /\ before' = working
      /\ op' = [op EXCEPT ![t] = o] /\ pc' = [pc EXCEPT ![t] = l]
      /\ key' = [key EXCEPT ![t] = k] /\ res' = [res EXCEPT ![t] = r]
      /\ UNCHANGED <<maps, todo, answer, call>>
  BY DEF Begin, TakesLock, At, Goto, Argument
<1>2. l \in Labels \ {"idle"}
  BY OperationFields DEF Labels
<1>3. /\ op'[t] = o /\ pc'[t] = l /\ key'[t] = k /\ res'[t] = r
      /\ \A u \in Threads \ {t} : pc'[u] = pc[u]
      /\ working' = working /\ working' = before'
  <2> HIDE DEF l, k, r
  <2>1. QED
    BY <1>1 DEF IInv, Typed, working, maps
<1>4. Typed'
  <2> HIDE DEF l, k, r
  <2>1. QED
    BY <1>1, <1>2 DEF IInv, Typed
<1>5. \A u \in Threads : pc'[u] # "idle" <=> lock' = u
  <2> HIDE DEF l
  <2>1. \A u \in Threads : pc[u] = "idle"
    BY <1>1, ThreadsAssumption DEF IInv
  <2>2. QED
    BY <1>1, <1>2, <1>3, <2>1
<1>6. Keyed(t)'
  BY <1>3 DEF Keyed, Is
<1>7. Progress(t)'
  <2>1. CASE o.kind = "add"
    <3>1. Start(t, working)'
      BY <1>3, <2>1, OperationFields DEF Start, Is
    <3>2. pc'[t] = "name" /\ Is(t, {"add", "replace_one"})'
      BY <1>3, <2>1 DEF Is
    <3>3. QED
      BY <3>1, <3>2 DEF Progress
  <2>2. CASE o.kind = "add_string"
    <3>1. Start(t, working)'
      BY <1>3, <2>2, OperationFields DEF Start, Is
    <3>2. pc'[t] = "check" /\ (Is(t, Adding) /\ Named(t))'
      BY <1>3, <2>2 DEF Is, Adding, Named
    <3>3. QED
      BY <3>1, <3>2 DEF Progress
  <2>3. CASE o.kind \in {"remove", "replace_one"}
    <3>1. pc'[t] = "find" /\ Is(t, {"remove", "replace_one"})'
      BY <1>3, <2>3 DEF Is
    <3>2. QED
      BY <1>3, <3>1 DEF Progress
  <2>4. CASE o.kind = "replace_all"
    <3>1. pc'[t] = "clear resources" /\ Is(t, {"replace_all"})'
      BY <1>3, <2>4 DEF Is
    <3>2. QED
      BY <3>1 DEF Progress
  <2>5. CASE o.kind = "resource"
    <3>1. pc'[t] = "look up" /\ Is(t, {"resource"})'
      BY <1>3, <2>5 DEF Is
    <3>2. QED
      BY <1>3, <3>1 DEF Progress
  <2>6. QED
    BY <2>1, <2>2, <2>3, <2>4, <2>5, OperationFields
<1>8. \A u \in Threads \ {t} : pc'[u] = "idle"
  BY <1>1, <1>3, ThreadsAssumption DEF IInv
<1>9. QED
  BY <1>3, <1>4, <1>5, <1>6, <1>7, <1>8 DEF IInv

\* An operation returns.
LEMMA ReturnStep ==
  ASSUME IInv, NEW t \in Threads, Return(t)
  PROVE  IInv'
<1>1. /\ pc[t] # "idle" /\ lock' = NoThread /\ pc' = [pc EXCEPT ![t] = "idle"]
      /\ op' = [op EXCEPT ![t] = [kind |-> "none"]]
      /\ key' = [key EXCEPT ![t] = << >>] /\ res' = [res EXCEPT ![t] = NoResource]
      /\ todo' = [todo EXCEPT ![t] = {}] /\ answer' = [answer EXCEPT ![t] = NoResource]
  BY DEF Return, At, Goto, Argument
<1>2. \A u \in Threads : pc'[u] = "idle"
  BY <1>1, Inside DEF IInv, Typed
<1>3. Typed'
  BY <1>1 DEF IInv, Typed, Labels
<1>4. QED
  BY <1>1, <1>2, <1>3, ThreadsAssumption DEF IInv

\* The invariant holds at the start ...
LEMMA InitInv == Init => IInv
  BY ThreadsAssumption DEF Init, IInv, Typed, Labels

\* ... and after every step.
LEMMA NextInv == IInv /\ [Next]_vars => IInv'
<1> SUFFICES ASSUME IInv, [Next]_vars
             PROVE  IInv'
  OBVIOUS
<1>1. CASE UNCHANGED vars
  <2>1. /\ UNCHANGED <<maps, working, lock, op, pc, key, res, todo, answer, before>>
        /\ Typed'
    BY <1>1 DEF vars, maps, frames, working, IInv, Typed
  <2>2. ASSUME NEW t \in Threads, pc[t] # "idle"
        PROVE  op'[t] \in Operations /\ Keyed(t)' /\ Progress(t)'
    <3>1. op[t] \in Operations /\ Keyed(t) /\ Progress(t)
      BY <2>2 DEF IInv
    <3>2. \A u : Start(t, u)' <=> Start(t, u)
      BY <2>1 DEF Start, Is, Reached
    <3>3. (Result(t, TRUE)' <=> Result(t, TRUE)) /\ (Result(t, FALSE)' <=> Result(t, FALSE))
      BY <2>1 DEF Result, Is
    <3>4. Keyed(t)' /\ (Named(t)' <=> Named(t)) /\ Reached(t)' = Reached(t)
      BY <2>1, <3>1 DEF Keyed, Named, Is, Reached
    <3>5. Start(t, working)' <=> Start(t, working)
      BY <2>1 DEF Start, Is, Reached
    <3>6. Progress(t)'
      BY <2>1, <3>1, <3>2, <3>3, <3>4, <3>5 DEF Progress, maps, Is
    <3>7. QED
      BY <2>1, <3>1, <3>4, <3>6
  <2>3. QED
    BY <2>1, <2>2 DEF IInv
<1>2. ASSUME NEW t \in Threads, Continue(t)
      PROVE  IInv'
  BY <1>2, AddStep, RemoveStep, ReplaceStep, FindStep, ReturnStep DEF Continue
<1>3. QED
  BY <1>1, <1>2, BeginStep DEF Next

-----------------------------------------------------------------------------
(* The refinement *)

\* A step that gives the lock to a thread, or goes on under it, changes nothing
\* that others see.
LEMMA HiddenStep ==
  ASSUME IInv, NEW t \in Threads,
         \/ \E o \in Operations : Begin(t, o)
         \/ Adds(t) \/ Removes(t) \/ Replaces(t) \/ Finds(t)
  PROVE  UNCHANGED <<table, call>>
<1>1. CASE \E o \in Operations : Begin(t, o)
  <2>1. lock = NoThread /\ lock' = t /\ before' = working /\ UNCHANGED call
    BY <1>1 DEF Begin, TakesLock
  <2>2. QED
    BY <2>1, ThreadsAssumption DEF table
<1>2. CASE Adds(t) \/ Removes(t) \/ Replaces(t) \/ Finds(t)
  <2>1. pc[t] # "idle" /\ UNCHANGED <<lock, before, call>>
    BY <1>2 DEF Adds, AddName, CheckName, AddCheck, AddShortcut, AddInsert,
                Removes, RemoveFind, RemoveErase, RemoveShortcut, Restore, Restored,
                Construct, Replaces, ClearResources, ClearShortNames, NextEntry,
                LastEntry, Finds, FindExact, FindShortcut, Answers, At, Observers
  <2>2. lock = t
    BY <2>1, Inside
  <2>3. QED
    BY <2>1, <2>2, ThreadsAssumption DEF table
<1>3. QED
  BY <1>1, <1>2

\* The return of an operation is the step that ResourceManager gives it.
LEMMA ReturnRefines ==
  ASSUME IInv, NEW t \in Threads, Return(t)
  PROVE  Abstract!Next \/ UNCHANGED <<table, call>>
<1> DEFINE threw == pc[t] = "threw"
<1>1. /\ pc[t] \in {"return", "threw"} /\ lock' = NoThread /\ UNCHANGED maps
      /\ call' = CASE Is(t, {"resource"}) -> call
                   [] Is(t, {"add_string"}) -> IF At(t, "threw") THEN "add threw" ELSE "add"
                   [] OTHER -> op[t].kind
  BY DEF Return, At
<1>2. lock = t /\ op[t] \in Operations /\ Keyed(t)
  BY <1>1, Inside
<1>3. /\ threw => Result(t, TRUE)
      /\ ~threw => Result(t, FALSE)
  BY <1>1, Inside DEF Progress
<1>4. table = before /\ table' = working
  BY <1>1, <1>2, ThreadsAssumption DEF table, working, maps
<1> HIDE DEF threw
<1>5. CASE op[t].kind = "add"
  <2> DEFINE n == op[t].name
             r == op[t].res
  <2>1. n \in Names /\ r \in Resources /\ key[t] = short_name(n) /\ res[t] = r
    BY <1>2, <1>5, OperationFields DEF Keyed, Is
  <2>2. IF IsEmptyName(n) \/ AddThrows(before, short_name(n))
        THEN working = before ELSE working = do_add(before, short_name(n), r)
    BY <1>3, <1>5, <2>1 DEF Result, Is
  <2>3. call' = "add"
    BY <1>1, <1>5 DEF Is
  <2>4. Abstract!add(n, r)
    BY <1>4, <2>2, <2>3, SameTests, SameAdd DEF Abstract!add
  <2>5. QED
    BY <2>1, <2>4 DEF Abstract!Next
<1>6. CASE op[t].kind = "add_string"
  <2> DEFINE k == op[t].key
             r == op[t].res
  <2>1. k \in UsedKeys /\ r \in Resources /\ key[t] = k /\ res[t] = r
    BY <1>2, <1>6, OperationFields DEF Keyed, Is
  <2>2. /\ threw <=> AddThrows(before, k)
        /\ IF threw THEN working = before ELSE working = do_add(before, k, r)
    BY <1>3, <1>6, <2>1 DEF Result, Is, AddThrows
  <2>3. call' = IF threw THEN "add threw" ELSE "add"
    BY <1>1, <1>6 DEF Is, At, threw
  <2>4. Abstract!add_string(k, r)
    BY <1>4, <2>2, <2>3, SameTests, SameAdd DEF Abstract!add_string
  <2>5. k \in Abstract!UsedKeys
    BY <2>1, SameTests DEF UsedKeys, Abstract!UsedKeys
  <2>6. QED
    BY <2>1, <2>4, <2>5 DEF Abstract!Next
<1>7. CASE op[t].kind = "remove"
  <2> DEFINE n == op[t].name
  <2>1. n \in Names /\ key[t] = short_name(n)
    BY <1>2, <1>7, OperationFields DEF Keyed, Is
  <2>2. IF RemoveThrows(before, short_name(n))
        THEN working = before ELSE working \in do_remove(before, short_name(n))
    BY <1>3, <1>7, <2>1 DEF Result, Is
  <2>3. call' = "remove"
    BY <1>1, <1>7 DEF Is
  <2>4. Abstract!remove(n)
    BY <1>4, <2>2, <2>3, SameTests, SameRemove DEF Abstract!remove
  <2>5. QED
    BY <2>1, <2>4 DEF Abstract!Next
<1>8. CASE op[t].kind = "replace_one"
  <2> DEFINE n == op[t].name
  <2>1. n \in Names /\ key[t] = short_name(n)
    BY <1>2, <1>8, OperationFields DEF Keyed, Is
  <2>2. PICK r \in Resources \cup {NoResource} :
          IF RemoveThrows(before, short_name(n)) THEN working = before
          ELSE \E u \in do_remove(before, short_name(n)) :
                 working = IF r = NoResource \/ IsEmptyName(n)
                           THEN u ELSE do_add(u, short_name(n), r)
    BY <1>3, <1>8, <2>1 DEF Result, Is
  <2>3. call' = "replace_one"
    BY <1>1, <1>8 DEF Is
  <2>4. Abstract!replace_one(n, r)
    BY <1>4, <2>2, <2>3, SameTests, SameAdd, SameRemove DEF Abstract!replace_one
  <2>5. QED
    BY <2>1, <2>4 DEF Abstract!Next
<1>9. CASE op[t].kind = "replace_all"
  <2>1. PICK batch \in SUBSET Names : op[t].new \in [batch -> Resources]
    BY <1>2, <1>9, OperationFields
  <2>2. working \in replace_all(op[t].new) /\ call' = "replace_all"
    BY <1>1, <1>3, <1>9 DEF Result, Is
  <2>3. Abstract!ReplaceAll(op[t].new)
    BY <1>4, <2>2, SameReplaceAll DEF Abstract!ReplaceAll
  <2>4. QED
    BY <2>1, <2>3 DEF Abstract!Next
<1>10. CASE op[t].kind = "resource"
  <2>1. working = before /\ call' = call
    BY <1>1, <1>3, <1>10 DEF Result, Is
  <2>2. QED
    BY <1>4, <2>1
<1>11. QED
  BY <1>2, <1>5, <1>6, <1>7, <1>8, <1>9, <1>10, OperationFields

\* Statement by statement, under its lock and with exceptions anywhere, the
\* class does what ResourceManager says of each operation in one step.  With
\* it, what is proved of ResourceManager holds of the table that anyone who
\* takes lock_ finds.
THEOREM StepsImplementManager == Spec => ImplementsResourceManager
<1>1. Init => Abstract!Init
  BY ThreadsAssumption DEF Init, Abstract!Init, table, working, EmptyTable, Abstract!EmptyTable
<1>2. IInv /\ [Next]_vars => [Abstract!Next]_(Abstract!vars)
  <2> SUFFICES ASSUME IInv, [Next]_vars
               PROVE  Abstract!Next \/ UNCHANGED <<table, call>>
    BY DEF Abstract!vars
  <2>1. CASE UNCHANGED vars
    BY <2>1 DEF vars, maps, table, working
  <2>2. ASSUME NEW t \in Threads, NEW o \in Operations, Begin(t, o)
        PROVE  UNCHANGED <<table, call>>
    BY <2>2, HiddenStep
  <2>3. ASSUME NEW t \in Threads, Continue(t)
        PROVE  Abstract!Next \/ UNCHANGED <<table, call>>
    BY <2>3, HiddenStep, ReturnRefines DEF Continue
  <2>4. QED
    BY <2>1, <2>2, <2>3 DEF Next
<1>3. QED
  BY <1>1, <1>2, InitInv, NextInv, PTL DEF Spec, Abstract!Spec, ImplementsResourceManager

\* A lookup reads resources_ and short_names_ one after the other and still
\* answers from one table: the one that the last operation left.
THEOREM LookupsReadOneTable == Spec => []LookupsAreAtomic
<1>1. IInv => LookupsAreAtomic
  <2> SUFFICES ASSUME IInv, NEW t \in Threads, pc[t] = "return", op[t].kind = "resource"
               PROVE  answer[t] = resource(table, op[t].key)
    BY DEF LookupsAreAtomic
  <2>1. lock = t /\ Keyed(t) /\ Progress(t)
    BY Inside
  <2>2. table = before
    BY <2>1, ThreadsAssumption DEF table
  <2>3. QED
    BY <2>1, <2>2 DEF Progress, Keyed, Is
<1>2. QED
  BY <1>1, InitInv, NextInv, PTL DEF Spec
=============================================================================
