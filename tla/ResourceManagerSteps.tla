------------------------ MODULE ResourceManagerSteps ------------------------
(***************************************************************************)
(* ResourceManager, statement by statement: several threads call its       *)
(* public operations; each takes lock_, looks into the two maps, changes   *)
(* one of them at a time, iterates over them in an order of the library's  *)
(* choosing, may be left by an exception at each of these points, and      *)
(* gives lock_ back.  ResourceManager says what all this amounts to, in    *)
(* one step per operation, and is what this module implements.             *)
(***************************************************************************)
EXTENDS ResourceTable, FiniteSets

CONSTANTS Parts, Names, Resources,  \* those of ResourceManager
          Threads

NoThread == "none"

Keys == Seq(Parts) \ {<< >>}

ASSUME NamesAssumption ==
  \A n \in Names : /\ n.remote \in Seq(Parts) /\ n.remote # <<"">>
                   /\ n.name \in Keys

ASSUME ResourcesAssumption == NoResource \notin Resources

ASSUME ThreadsAssumption == NoThread \notin Threads

VARIABLES
  resources,    \* resources_
  short_names,  \* short_names_
  lock,         \* the thread that holds lock_
  op,           \* the operation each thread is in, with its arguments
  pc,           \* where in it
  key, res,     \* the arguments of its do_add or do_remove
  todo,         \* what its loop has not reached
  answer,       \* what its last lookup returned
  call,         \* the changing operation that returned last (an observer)
  before        \* the two maps when lock_ was taken (an observer)

maps   == <<resources, short_names>>
frames == <<op, pc, key, res, todo, answer>>
vars   == <<maps, lock, frames, call, before>>

working == [resources |-> resources, short_names |-> short_names]

\* The table as seen by whoever does not hold the lock.
table == IF lock = NoThread THEN working ELSE before

-----------------------------------------------------------------------------
UsedKeys == {short_name(n) : n \in Names}

Batches == UNION {[batch -> Resources] : batch \in SUBSET Names}

Operations ==
  [kind : {"add"}, name : Names, res : Resources]
    \cup [kind : {"add_string"}, key : UsedKeys, res : Resources]
    \cup [kind : {"remove", "replace_one"}, name : Names]
    \cup [kind : {"replace_all"}, new : Batches]
    \cup [kind : {"resource"}, key : UsedKeys]

At(t, label) == pc[t] = label

Goto(t, label) == pc' = [pc EXCEPT ![t] = label]

Is(t, kinds) == op[t].kind \in kinds

\* do_add(Name) and do_remove(Name) work on the short name.
Argument(t, k, r) == key' = [key EXCEPT ![t] = k] /\ res' = [res EXCEPT ![t] = r]

SameFrame == UNCHANGED <<op, key, res, answer>>
Observers == UNCHANGED <<call, before>>

\* Mutant: a lookup does not wait for the lock.
TakesLock_lookup_does_not(t, o) ==
  /\ lock = NoThread \/ o.kind = "resource"
  /\ lock' = IF o.kind = "resource" THEN lock ELSE t
  /\ before' = IF o.kind = "resource" THEN before ELSE working

\* The lock_guard that every public operation starts with.
TakesLock(t, o) ==
  /\ lock = NoThread
  /\ lock' = t
  /\ before' = working

Begin(t, o) ==
  /\ At(t, "idle") /\ TakesLock(t, o)
  /\ op' = [op EXCEPT ![t] = o]
  /\ Goto(t, CASE o.kind = "add"                      -> "name"
               [] o.kind = "add_string"               -> "check"
               [] o.kind \in {"remove", "replace_one"} -> "find"
               [] o.kind = "replace_all"              -> "clear resources"
               [] o.kind = "resource"                 -> "look up")
  /\ Argument(t, CASE o.kind \in {"add", "remove", "replace_one"} -> short_name(o.name)
                   [] o.kind \in {"add_string", "resource"}       -> o.key
                   [] o.kind = "replace_all"                      -> << >>,
              IF o.kind \in {"add", "add_string"} THEN o.res ELSE NoResource)
  /\ UNCHANGED <<maps, todo, answer, call>>

\* It returns: its locals go, and the guard gives the lock back.  Only
\* add(string) lets an exception out.
Return(t) ==
  /\ At(t, "return") \/ At(t, "threw")
  /\ lock' = NoThread
  /\ Goto(t, "idle")
  /\ op' = [op EXCEPT ![t] = [kind |-> "none"]]
  /\ Argument(t, << >>, NoResource)
  /\ todo' = [todo EXCEPT ![t] = {}]
  /\ answer' = [answer EXCEPT ![t] = NoResource]
  /\ before' = EmptyTable
  /\ call' = CASE Is(t, {"resource"}) -> call
               [] Is(t, {"add_string"}) -> IF At(t, "threw") THEN "add threw" ELSE "add"
               [] OTHER -> op[t].kind
  /\ UNCHANGED maps

-----------------------------------------------------------------------------
(* do_add *)

\* The name whose resource is added: the argument's, or the loop's.
CheckName(t, n) ==
  /\ Goto(t, IF IsEmptyName(n) THEN "threw" ELSE "check")
  /\ UNCHANGED <<maps, lock, todo>> /\ SameFrame /\ Observers

AddName(t) ==
  /\ At(t, "name")
  /\ CheckName(t, op[t].name)

AddCheck(t) ==
  /\ At(t, "check")
  /\ Goto(t, IF key[t] \in DOMAIN resources THEN "threw" ELSE "shortcut")
  /\ UNCHANGED <<maps, lock, todo>> /\ SameFrame /\ Observers

AddShortcut(t) ==
  /\ At(t, "shortcut")
  /\ short_names' = IF get_shortcut_name(key[t]) # key[t]
                    THEN Emplace(short_names, get_shortcut_name(key[t]), key[t])
                    ELSE short_names
  /\ Goto(t, "insert")
  /\ UNCHANGED <<resources, lock, todo>> /\ SameFrame /\ Observers

AddInsert(t) ==
  /\ At(t, "insert")
  /\ resources' = Emplace(resources, key[t], res[t])
  /\ Goto(t, IF Is(t, {"replace_all"}) THEN "next" ELSE "return")
  /\ UNCHANGED <<short_names, lock, todo>> /\ SameFrame /\ Observers

-----------------------------------------------------------------------------
(* do_remove *)

RemoveFind(t) ==
  /\ At(t, "find")
  /\ Goto(t, IF key[t] \in DOMAIN resources THEN "erase" ELSE "threw")
  /\ UNCHANGED <<maps, lock, todo>> /\ SameFrame /\ Observers

RemoveErase(t) ==
  /\ At(t, "erase")
  /\ resources' = Erase(resources, key[t])
  /\ Goto(t, "erase shortcut")
  /\ UNCHANGED <<short_names, lock, todo>> /\ SameFrame /\ Observers

RemoveShortcut(t) ==
  /\ At(t, "erase shortcut")
  /\ short_names' = Erase(short_names, get_shortcut_name(key[t]))
  /\ todo' = [todo EXCEPT ![t] = DOMAIN resources]
  /\ Goto(t, "restore")
  /\ UNCHANGED <<resources, lock>> /\ SameFrame /\ Observers

\* Mutant: the removed key is not asked whether it was the local one.
Restore_always(t, k) ==
  /\ At(t, "restore") /\ k \in todo[t]
  /\ todo' = [todo EXCEPT ![t] = @ \ {k}]
  /\ short_names' = IF get_shortcut_name(key[t]) = get_shortcut_name(k)
                    THEN Emplace(short_names, get_shortcut_name(k), k)
                    ELSE short_names
  /\ UNCHANGED <<resources, lock, pc>> /\ SameFrame /\ Observers

\* One round of the loop; emplace leaves a shortcut that has been restored.
Restore(t, k) ==
  /\ At(t, "restore") /\ k \in todo[t]
  /\ todo' = [todo EXCEPT ![t] = @ \ {k}]
  /\ short_names' = IF /\ get_shortcut_name(key[t]) = get_shortcut_name(k)
                       /\ key[t] # get_shortcut_name(k)
                    THEN Emplace(short_names, get_shortcut_name(k), k)
                    ELSE short_names
  /\ UNCHANGED <<resources, lock, pc>> /\ SameFrame /\ Observers

Restored(t) ==
  /\ At(t, "restore") /\ todo[t] = {}
  /\ Goto(t, IF Is(t, {"remove"}) THEN "return" ELSE "construct")
  /\ UNCHANGED <<maps, lock, todo>> /\ SameFrame /\ Observers

\* replace_one runs the caller's function, which makes a resource or throws.
Construct(t) ==
  /\ At(t, "construct")
  /\ \/ \E r \in Resources : /\ res' = [res EXCEPT ![t] = r]
                             /\ Goto(t, "name")
     \/ Goto(t, "threw") /\ UNCHANGED res
  /\ UNCHANGED <<maps, lock, todo, op, key, answer>> /\ Observers

-----------------------------------------------------------------------------
(* replace_all *)

ClearResources(t) ==
  /\ At(t, "clear resources")
  /\ resources' = << >>
  /\ Goto(t, "clear short names")
  /\ UNCHANGED <<short_names, lock, todo>> /\ SameFrame /\ Observers

ClearShortNames(t) ==
  /\ At(t, "clear short names")
  /\ short_names' = << >>
  /\ todo' = [todo EXCEPT ![t] = DOMAIN op[t].new]
  /\ Goto(t, "next")
  /\ UNCHANGED <<resources, lock>> /\ SameFrame /\ Observers

\* The next entry of the argument, as the arguments of a do_add.
NextEntry(t, n) ==
  /\ At(t, "next") /\ n \in todo[t]
  /\ todo' = [todo EXCEPT ![t] = @ \ {n}]
  /\ Argument(t, short_name(n), op[t].new[n])
  /\ Goto(t, IF IsEmptyName(n) THEN "threw" ELSE "check")
  /\ UNCHANGED <<maps, lock, op, answer>> /\ Observers

LastEntry(t) ==
  /\ At(t, "next") /\ todo[t] = {}
  /\ Goto(t, "return")
  /\ UNCHANGED <<maps, lock, todo>> /\ SameFrame /\ Observers

-----------------------------------------------------------------------------
(* resource *)

Answers(t, r) ==
  /\ answer' = [answer EXCEPT ![t] = r]
  /\ Goto(t, "return")
  /\ UNCHANGED <<maps, lock, todo, op, key, res>> /\ Observers

FindExact(t) ==
  /\ At(t, "look up")
  /\ IF key[t] \in DOMAIN resources
     THEN Answers(t, resources[key[t]])
     ELSE /\ Goto(t, "look up shortcut")
          /\ UNCHANGED <<maps, lock, todo>> /\ SameFrame /\ Observers

FindShortcut(t) ==
  /\ At(t, "look up shortcut")
  /\ Answers(t, IF key[t] \in DOMAIN short_names /\ short_names[key[t]] \in DOMAIN resources
                THEN resources[short_names[key[t]]]
                ELSE NoResource)

-----------------------------------------------------------------------------
Init ==
  /\ resources = << >> /\ short_names = << >>
  /\ lock = NoThread
  /\ op = [t \in Threads |-> [kind |-> "none"]]
  /\ pc = [t \in Threads |-> "idle"]
  /\ key = [t \in Threads |-> << >>]
  /\ res = [t \in Threads |-> NoResource]
  /\ todo = [t \in Threads |-> {}]
  /\ answer = [t \in Threads |-> NoResource]
  /\ call = "none" /\ before = EmptyTable

Adds(t)    == AddName(t) \/ AddCheck(t) \/ AddShortcut(t) \/ AddInsert(t)
Removes(t) ==
  \/ RemoveFind(t) \/ RemoveErase(t) \/ RemoveShortcut(t)
  \/ (\E k \in todo[t] : Restore(t, k)) \/ Restored(t) \/ Construct(t)
Replaces(t) ==
  \/ ClearResources(t) \/ ClearShortNames(t)
  \/ (\E n \in todo[t] : NextEntry(t, n)) \/ LastEntry(t)
Finds(t)   == FindExact(t) \/ FindShortcut(t)

Continue(t) == Adds(t) \/ Removes(t) \/ Replaces(t) \/ Finds(t) \/ Return(t)

Next == \E t \in Threads : (\E o \in Operations : Begin(t, o)) \/ Continue(t)

Spec == Init /\ [][Next]_vars

-----------------------------------------------------------------------------
(* Properties *)

Abstract == INSTANCE ResourceManager

(***************************************************************************)
(* Each operation of the class takes effect as a whole, under its lock,    *)
(* as the one step that ResourceManager gives it: whatever the order of    *)
(* iteration and whichever statement throws, no half-made pair of maps is  *)
(* ever left to the next holder of lock_, and the table that is left is    *)
(* one that do_add, do_remove and replace_all promise.                     *)
(***************************************************************************)
ImplementsResourceManager == Abstract!Spec

(***************************************************************************)
(* A lookup answers what the key resolves to in the table between two      *)
(* operations, though it reads the two maps one after the other.           *)
(***************************************************************************)
LookupsAreAtomic ==
  \A t \in Threads :
    pc[t] = "return" /\ op[t].kind = "resource" =>
      answer[t] = resource(table, op[t].key)
=============================================================================
