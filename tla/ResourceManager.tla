-------------------------- MODULE ResourceManager --------------------------
(***************************************************************************)
(* viam::sdk::ResourceManager: the table of resources behind a RobotClient *)
(* and behind every resource server of a module.  Each public operation    *)
(* holds lock_ from its first to its last statement (replace_one even      *)
(* while it runs the caller's constructor), so each is one action.         *)
(* Operations of ResourceTable say what they do to the two maps.           *)
(***************************************************************************)
EXTENDS ResourceTable, FiniteSets

CONSTANTS Parts,      \* the strings between two colons
          Names,      \* the Names callers use
          Resources   \* the resource instances callers add

Keys == Seq(Parts) \ {<< >>}

ASSUME NamesAssumption ==
  \A n \in Names : /\ n.remote \in Seq(Parts) /\ n.remote # <<"">>
                   /\ n.name \in Keys

ASSUME ResourcesAssumption == NoResource \notin Resources

VARIABLES table,  \* resources_ and short_names_
          call    \* the operation that returned last (an observer's variable)

vars == <<table, call>>

UsedKeys == {short_name(n) : n \in Names}

Init == table = EmptyTable /\ call = "none"

\* add(Name): the exception of do_add is logged and swallowed.
add(n, res) ==
  /\ call' = "add"
  /\ IF IsEmptyName(n) \/ AddThrows(table, short_name(n))
     THEN UNCHANGED table
     ELSE table' = do_add(table, short_name(n), res)

\* add(string): no test for an empty name, and the exception reaches the caller.
add_string(key, res) ==
  /\ IF AddThrows(table, key)
     THEN call' = "add threw" /\ UNCHANGED table
     ELSE call' = "add" /\ table' = do_add(table, key, res)

remove(n) ==
  /\ call' = "remove"
  /\ IF RemoveThrows(table, short_name(n))
     THEN UNCHANGED table
     ELSE table' \in do_remove(table, short_name(n))

(***************************************************************************)
(* replace_one removes the entry, then runs the caller's constructor, then *)
(* adds what it made.  All of it is in one try block: when the constructor *)
(* throws (res is NoResource here), the entry stays removed.               *)
(***************************************************************************)
\* Mutant: a failed construction is taken for a resource.
replace_one_adds_null(n, res) ==
  /\ call' = "replace_one"
  /\ ~RemoveThrows(table, short_name(n))
  /\ \E t \in do_remove(table, short_name(n)) :
       table' = do_add(t, short_name(n), res)

replace_one(n, res) ==
  /\ call' = "replace_one"
  /\ IF RemoveThrows(table, short_name(n))
     THEN UNCHANGED table
     ELSE \E t \in do_remove(table, short_name(n)) :
            table' = IF res = NoResource \/ IsEmptyName(n)
                     THEN t
                     ELSE do_add(t, short_name(n), res)

ReplaceAll(new) ==
  /\ call' = "replace_all"
  /\ table' \in replace_all(new)

Next ==
  \/ \E n \in Names, res \in Resources : add(n, res)
  \/ \E key \in UsedKeys, res \in Resources : add_string(key, res)
  \/ \E n \in Names : remove(n)
  \/ \E n \in Names, res \in Resources \cup {NoResource} : replace_one(n, res)
  \/ \E batch \in SUBSET Names : \E new \in [batch -> Resources] : ReplaceAll(new)

Spec == Init /\ [][Next]_vars

-----------------------------------------------------------------------------
(* Properties *)

\* Both maps are functions on keys, and a shortcut names a key.
TypeOK ==
  /\ table.resources \in [DOMAIN table.resources -> Resources]
  /\ DOMAIN table.resources \subseteq Keys
  /\ table.short_names \in [DOMAIN table.short_names -> Keys]
  /\ DOMAIN table.short_names \subseteq Keys

(***************************************************************************)
(* A shortcut always leads to a registered resource whose name ends in it: *)
(* the second lookup of resource() never falls through to nullptr, and     *)
(* never yields a resource with another simple name.  do_add, do_remove    *)
(* and replace_all update the two maps separately.                         *)
(***************************************************************************)
NoDanglingShortcut ==
  \A s \in DOMAIN table.short_names :
    /\ table.short_names[s] \in DOMAIN table.resources
    /\ get_shortcut_name(table.short_names[s]) = s

Resolves(t, s) == resource(t, s) # NoResource

(***************************************************************************)
(* A simple name that resolves stops resolving only when no resource with  *)
(* that last part is left, or when the local resource of exactly that name *)
(* is removed.  This is the comment of do_remove ("restore shortcut to     *)
(* remote1:nameA") over every operation and every iteration order.         *)
(***************************************************************************)
ShortcutOutlivesRemoval ==
  [][\A s \in {get_shortcut_name(k) : k \in DOMAIN table.resources} :
       Resolves(table, s) /\ ~Resolves(table', s) =>
         \/ \A k \in DOMAIN table'.resources : get_shortcut_name(k) # s
         \/ s \in DOMAIN table.resources /\ s \notin DOMAIN table'.resources]_vars

(***************************************************************************)
(* An add never changes what another, already resolving, name resolves to: *)
(* in particular a second remote with the same simple name does not take   *)
(* the shortcut over.                                                      *)
(***************************************************************************)
AddKeepsResolution ==
  [][call' = "add" =>
       \A s \in DOMAIN table.resources \cup DOMAIN table.short_names :
         s \notin DOMAIN table'.resources \ DOMAIN table.resources =>
           resource(table', s) = resource(table, s)]_vars
=============================================================================
