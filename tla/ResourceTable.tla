--------------------------- MODULE ResourceTable ---------------------------
(***************************************************************************)
(* The two maps a ResourceManager keeps and what its private operations do *)
(* to them, as operators on a table                                        *)
(*                                                                         *)
(*     t = [resources |-> <resources_>, short_names |-> <short_names_>]    *)
(*                                                                         *)
(* Both maps are partial functions.  A key is the string                   *)
(* "remote:...:name", represented by the sequence of its colon-separated   *)
(* parts (what boost::split returns), so "r1:a" is <<"r1", "a">> and the   *)
(* empty string is <<"">>.  A Name is a record with the fields api, remote *)
(* and name, remote and name being such strings; no remote (remote_name_   *)
(* is empty) is << >>, never <<"">>.                                       *)
(*                                                                         *)
(* The operations that iterate over a std::unordered_map are given as the  *)
(* set of tables the iteration can end with: its order is unspecified.     *)
(***************************************************************************)
EXTENDS Integers, Sequences, Functions

CONSTANT NoResource   \* the null shared_ptr

\* std::unordered_map::emplace: an entry that exists is left as it is.
Emplace(f, k, v) ==
  [x \in DOMAIN f \cup {k} |-> IF x \in DOMAIN f THEN f[x] ELSE v]

Erase(f, k) == Restrict(f, DOMAIN f \ {k})

EmptyTable == [resources |-> << >>, short_names |-> << >>]

\* Name::short_name: the remote, if there is one, in front of the name.
short_name(n) == n.remote \o n.name

IsEmptyName(n) == n.name = <<"">>

\* The part after the last colon, as a string of its own.
get_shortcut_name(key) == <<key[Len(key)]>>

\* Mutant: the shortcuts are not looked at.
resource_exactly(t, s) == IF s \in DOMAIN t.resources THEN t.resources[s] ELSE NoResource

\* ResourceManager::resource: the exact key first, then the shortcut.
resource(t, s) ==
  IF s \in DOMAIN t.resources THEN t.resources[s]
  ELSE IF s \in DOMAIN t.short_names /\ t.short_names[s] \in DOMAIN t.resources
       THEN t.resources[t.short_names[s]]
       ELSE NoResource

(***************************************************************************)
(* do_add(key, res) throws when the key is taken.  The code emplaces ""    *)
(* for a shortcut that is already there; emplace does not overwrite, so    *)
(* the shortcut keeps the key it has.                                      *)
(***************************************************************************)
AddThrows(t, key) == key \in DOMAIN t.resources

\* Mutant: the shortcut is assigned instead of emplaced.
do_add_assigns(t, key, res) ==
  [resources   |-> Emplace(t.resources, key, res),
   short_names |-> IF get_shortcut_name(key) # key
                   THEN Emplace(Erase(t.short_names, get_shortcut_name(key)),
                                get_shortcut_name(key), key)
                   ELSE t.short_names]

do_add(t, key, res) ==
  LET shortcut == get_shortcut_name(key)
  IN  [resources   |-> Emplace(t.resources, key, res),
       short_names |-> IF shortcut # key
                       THEN Emplace(t.short_names, shortcut, key)
                       ELSE t.short_names]

(***************************************************************************)
(* do_remove throws when the key is absent.  Otherwise it erases the entry *)
(* and its shortcut, then gives the shortcut to the first remaining key    *)
(* (in the map's order) that has it, unless the removed key was itself     *)
(* just the short name.                                                    *)
(***************************************************************************)
RemoveThrows(t, key) == key \notin DOMAIN t.resources

Heirs(t, key) ==
  {k \in DOMAIN t.resources \ {key} :
     /\ get_shortcut_name(k) = get_shortcut_name(key)
     /\ key # get_shortcut_name(k)}

\* Mutants: the shortcut is not erased; it is not given to an heir.
do_remove_keeps_shortcut(t, key) ==
  {[resources |-> Erase(t.resources, key), short_names |-> t.short_names]}

do_remove_without_restore(t, key) ==
  {[resources   |-> Erase(t.resources, key),
    short_names |-> Erase(t.short_names, get_shortcut_name(key))]}

do_remove(t, key) ==
  LET shortcut == get_shortcut_name(key)
      left     == Erase(t.resources, key)
      names    == Erase(t.short_names, shortcut)
  IN  IF Heirs(t, key) = {}
      THEN {[resources |-> left, short_names |-> names]}
      ELSE {[resources |-> left, short_names |-> Emplace(names, shortcut, k)] :
              k \in Heirs(t, key)}

(***************************************************************************)
(* replace_all starts from an empty table and adds the entries of new (a   *)
(* function from Names to resources) in the map's order, until it is       *)
(* through or one of them throws: an empty name, or a key that another     *)
(* Name has already taken.  added is the set of Names it got through.      *)
(***************************************************************************)
Loadable(added) ==
  /\ \A n \in added : ~IsEmptyName(n)
  /\ \A m, n \in added : short_name(m) = short_name(n) => m = n

Stuck(added, names) ==
  \E n \in names \ added :
    IsEmptyName(n) \/ \E m \in added : short_name(m) = short_name(n)

\* Every choice of one of the keys for each shortcut: the key that came first.
FirstChoices(keys) ==
  LET remoteKeys == {k \in keys : get_shortcut_name(k) # k}
      shortcuts  == {get_shortcut_name(k) : k \in remoteKeys}
  IN  {f \in [shortcuts -> remoteKeys] :
         \A s \in shortcuts : get_shortcut_name(f[s]) = s}

replace_all(new) ==
  UNION {{[resources   |-> [k \in {short_name(n) : n \in added} |->
                             new[CHOOSE n \in added : short_name(n) = k]],
           short_names |-> f] :
            f \in FirstChoices({short_name(n) : n \in added})} :
         added \in {a \in SUBSET DOMAIN new :
                      /\ Loadable(a)
                      /\ a = DOMAIN new \/ Stuck(a, DOMAIN new)}}
=============================================================================
