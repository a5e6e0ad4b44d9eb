----------------------- MODULE ResourceManagerProofs -----------------------
(***************************************************************************)
(* Proofs about ResourceManager, for every set of Names and Resources.     *)
(* The invariant TypeOK /\ NoDanglingShortcut is inductive as a whole:     *)
(* do_remove erases only the shortcut of the key it removes, and that this *)
(* is the only shortcut that can lead to the key is NoDanglingShortcut.    *)
(* Well states the invariant of a table, so that each operation of         *)
(* ResourceTable gets a lemma of its own.                                  *)
(***************************************************************************)
EXTENDS ResourceStrings, TLAPS

Well(t) ==
  /\ t.resources \in [DOMAIN t.resources -> Resources]
  /\ DOMAIN t.resources \subseteq Keys
  /\ t.short_names \in [DOMAIN t.short_names -> Keys]
  /\ DOMAIN t.short_names \subseteq Keys
  /\ \A s \in DOMAIN t.short_names :
       /\ t.short_names[s] \in DOMAIN t.resources
       /\ get_shortcut_name(t.short_names[s]) = s

\* The shortcut of a key is a key, and its own shortcut.
LEMMA ShortcutIsKey ==
  ASSUME NEW k \in Keys
  PROVE  /\ get_shortcut_name(k) \in Keys
         /\ get_shortcut_name(get_shortcut_name(k)) = get_shortcut_name(k)
<1>1. Len(k) \in Nat /\ Len(k) > 0 /\ k[Len(k)] \in Parts
  BY DEF Keys
<1>2. QED
  BY <1>1 DEF Keys, get_shortcut_name

\* A key with a remote in front is a key.
LEMMA PrefixedIsKey ==
  ASSUME NEW r \in Seq(Parts), NEW m \in Keys
  PROVE  r \o m \in Keys
<1>1. m \in Seq(Parts) /\ Len(m) \in Nat /\ Len(m) # 0 /\ Len(r) \in Nat
  BY DEF Keys
<1>2. r \o m \in Seq(Parts) /\ Len(r \o m) = Len(r) + Len(m)
  BY <1>1
<1>3. Len(r \o m) # 0
  BY <1>1, <1>2
<1>4. r \o m # << >>
  BY <1>3
<1>5. QED
  BY <1>2, <1>4 DEF Keys

\* The short name of a Name is a key.
LEMMA ShortNameIsKey ==
  ASSUME NEW n \in Names
  PROVE  short_name(n) \in Keys
  BY NamesAssumption, PrefixedIsKey, Zenon DEF short_name

\* do_add keeps the invariant of a table.
LEMMA AddKeepsWell ==
  ASSUME NEW t, Well(t), NEW key \in Keys, NEW res \in Resources
  PROVE  Well(do_add(t, key, res))
<1> DEFINE u == do_add(t, key, res)
           c == get_shortcut_name(key)
<1>1. c \in Keys
  BY ShortcutIsKey
<1>2. /\ u.resources = Emplace(t.resources, key, res)
      /\ u.short_names = IF c # key THEN Emplace(t.short_names, c, key)
                                    ELSE t.short_names
  BY DEF do_add
<1>3. /\ DOMAIN u.resources = DOMAIN t.resources \cup {key}
      /\ u.resources \in [DOMAIN u.resources -> Resources]
      /\ DOMAIN u.resources \subseteq Keys
  BY <1>2 DEF Emplace, Well
<1>4. /\ u.short_names \in [DOMAIN u.short_names -> Keys]
      /\ DOMAIN u.short_names \subseteq Keys
  BY <1>1, <1>2 DEF Emplace, Well
<1>5. ASSUME NEW s \in DOMAIN u.short_names
      PROVE  /\ u.short_names[s] \in DOMAIN u.resources
             /\ get_shortcut_name(u.short_names[s]) = s
  <2>1. CASE s \in DOMAIN t.short_names
    <3>1. u.short_names[s] = t.short_names[s]
      BY <1>2, <2>1 DEF Emplace
    <3>2. QED
      BY <2>1, <3>1, <1>3 DEF Well
  <2>2. CASE s \notin DOMAIN t.short_names
    BY <2>2, <1>2, <1>3 DEF Emplace
  <2>3. QED
    BY <2>1, <2>2
<1>6. QED
  BY <1>3, <1>4, <1>5 DEF Well

\* do_remove keeps the invariant of a table, whichever heir it finds.
LEMMA RemoveKeepsWell ==
  ASSUME NEW t, Well(t), NEW key \in Keys, NEW u \in do_remove(t, key)
  PROVE  Well(u)
<1> DEFINE c     == get_shortcut_name(key)
           names == Erase(t.short_names, c)
<1>1. c \in Keys
  BY ShortcutIsKey
<1>2. u.resources = Erase(t.resources, key)
  BY DEF do_remove
<1>3. /\ DOMAIN u.resources = DOMAIN t.resources \ {key}
      /\ u.resources \in [DOMAIN u.resources -> Resources]
      /\ DOMAIN u.resources \subseteq Keys
  BY <1>2 DEF Erase, Restrict, Well
<1>4. /\ DOMAIN names = DOMAIN t.short_names \ {c}
      /\ names \in [DOMAIN names -> Keys]
      /\ DOMAIN names \subseteq Keys
      /\ \A s \in DOMAIN names : /\ names[s] \in DOMAIN u.resources
                                 /\ get_shortcut_name(names[s]) = s
  <2>1. DOMAIN names = DOMAIN t.short_names \ {c}
    BY DEF Erase, Restrict
  <2>2. \A s \in DOMAIN names : names[s] = t.short_names[s]
    BY DEF Erase, Restrict
  <2>3. names \in [DOMAIN names -> Keys] /\ DOMAIN names \subseteq Keys
    BY DEF Erase, Restrict, Well
  <2>4. ASSUME NEW s \in DOMAIN names
        PROVE  names[s] \in DOMAIN u.resources /\ get_shortcut_name(names[s]) = s
    <3>1. s \in DOMAIN t.short_names /\ s # c /\ names[s] = t.short_names[s]
      BY <2>1, <2>2
    <3>2. names[s] \in DOMAIN t.resources /\ get_shortcut_name(names[s]) = s
      BY <3>1 DEF Well
    <3>3. names[s] # key
      BY <3>1, <3>2
    <3>4. QED
      BY <3>2, <3>3, <1>3
  <2>5. QED
    BY <2>1, <2>3, <2>4
<1>5. CASE u.short_names = names
  BY <1>3, <1>4, <1>5 DEF Well
<1>6. CASE \E k \in Heirs(t, key) : u.short_names = Emplace(names, c, k)
  <2>1. PICK k \in Heirs(t, key) : u.short_names = Emplace(names, c, k)
    BY <1>6
  <2>2. k \in DOMAIN u.resources /\ get_shortcut_name(k) = c /\ k \in Keys
    BY <1>3 DEF Heirs, Well
  <2>3. /\ u.short_names \in [DOMAIN u.short_names -> Keys]
        /\ DOMAIN u.short_names \subseteq Keys
    BY <1>1, <1>4, <2>1, <2>2 DEF Emplace
  <2>4. ASSUME NEW s \in DOMAIN u.short_names
        PROVE  /\ u.short_names[s] \in DOMAIN u.resources
               /\ get_shortcut_name(u.short_names[s]) = s
    BY <1>4, <2>1, <2>2 DEF Emplace
  <2>5. QED
    BY <1>3, <2>3, <2>4 DEF Well
<1>7. QED
  BY <1>5, <1>6 DEF do_remove

\* Every table that replace_all can end with satisfies the invariant.
LEMMA ReplaceAllIsWell ==
  ASSUME NEW batch \in SUBSET Names, NEW new \in [batch -> Resources],
         NEW u \in replace_all(new)
  PROVE  Well(u)
<1> DEFINE Loaded(a)  == [k \in {short_name(n) : n \in a} |->
                            new[CHOOSE n \in a : short_name(n) = k]]
           Choices(a) == FirstChoices({short_name(n) : n \in a})
<1>1. \E a \in SUBSET batch :
        u \in {[resources |-> Loaded(a), short_names |-> g] : g \in Choices(a)}
  BY DEF replace_all
<1>0. PICK added \in SUBSET batch, f \in UNION {Choices(a) : a \in SUBSET batch} :
        f \in Choices(added) /\ u = [resources |-> Loaded(added), short_names |-> f]
  <2> HIDE DEF Loaded, Choices
  <2>1. QED
    BY <1>1
<1> DEFINE keys == {short_name(n) : n \in added}
<1>2. keys \subseteq Keys
  BY ShortNameIsKey
<1>3. ASSUME NEW k \in keys
      PROVE  new[CHOOSE n \in added : short_name(n) = k] \in Resources
  <2>1. \E n \in added : short_name(n) = k
    OBVIOUS
  <2>2. (CHOOSE n \in added : short_name(n) = k) \in added
    BY <2>1
  <2>3. QED
    BY <2>2
<1>4. /\ u.resources \in [keys -> Resources]
      /\ DOMAIN u.resources = keys
  BY <1>0, <1>3
<1> DEFINE remoteKeys == {k \in keys : get_shortcut_name(k) # k}
           shortcuts  == {get_shortcut_name(k) : k \in remoteKeys}
<1>5. /\ f \in [shortcuts -> remoteKeys]
      /\ \A s \in shortcuts : get_shortcut_name(f[s]) = s
  BY <1>0 DEF FirstChoices
<1>6. shortcuts \subseteq Keys
  BY <1>2, ShortcutIsKey
<1>7. remoteKeys \subseteq keys /\ remoteKeys \subseteq Keys
  BY <1>2
<1>8. /\ u.short_names \in [DOMAIN u.short_names -> Keys]
      /\ DOMAIN u.short_names \subseteq Keys
      /\ \A s \in DOMAIN u.short_names :
           /\ u.short_names[s] \in keys
           /\ get_shortcut_name(u.short_names[s]) = s
  <2> HIDE DEF remoteKeys, shortcuts, keys
  <2>1. u.short_names = f /\ DOMAIN u.short_names = shortcuts
    BY <1>0, <1>5
  <2>2. QED
    BY <2>1, <1>5, <1>6, <1>7
<1>9. QED
  <2> HIDE DEF remoteKeys, shortcuts, keys
  <2>1. QED
    BY <1>2, <1>4, <1>8 DEF Well

-----------------------------------------------------------------------------
\* The inductive invariant of the specification.
IInv == Well(table)

\* The empty table satisfies the invariant.
LEMMA InitWell == Init => IInv
  BY DEF Init, EmptyTable, Well, IInv

\* Every operation of ResourceManager keeps the invariant.
LEMMA NextWell == IInv /\ [Next]_vars => IInv'
<1> SUFFICES ASSUME Well(table), [Next]_vars
             PROVE  Well(table')
  BY DEF IInv
<1>1. ASSUME NEW n \in Names, NEW res \in Resources, add(n, res)
      PROVE  Well(table')
  BY <1>1, ShortNameIsKey, AddKeepsWell DEF add
<1>2. ASSUME NEW key \in UsedKeys, NEW res \in Resources, add_string(key, res)
      PROVE  Well(table')
  BY <1>2, ShortNameIsKey, AddKeepsWell DEF add_string, UsedKeys
<1>3. ASSUME NEW n \in Names, remove(n)
      PROVE  Well(table')
  BY <1>3, ShortNameIsKey, RemoveKeepsWell DEF remove
<1>4. ASSUME NEW n \in Names, NEW res \in Resources \cup {NoResource},
             replace_one(n, res)
      PROVE  Well(table')
  <2>1. CASE table' = table
    BY <2>1
  <2>2. CASE \E t \in do_remove(table, short_name(n)) :
               table' = IF res = NoResource \/ IsEmptyName(n)
                        THEN t ELSE do_add(t, short_name(n), res)
    <3>1. PICK t \in do_remove(table, short_name(n)) :
               table' = IF res = NoResource \/ IsEmptyName(n)
                        THEN t ELSE do_add(t, short_name(n), res)
      BY <2>2
    <3>2. Well(t)
      BY ShortNameIsKey, RemoveKeepsWell
    <3>3. CASE res = NoResource \/ IsEmptyName(n)
      BY <3>1, <3>2, <3>3
    <3>4. CASE ~(res = NoResource \/ IsEmptyName(n))
      BY <3>1, <3>2, <3>4, ShortNameIsKey, AddKeepsWell
    <3>5. QED
      BY <3>3, <3>4
  <2>3. QED
    BY <1>4, <2>1, <2>2 DEF replace_one
<1>5. ASSUME NEW batch \in SUBSET Names, NEW new \in [batch -> Resources],
             ReplaceAll(new)
      PROVE  Well(table')
  BY <1>5, ReplaceAllIsWell DEF ReplaceAll
<1>6. CASE UNCHANGED vars
  BY <1>6 DEF vars
<1>7. QED
  BY <1>1, <1>2, <1>3, <1>4, <1>5, <1>6 DEF Next

\* In every reachable state both maps are well typed.
THEOREM ResourceManagerTypeOK == Spec => []TypeOK
<1>1. IInv => TypeOK
  BY DEF IInv, Well, TypeOK
<1>2. QED
  BY <1>1, InitWell, NextWell, PTL DEF Spec

\* A shortcut of ResourceManager always leads to a registered resource whose
\* name ends in it, whatever operations ran and in whatever order the maps
\* were iterated.
THEOREM ShortcutsNeverDangle == Spec => []NoDanglingShortcut
<1>1. IInv => NoDanglingShortcut
  BY DEF IInv, Well, NoDanglingShortcut
<1>2. QED
  BY <1>1, InitWell, NextWell, PTL DEF Spec

-----------------------------------------------------------------------------
(* The two action properties.  Under Well, what resolves is what is in the *)
(* domain of one of the maps.                                              *)

Known(t) == DOMAIN t.resources \cup DOMAIN t.short_names

\* A string resolves exactly when one of the maps has it.
LEMMA ResolvesIffKnown ==
  ASSUME NEW t, Well(t), NEW s
  PROVE  Resolves(t, s) <=> s \in Known(t)
  BY ResourcesAssumption DEF Well, Resolves, resource, Known

\* do_add makes the key and its shortcut known, and forgets nothing.
LEMMA AddKnown ==
  ASSUME NEW t, NEW key, NEW res
  PROVE  /\ DOMAIN do_add(t, key, res).resources = DOMAIN t.resources \cup {key}
         /\ Known(do_add(t, key, res)) = Known(t) \cup {key, get_shortcut_name(key)}
  BY DEF do_add, Emplace, Known

\* do_remove forgets the key and, when no heir is left, its shortcut.
LEMMA RemoveKnown ==
  ASSUME NEW t, NEW key \in DOMAIN t.resources, NEW u \in do_remove(t, key)
  PROVE  /\ DOMAIN u.resources = DOMAIN t.resources \ {key}
         /\ \A s \in Known(t) \ {key, get_shortcut_name(key)} : s \in Known(u)
         /\ Heirs(t, key) # {} => get_shortcut_name(key) \in Known(u)
<1>1. u.resources = Erase(t.resources, key)
  BY DEF do_remove
<1>2. DOMAIN u.resources = DOMAIN t.resources \ {key}
  BY <1>1 DEF Erase, Restrict
<1>3. CASE Heirs(t, key) = {}
  <2>1. u.short_names = Erase(t.short_names, get_shortcut_name(key))
    BY <1>3 DEF do_remove
  <2>2. QED
    BY <1>2, <1>3, <2>1 DEF Erase, Restrict, Known
<1>4. CASE Heirs(t, key) # {}
  <2>1. PICK k \in Heirs(t, key) :
          u.short_names = Emplace(Erase(t.short_names, get_shortcut_name(key)),
                                  get_shortcut_name(key), k)
    BY <1>4 DEF do_remove
  <2>2. DOMAIN u.short_names = DOMAIN t.short_names \cup {get_shortcut_name(key)}
    BY <2>1 DEF Erase, Restrict, Emplace
  <2>3. QED
    BY <1>2, <2>2 DEF Known
<1>5. QED
  BY <1>3, <1>4

\* ShortcutOutlivesRemoval, of the tables before and after a step.
Outlives(t, u) ==
  \A s \in {get_shortcut_name(k) : k \in DOMAIN t.resources} :
    Resolves(t, s) /\ ~Resolves(u, s) =>
      \/ \A k \in DOMAIN u.resources : get_shortcut_name(k) # s
      \/ s \in DOMAIN t.resources /\ s \notin DOMAIN u.resources

\* do_remove takes a simple name away only with its last resource, or with
\* the local one.
LEMMA RemoveOutlives ==
  ASSUME NEW t, Well(t), NEW key \in DOMAIN t.resources, NEW u \in do_remove(t, key)
  PROVE  Outlives(t, u)
<1> DEFINE c == get_shortcut_name(key)
<1>1. key \in Keys /\ Well(u)
  BY RemoveKeepsWell DEF Well
<1> SUFFICES ASSUME NEW s, Resolves(t, s), ~Resolves(u, s)
             PROVE  \/ \A k \in DOMAIN u.resources : get_shortcut_name(k) # s
                    \/ s \in DOMAIN t.resources /\ s \notin DOMAIN u.resources
  BY DEF Outlives
<1>2. s \in Known(t) /\ s \notin Known(u)
  BY <1>1, ResolvesIffKnown
<1>3. s = key \/ s = c
  BY <1>2, RemoveKnown
<1>4. CASE s = key
  BY <1>4, RemoveKnown
<1>5. CASE s = c /\ s # key
  <2>1. Heirs(t, key) = {}
    BY <1>2, <1>5, RemoveKnown
  <2>2. QED
    BY <1>5, <2>1, RemoveKnown DEF Heirs
<1>6. QED
  BY <1>3, <1>4, <1>5

\* do_add takes no name away.
LEMMA AddOutlives ==
  ASSUME NEW t, Well(t), NEW key \in Keys, NEW res \in Resources
  PROVE  Outlives(t, do_add(t, key, res))
  BY AddKeepsWell, ResolvesIffKnown, AddKnown DEF Outlives

\* Nor does do_remove followed by do_add of the same key, except what
\* do_remove may take away.
LEMMA ReplaceOutlives ==
  ASSUME NEW t, Well(t), NEW key \in DOMAIN t.resources,
         NEW v \in do_remove(t, key), NEW res \in Resources
  PROVE  Outlives(t, do_add(v, key, res))
<1> DEFINE u == do_add(v, key, res)
<1>1. key \in Keys /\ Well(v) /\ Well(u)
  BY RemoveKeepsWell, AddKeepsWell DEF Well
<1> SUFFICES ASSUME NEW s \in {get_shortcut_name(k) : k \in DOMAIN t.resources},
                    Resolves(t, s), ~Resolves(u, s)
             PROVE  \A k \in DOMAIN u.resources : get_shortcut_name(k) # s
  BY DEF Outlives
<1>2. s \notin Known(v) /\ s # key /\ s # get_shortcut_name(key)
  BY <1>1, ResolvesIffKnown, AddKnown
<1>3. ~Resolves(v, s)
  BY <1>1, <1>2, ResolvesIffKnown
<1>4. \A k \in DOMAIN v.resources : get_shortcut_name(k) # s
  BY <1>2, <1>3, RemoveOutlives, RemoveKnown DEF Outlives
<1>5. QED
  BY <1>2, <1>4, AddKnown

\* After replace_all every simple name of a registered resource resolves.
LEMMA ReplaceAllKnown ==
  ASSUME NEW batch \in SUBSET Names, NEW new \in [batch -> Resources],
         NEW u \in replace_all(new), NEW k \in DOMAIN u.resources
  PROVE  get_shortcut_name(k) \in Known(u)
<1> DEFINE Loaded(a)  == [x \in {short_name(n) : n \in a} |->
                            new[CHOOSE n \in a : short_name(n) = x]]
           Choices(a) == FirstChoices({short_name(n) : n \in a})
<1>1. \E a \in SUBSET batch :
        u \in {[resources |-> Loaded(a), short_names |-> g] : g \in Choices(a)}
  BY DEF replace_all
<1>2. PICK a \in SUBSET batch :
        u.resources = Loaded(a) /\ u.short_names \in Choices(a)
  <2> HIDE DEF Loaded, Choices
  <2>1. QED
    BY <1>1
<1>3. DOMAIN u.resources = {short_name(n) : n \in a}
  BY <1>2
<1>4. DOMAIN u.short_names =
        {get_shortcut_name(x) : x \in {y \in DOMAIN u.resources : get_shortcut_name(y) # y}}
  BY <1>2, <1>3 DEF FirstChoices
<1>5. QED
  BY <1>4 DEF Known

\* Every operation satisfies ShortcutOutlivesRemoval.
LEMMA NextOutlives ==
  IInv /\ [Next]_vars => [Outlives(table, table')]_vars
<1> SUFFICES ASSUME Well(table), Next
             PROVE  Outlives(table, table')
  BY DEF IInv
<1>0. ASSUME table' = table
      PROVE  Outlives(table, table')
  BY <1>0 DEF Outlives
<1>1. ASSUME NEW n \in Names, NEW res \in Resources, add(n, res)
      PROVE  Outlives(table, table')
  BY <1>0, <1>1, ShortNameIsKey, AddOutlives DEF add
<1>2. ASSUME NEW key \in UsedKeys, NEW res \in Resources, add_string(key, res)
      PROVE  Outlives(table, table')
  BY <1>0, <1>2, ShortNameIsKey, AddOutlives DEF add_string, UsedKeys
<1>3. ASSUME NEW n \in Names, remove(n)
      PROVE  Outlives(table, table')
  BY <1>0, <1>3, RemoveOutlives DEF remove, RemoveThrows
<1>4. ASSUME NEW n \in Names, NEW res \in Resources \cup {NoResource},
             replace_one(n, res)
      PROVE  Outlives(table, table')
  <2>1. CASE RemoveThrows(table, short_name(n))
    BY <1>0, <1>4, <2>1 DEF replace_one
  <2>2. CASE ~RemoveThrows(table, short_name(n))
    <3>1. PICK t \in do_remove(table, short_name(n)) :
               table' = IF res = NoResource \/ IsEmptyName(n)
                        THEN t ELSE do_add(t, short_name(n), res)
      BY <1>4, <2>2 DEF replace_one
    <3>2. short_name(n) \in DOMAIN table.resources
      BY <2>2 DEF RemoveThrows
    <3>3. CASE res = NoResource \/ IsEmptyName(n)
      BY <3>1, <3>2, <3>3, RemoveOutlives
    <3>4. CASE ~(res = NoResource \/ IsEmptyName(n))
      BY <3>1, <3>2, <3>4, ReplaceOutlives
    <3>5. QED
      BY <3>3, <3>4
  <2>3. QED
    BY <2>1, <2>2
<1>5. ASSUME NEW batch \in SUBSET Names, NEW new \in [batch -> Resources],
             ReplaceAll(new)
      PROVE  Outlives(table, table')
  <2>1. table' \in replace_all(new) /\ Well(table')
    BY <1>5, ReplaceAllIsWell DEF ReplaceAll
  <2>2. \A k \in DOMAIN table'.resources : Resolves(table', get_shortcut_name(k))
    BY <2>1, ReplaceAllKnown, ResolvesIffKnown
  <2>3. QED
    BY <2>2 DEF Outlives
<1>6. QED
  BY <1>1, <1>2, <1>3, <1>4, <1>5 DEF Next

\* A simple name stops resolving in a ResourceManager only when the last
\* resource with that name, or the local one of exactly that name, goes: in
\* every behaviour, for any Names and any iteration order of the maps.
THEOREM SimpleNamesOutliveRemoval == Spec => ShortcutOutlivesRemoval
<1>1. IInv /\ [Next]_vars =>
        [\A s \in {get_shortcut_name(k) : k \in DOMAIN table.resources} :
           Resolves(table, s) /\ ~Resolves(table', s) =>
             \/ \A k \in DOMAIN table'.resources : get_shortcut_name(k) # s
             \/ s \in DOMAIN table.resources /\ s \notin DOMAIN table'.resources]_vars
  BY NextOutlives DEF Outlives
<1>2. QED
  BY <1>1, InitWell, NextWell, PTL DEF Spec, ShortcutOutlivesRemoval

\* An add leaves what every other known name resolves to as it is.
THEOREM AddsKeepResolution == Spec => AddKeepsResolution
<1>1. ASSUME NEW t, Well(t), NEW key \in Keys, NEW res \in Resources,
             key \notin DOMAIN t.resources,
             NEW s \in Known(t), s # key
      PROVE  resource(do_add(t, key, res), s) = resource(t, s)
  <2> DEFINE u == do_add(t, key, res)
  <2>1. /\ u.resources = Emplace(t.resources, key, res)
        /\ s \in DOMAIN t.short_names =>
             /\ s \in DOMAIN u.short_names
             /\ u.short_names[s] = t.short_names[s]
    BY <1>1 DEF do_add, Emplace
  <2>2. \A k \in DOMAIN t.resources : k \in DOMAIN u.resources
                                       /\ u.resources[k] = t.resources[k]
    BY <2>1 DEF Emplace
  <2>3. CASE s \in DOMAIN t.resources
    BY <2>2, <2>3 DEF resource
  <2>4. CASE s \notin DOMAIN t.resources
    <3>1. s \in DOMAIN t.short_names /\ t.short_names[s] \in DOMAIN t.resources
      BY <1>1, <2>4 DEF Known, Well
    <3>2. s \notin DOMAIN u.resources
      BY <1>1, <2>1, <2>4 DEF Emplace
    <3>3. QED
      BY <2>1, <2>2, <2>4, <3>1, <3>2 DEF resource
  <2>5. QED
    BY <2>3, <2>4
<1>2. IInv /\ [Next]_vars =>
        [call' = "add" =>
           \A s \in DOMAIN table.resources \cup DOMAIN table.short_names :
             s \notin DOMAIN table'.resources \ DOMAIN table.resources =>
               resource(table', s) = resource(table, s)]_vars
  <2> SUFFICES ASSUME Well(table), Next, call' = "add",
                      NEW s \in Known(table),
                      s \notin DOMAIN table'.resources \ DOMAIN table.resources
               PROVE  resource(table', s) = resource(table, s)
    BY DEF IInv, Known
  <2>1. CASE table' = table
    BY <2>1
  <2>2. CASE \E key \in Keys, res \in Resources :
               key \notin DOMAIN table.resources /\ table' = do_add(table, key, res)
    <3>1. PICK key \in Keys, res \in Resources :
            key \notin DOMAIN table.resources /\ table' = do_add(table, key, res)
      BY <2>2
    <3>2. s # key
      BY <3>1, AddKnown
    <3>3. QED
      BY <1>1, <3>1, <3>2
  <2>3. QED
    BY <2>1, <2>2, ShortNameIsKey
       DEF Next, add, add_string, remove, replace_one, ReplaceAll, AddThrows, UsedKeys
<1>3. QED
  BY <1>2, InitWell, NextWell, PTL DEF Spec, AddKeepsResolution

-----------------------------------------------------------------------------
\* A remote in front makes a key longer by as much.
LEMMA PrefixedIsLonger ==
  ASSUME NEW r \in Seq(Parts), NEW m \in Keys
  PROVE  Len(m) \in Nat /\ Len(m) # 0 /\ Len(r \o m) = Len(r) + Len(m)
<1>1. m \in Seq(Parts) /\ Len(m) \in Nat /\ Len(m) # 0 /\ Len(r) \in Nat
  BY DEF Keys
<1> QED BY <1>1

\* Three parts are too many for a simple key.
LEMMA TwoAndMore ==
  ASSUME NEW x \in Nat, x # 0
  PROVE  2 + x \notin 1..2
  OBVIOUS

\* A simple key comes through a string unchanged.
LEMMA KeyThroughString ==
  ASSUME NEW n \in Names, IsSimple(short_name(n))
  PROVE  short_name(from_string(to_string(n))) = short_name(n)
<1> DEFINE k == short_name(n)
<1>1. k \in Seq(Parts) /\ Len(k) \in 1..2
  <2>1. k \in Seq(Parts)
    BY ShortNameIsKey DEF Keys
  <2>2. Len(k) = 1 \/ Len(k) = 2
    BY Zenon DEF IsSimple
  <2> HIDE DEF k
  <2> QED BY <2>1, <2>2
<1>2. ~HasSlash(k) /\ (Len(k) = 1 \/ k[1] # "")
  BY Zenon DEF IsSimple
<1>3. n.remote # <<"", "">>
  <2> SUFFICES ASSUME n.remote = <<"", "">> PROVE FALSE
    OBVIOUS
  <2> DEFINE m == n.name
             r == n.remote
  <2>1. m \in Seq(Parts) /\ m # << >> /\ r \in Seq(Parts)
    BY NamesAssumption DEF Keys
  <2>2. Len(r) = 2
    <3>1. \A x, y : Len(<<x, y>>) = 2
      OBVIOUS
    <3> QED BY <3>1, Zenon
  <2>3. k = r \o m
    BY DEF short_name
  <2> HIDE DEF k, m, r
  <2>4. Len(m) \in Nat /\ Len(m) # 0 /\ Len(r \o m) = Len(r) + Len(m)
    BY <2>1, PrefixedIsLonger DEF Keys
  <2>5. Len(k) = 2 + Len(m)
    BY <2>2, <2>3, <2>4, Zenon
  <2> QED BY <1>1, <2>4, <2>5, TwoAndMore, Zenon
<1>4. to_string(n) = [api |-> n.api, path |-> k]
  BY <1>3, Zenon DEF to_string
<1> HIDE DEF k
<1>5. UpToSlash(k) = k
  BY <1>2, Zenon DEF UpToSlash
<1>6. CASE Len(k) = 1
  <2>1. << >> \o <<k[1]>> = k
    BY <1>1, <1>6
  <2>2. short_name(from_string([api |-> n.api, path |-> k])) = << >> \o <<k[1]>>
    <3>1. ~(Len(k) > 1)
      BY <1>6
    <3> QED BY <1>5, <3>1 DEF short_name, from_string
  <2> QED BY <1>4, <2>1, <2>2 DEF k
<1>7. CASE Len(k) = 2
  <2>1. <<k[1]>> \o <<k[2]>> = k
    BY <1>1, <1>7
  <2>2. k[1] # "" /\ Len(k) > 1
    <3>1. Len(k) # 1 /\ Len(k) > 1
      BY <1>7
    <3> QED BY <1>2, <3>1, Zenon
  <2>3. short_name(from_string([api |-> n.api, path |-> k])) = <<k[1]>> \o <<k[2]>>
    BY <1>5, <2>2, Zenon DEF short_name, from_string
  <2> QED BY <1>4, <2>1, <2>3 DEF k
<1> QED BY <1>1, <1>6, <1>7

(***************************************************************************)
(* For every set of Names: the string that viam-server sends for a         *)
(* resource of a valid API, behind at most one remote, with neither a      *)
(* slash nor a colon in front in its name, leads RemoveResource to it.     *)
(***************************************************************************)
THEOREM StringsLeadToResources == Spec => []StringsReachResources
<1>1. StringsReachResources
  BY KeyThroughString DEF StringsReachResources, FromStringThrows, to_string
<1> QED BY <1>1, PTL
=============================================================================
