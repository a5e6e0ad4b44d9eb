-------------------------- MODULE ResourceStrings --------------------------
(***************************************************************************)
(* The strings that viam-server and a module name resources by, and where  *)
(* they lead in a ResourceManager.  AddResource puts a resource under the  *)
(* Name of its configuration; RemoveResource looks for the Name that       *)
(* Name::from_string reads from a string.                                  *)
(*                                                                         *)
(* The string "api/path" is the record of its two sides, the path being a  *)
(* key.  A part of a path may hold a slash itself.                         *)
(***************************************************************************)
EXTENDS ResourceManager

CONSTANTS ValidApis,   \* the APIs that NAME_REGEX and API::from_string take
          BeforeSlash  \* of each part, what is before its first slash

ASSUME StringsAssumption == BeforeSlash \in [Parts -> Parts]

HasSlash(path) == \E i \in DOMAIN path : BeforeSlash[path[i]] # path[i]

\* Name::to_string: "api/name", or "api/remote:name", a remote ":" being left out.
to_string(n) ==
  [api |-> n.api, path |-> IF n.remote = <<"", "">> THEN n.name ELSE short_name(n)]

FromStringThrows(s) == s.api \notin ValidApis

\* slash_splits.at(1): the path as far as its first slash.
UpToSlash(path) ==
  IF ~HasSlash(path) THEN path
  ELSE LET cut == CHOOSE i \in DOMAIN path :
                    /\ BeforeSlash[path[i]] # path[i]
                    /\ ~HasSlash(SubSeq(path, 1, i - 1))
       IN  Append(SubSeq(path, 1, cut - 1), BeforeSlash[path[cut]])

\* Mutant: the remote is taken for the name.
from_string_takes_remote(s) == [api |-> s.api, remote |-> << >>, name |-> <<UpToSlash(s.path)[1]>>]

\* Name::from_string: the first two of the parts between colons.  A third is lost,
\* and an empty first one is no remote.
from_string(s) ==
  LET path == UpToSlash(s.path)
  IN  [api    |-> s.api,
       remote |-> IF Len(path) > 1 /\ path[1] # "" THEN <<path[1]>> ELSE << >>,
       name   |-> IF Len(path) > 1 THEN <<path[2]>> ELSE <<path[1]>>]

(***************************************************************************)
(* viam-server names a resource to a module by a string.  The Name that    *)
(* RemoveResource reads from it reaches the resource that AddResource put  *)
(* under the Name of its configuration, as long as that has a valid API,   *)
(* no more than one remote, no slash and no colon in front: a second       *)
(* remote makes from_string lose the name, a slash its end, and of ":a" it *)
(* makes "a".                                                              *)
(***************************************************************************)
IsSimple(key) ==
  /\ ~HasSlash(key)
  /\ Len(key) = 1 \/ (Len(key) = 2 /\ key[1] # "")

StringsReachResources ==
  \A n \in Names :
    n.api \in ValidApis /\ IsSimple(short_name(n)) =>
      LET read == from_string(to_string(n))
      IN  /\ ~FromStringThrows(to_string(n))
          /\ RemoveThrows(table, short_name(read)) <=> RemoveThrows(table, short_name(n))
          /\ resource(table, short_name(read)) = resource(table, short_name(n))
=============================================================================
