--------------------------- MODULE MCRobotClient ---------------------------
(***************************************************************************)
(* RobotClient with lists of resources that grow, shrink, hold the same    *)
(* simple name on the machine (of an API whose clients may fail) and on a  *)
(* remote, beside one that only the remote has, and the same name under    *)
(* two APIs.                                                               *)
(***************************************************************************)
EXTENDS RobotClient

R(api, name) == [api |-> api, name |-> name]

TwoLists   == {{R("arm", <<"a">>)},
               {R("arm", <<"a">>), R("arm", <<"r1", "a">>)}}

RemoteLists == {{},
                {R("arm", <<"r1", "a">>), R("base", <<"a">>), R("arm", <<"r1", "b">>)},
                {R("arm", <<"a">>), R("base", <<"a">>), R("rdk", <<"b">>)}}

MCKnownApis == {"arm", "base"}

\* Which constructors may throw.
BasesFail == {"base"}
NoneFail  == {}
=============================================================================
