--------------------------- MODULE MCLocalSession ---------------------------
(***************************************************************************)
(* A Worker A session with two calls in flight at most, a projection of one *)
(* shared and one test file, and paths of every verdict.                    *)
(***************************************************************************)
EXTENDS LocalSession

CONSTANTS c1, c2, c3

PolicyEntries ==
  << [path |-> <<"docs">>,  dir |-> TRUE, class |-> "shared", canonical |-> TRUE],
     [path |-> <<"tests">>, dir |-> TRUE, class |-> "test", canonical |-> TRUE],
     [path |-> <<"src">>,   dir |-> TRUE, class |-> "implementation", canonical |-> TRUE] >>

ASSUME PolicyIsValid(1, PolicyEntries)

SessionClasses == ParsePolicy(PolicyEntries)

Old == <<"tests", "old">>
New == <<"tests", "new">>
Doc == <<"docs", "guide">>
Code == <<"src", "main">>

ThreeCallers == {c1, c2, c3}

ProjectionPaths == {Old, Doc}

GitArguments ==
  { [sub |-> "log", flags |-> {"-p"}, operands |-> {"inside"}, sentinel |-> FALSE],
    [sub |-> "fetch", flags |-> {}, operands |-> {}, sentinel |-> FALSE] }

FetchRequests ==
  { [executable |-> "approved-fetch", destination |-> "name", protocol |-> "https", rule |-> TRUE],
    [executable |-> "approved-fetch", destination |-> "name", protocol |-> "https", rule |-> FALSE] }

(* Files beside one kind of waiting call; every kind of waiting call; and   *)
(* three callers for two processes.                                         *)
SessionWorkloads ==
  { [callers |-> {c1, c2}, paths |-> {Old, New, Code}, sizes |-> {1, 2},
     git |-> {}, network |-> {}, execs |-> {"burn"}],
    [callers |-> {c1, c2}, paths |-> {}, sizes |-> {},
     git |-> GitArguments, network |-> FetchRequests, execs |-> {"sleep", "other"}],
    [callers |-> {c1, c2, c3}, paths |-> {}, sizes |-> {},
     git |-> {}, network |-> {}, execs |-> {"sleep"}] }
=============================================================================
