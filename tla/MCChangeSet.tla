---------------------------- MODULE MCChangeSet ----------------------------
(* Instances of ChangeSet for TLC. *)
EXTENDS ChangeSet

Apart == [p |-> "one", q |-> "two"]
Shared == [p |-> "one", q |-> "one"]
Story(world, clone, moves, calls, acts, faults) ==
  [world |-> world, clone |-> clone, moves |-> moves,
   slug |-> [p |-> "a", q |-> "b"], commit |-> [p |-> 2, q |-> 3],
   bounds |-> [calls |-> calls, moves |-> acts, faults |-> faults]]

Stories ==
  {Story("project", Apart, {"commit", "fetch", "publish", "land"}, 2, 3, 1),
   Story("project", Shared, {"commit", "switch"}, 2, 2, 1),
   Story("init", Apart, {"commit", "fetch", "publish", "land"}, 2, 3, 1),
   Story("review", Apart, {"commit", "fetch", "merge", "rename"}, 2, 4, 0),
   Story("review", Apart, {"commit", "fetch", "merge", "keep ours", "publish", "land"}, 1, 6, 0)}
Collision == {Story("review", Apart, {"commit", "fetch", "keep ours", "publish", "land", "rename"}, 2, 7, 0)}
=============================================================================
