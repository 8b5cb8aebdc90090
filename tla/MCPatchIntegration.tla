------------------------- MODULE MCPatchIntegration -------------------------
(***************************************************************************)
(* A small source tree with a file of every class and a pair of bundles per *)
(* Worker, one of them with a forbidden or a misfitting operation.          *)
(***************************************************************************)
EXTENDS PatchIntegration, TLC

CONSTANTS p1, p2

Entry(path, dir, class) == [path |-> path, dir |-> dir, class |-> class, canonical |-> TRUE]

GoodEntries == << Entry(<<"docs">>, TRUE, "shared"), Entry(<<"tests">>, TRUE, "test"),
                  Entry(<<"src">>, TRUE, "implementation"),
                  Entry(<<"src", "gen">>, FALSE, "shared") >>

PolicyDocuments ==
  { [version |-> 1, entries |-> GoodEntries],
    [version |-> 2, entries |-> GoodEntries],
    [version |-> 1, entries |-> GoodEntries \o << Entry(<<"tests">>, FALSE, "shared") >>] }

SourcePaths == { <<"docs", "guide">>, <<"tests", "old">>, <<"src", "gen">>, <<"ci", "deploy">> }
SourceLinks == { <<"ci", "deploy">> }

TwoAppliers == {p1, p2}
ApplierSymmetry == Permutations(TwoAppliers)

CaseFold == [x \in {"docs", "guide", "tests", "old", "OLD", "new", "src", "gen", "ci", "deploy"} |->
               IF x = "OLD" THEN "old" ELSE x]

Op(path, action) ==
  [path |-> path, action |-> action, mode |-> IF action = "delete" THEN "" ELSE "100644"]

(* add and fix touch the same new test; mixed also writes a shared file;    *)
(* clash differs from an existing path by case only.                        *)
BundlePayload ==
  "add"   :> [role |-> "worker-a", intact |-> TRUE, ops |-> {Op(<<"tests", "new">>, "create")}] @@
  "fix"   :> [role |-> "worker-a", intact |-> TRUE,
              ops |-> {Op(<<"tests", "new">>, "update"), Op(<<"tests", "old">>, "delete")}] @@
  "mixed" :> [role |-> "worker-b", intact |-> TRUE,
              ops |-> {Op(<<"src", "new">>, "create"), Op(<<"src", "gen">>, "update")}] @@
  "clash" :> [role |-> "worker-a", intact |-> TRUE, ops |-> {Op(<<"tests", "OLD">>, "create")}]

BundleNames == DOMAIN BundlePayload
=============================================================================
