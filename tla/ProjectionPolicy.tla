-------------------------- MODULE ProjectionPolicy --------------------------
(***************************************************************************)
(* The version-1 projection policy of the job-site package                  *)
(* (source-control-manager/internal/jobsite/policy.go): which class a path  *)
(* has, and what each role may see and patch.                               *)
(*                                                                          *)
(* A path is a non-empty sequence of components.  A policy entry names a    *)
(* file or a directory (the trailing slash of the YAML document).  The      *)
(* YAML decoding is left out: a document is its sequence of entries, and    *)
(* canonicalPath's verdict on an entry is one of its fields.                *)
(***************************************************************************)
EXTENDS Naturals, Sequences, FiniteSets, SequencesExt

RoleWorkerA == "worker-a"
RoleWorkerB == "worker-b"
RoleIntegration == "integration"
WorkerRoles == {RoleWorkerA, RoleWorkerB}

ClassUnclassified == "unclassified"
projectionClasses ==
  {"shared", "test", "implementation", "integration-only", "attestation-only"}

(* The key an entry takes in the class map, and its counterpart: the same   *)
(* path as the other of file and directory.                                 *)
Key(path, dir) == [path |-> path, dir |-> dir]
Counterpart(k) == [k EXCEPT !.dir = ~@]

EntryKey(e) == Key(e.path, e.dir)

(* Every entry names a known class and a canonical path, and no path is     *)
(* classified twice, whether as a file or as a directory.                   *)
PolicyIsValid(version, entries) ==
  /\ version = 1
  /\ \A i \in DOMAIN entries :
       /\ entries[i].class \in projectionClasses
       /\ entries[i].canonical
       /\ \A j \in 1 .. i - 1 :
            EntryKey(entries[j]) \notin {EntryKey(entries[i]),
                                         Counterpart(EntryKey(entries[i]))}

ParsePolicy(entries) ==
  [k \in {EntryKey(entries[i]) : i \in DOMAIN entries} |->
     (CHOOSE e \in Range(entries) : EntryKey(e) = k).class]

(* The directories whose entry covers a path: the path itself and every     *)
(* ancestor that the policy lists as a directory.                           *)
CoveringDirs(classes, path) ==
  {n \in 1 .. Len(path) : Key(SubSeq(path, 1, n), TRUE) \in DOMAIN classes}

(* The exact file entry first, then the nearest enclosing directory.        *)
lookup(classes, path) ==
  LET dirs == CoveringDirs(classes, path) IN
  IF Key(path, FALSE) \in DOMAIN classes THEN classes[Key(path, FALSE)]
  ELSE IF dirs = {} THEN ClassUnclassified
  ELSE classes[Key(SubSeq(path, 1, CHOOSE n \in dirs : \A m \in dirs : m <= n), TRUE)]

Classify(classes, path) == lookup(classes, path)

VisibleTo(classes, role, path) ==
  CASE role = RoleWorkerA     -> Classify(classes, path) \in {"shared", "test"}
    [] role = RoleWorkerB     -> Classify(classes, path) \in {"shared", "implementation"}
    [] role = RoleIntegration -> TRUE
    [] OTHER                  -> FALSE

WritableBy(classes, role, path) ==
  CASE role = RoleWorkerA     -> Classify(classes, path) = "test"
    [] role = RoleWorkerB     -> Classify(classes, path) = "implementation"
    [] role = RoleIntegration -> Classify(classes, path) # "attestation-only"
    [] OTHER                  -> FALSE
=============================================================================
