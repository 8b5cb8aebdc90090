-------------------------- MODULE MCSourceControl --------------------------
(* Instances of SourceControl for TLC. *)
EXTENDS SourceControl

Clone(world, moves) ==
  [world |-> world, init |-> world = "init", moves |-> moves, conf |-> "ok", upstream |-> TRUE,
   elsewhere |-> FALSE, shadow |-> FALSE, unsafe |-> FALSE, protected |-> FALSE]

(* Each story names the acts of the others that it is about. *)
Stories ==
  {Clone("drafting", {"put", "edit", "link", "stage", "commit"}),
   Clone("drafting", {"put", "policy", "discard", "other"}),
   Clone("review", {"put", "code", "base", "other", "pull"}),
   Clone("review", {"code", "spec", "fetch", "switch", "edit"}),
   Clone("review", {"spec", "code", "join", "edit", "stage", "commit"}),
   Clone("review", {"spec", "put", "discard", "other", "switch"}),
   Clone("review", {"put", "push", "close", "switch"}),
   Clone("review", {"merge", "squash", "revert", "reland"}),
   Clone("landed", {"merge", "close", "code"}),
   Clone("init", {"init", "code", "other", "switch", "cut"})}

(* Clones whose configuration makes the SCM refuse. *)
Odd ==
  LET drafting == Clone("drafting", {"put", "stage"})
      review == Clone("review", {"code", "switch"})
      init == Clone("init", {"init", "code"})
  IN {[review EXCEPT !.conf = c] : c \in {"none", "credential", "redirected"}}
     \cup {[drafting EXCEPT !.unsafe = TRUE], [drafting EXCEPT !.protected = TRUE],
           [review EXCEPT !.unsafe = TRUE], [review EXCEPT !.shadow = TRUE],
           [review EXCEPT !.elsewhere = TRUE], [init EXCEPT !.elsewhere = TRUE],
           [init EXCEPT !.shadow = TRUE], [init EXCEPT !.upstream = FALSE]}

AllSetups == Stories \cup Odd
=============================================================================
