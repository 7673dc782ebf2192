----------------------------- MODULE MCJobSystem -----------------------------
(* JobSystem as TLC tells its states apart. *)
EXTENDS JobSystem

(* What a call of push or pop leaves in its locals, the next one overwrites. *)
Live(calls, between) == [t \in DOMAIN calls |-> IF at[t] = "idle" THEN between ELSE calls[t]]

(* Two states with the same view have the same future: no step reads the    *)
(* locals of a call that has returned, and of what the queue has delivered  *)
(* a step reads only what it adds, and the properties how often each        *)
(* context was handed out, the undefined one included.                      *)
LiveState ==
  <<data, status, head, tail, at, Live(push, "none"), Live(pop, "none"), pushes, rejected,
    [j \in Jobs \cup {Q!Undefined} |-> Handed(j)],
    jobs, pc, locals, workers, signals>>

=============================================================================
