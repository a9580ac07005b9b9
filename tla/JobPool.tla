------------------------------ MODULE JobPool ------------------------------
(***************************************************************************)
(* What a worker pool promises, without a queue or a scheduler: a          *)
(* submitted job is pending, then running, then done, each at most once,   *)
(* no job is dropped, and no more than MaxConcurrency jobs run together.   *)
(*                                                                         *)
(* It abstracts src_local/core/task_worker_pool.ts; TaskWorkerPool         *)
(* implements it.                                                          *)
(***************************************************************************)
EXTENDS Naturals, FiniteSets

CONSTANT MaxConcurrency

VARIABLES pending, running, done

vars == <<pending, running, done>>

Init ==
  /\ pending = {}
  /\ running = {}
  /\ done = {}

Disjoint(P, R, D) == P \cap R = {} /\ P \cap D = {} /\ R \cap D = {}

\* One turn: jobs arrive, begin and end, in any combination.
Next ==
  /\ pending \subseteq pending' \cup running'
  /\ running \subseteq running' \cup done'
  /\ done \subseteq done'
  /\ done' \subseteq done \cup running
  /\ Disjoint(pending', running', done')
  /\ IsFiniteSet(running')
  /\ Cardinality(running') <= MaxConcurrency

Spec == Init /\ [][Next]_vars
=============================================================================
