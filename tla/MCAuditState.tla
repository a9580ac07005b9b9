---------------------------- MODULE MCAuditState ----------------------------
(***************************************************************************)
(* An instance of AuditState.  The processes are interchangeable, and every *)
(* property checked is an invariant: one of each two states that differ by  *)
(* the names of the processes is enough.  A file that no agent is begins    *)
(* with a flaw, an agent with or without one: either may be edited away or  *)
(* in, and the other kinds of a first project add nothing.                  *)
(***************************************************************************)
EXTENDS AuditState, TLC

ProcSymmetry == Permutations(Procs)

FlawedInit == Init /\ \A f \in Files \ Agents : content[f] = "flawed"

FlawedSpec == FlawedInit /\ [][Next]_vars
=============================================================================
