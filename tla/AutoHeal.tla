------------------------------ MODULE AutoHeal ------------------------------
(***************************************************************************)
(* The repair of a DiagnosticPipeline run with autoHeal: every finding of  *)
(* high severity is repaired at the same time as the others (Promise.all), *)
(* each repair is a reading of the file, a call of the language model, and *)
(* then the patch of PatchManager, which moves the file to <file>.bak,     *)
(* writes the new text and has it audited before it removes the backup.    *)
(* Repairs of one file share the file and the name of its backup.          *)
(***************************************************************************)
EXTENDS FiniteSets

CONSTANTS
    Findings,   \* the findings to repair; a finding stands for its issue too
    HealedFiles,
    User        \* the author of a file no repair has written

ASSUME HealAssumption == User \notin Findings

VARIABLES
    fileOf,     \* the file of each finding
    file, bak,  \* what each file and its backup hold
    heal,       \* where each repair is
    plan,       \* the text each repair read
    pipeline    \* where the pipeline is

healVars == <<fileOf, file, bak, heal, plan, pipeline>>

\* A text is who wrote it and which issues it has.
Texts == [by : Findings \cup {User}, issues : SUBSET Findings]
Absent == [by |-> "nobody", issues |-> {}]
Torn == [by |-> "cut short", issues |-> {}]
Original(f) == [by |-> User, issues |-> {h \in Findings : fileOf[h] = f}]

InFlight == {"found", "planned", "validating"}
Settled == {"declined", "confirmed", "rejected", "failed"}

HealInit ==
    /\ fileOf \in [Findings -> HealedFiles]
    /\ file = [f \in HealedFiles |-> Original(f)]
    /\ bak = [f \in HealedFiles |-> Absent]
    /\ heal = [h \in Findings |-> "found"]
    /\ plan = [h \in Findings |-> Absent]
    /\ pipeline = "healing"

At(h, place) == pipeline # "dead" /\ heal[h] = place
Goes(h, place) == heal' = [heal EXCEPT ![h] = place]

\* healFinding, after its wait for getContext, reads the file into the plan.
Plan(h) ==
    /\ At(h, "found") /\ Goes(h, "planned")
    /\ plan' = [plan EXCEPT ![h] = file[fileOf[h]]]
    /\ UNCHANGED <<fileOf, file, bak, pipeline>>

\* A read that throws rejects this repair, and with it Promise.all: the pipeline
\* ends, while the other repairs go on.
Fail(h) ==
    /\ At(h, "found") /\ Goes(h, "failed")
    /\ pipeline' = IF pipeline = "healing" THEN "failed" ELSE pipeline
    /\ UNCHANGED <<fileOf, file, bak, plan>>

\* No answer, or one without a block of code.
Decline(h) ==
    /\ At(h, "planned") /\ Goes(h, "declined")
    /\ UNCHANGED <<fileOf, file, bak, plan, pipeline>>

\* What the model may answer: the text of the plan with the issue, or without it.
Suggestions(h) == {[by |-> h, issues |-> i] : i \in {plan[h].issues, plan[h].issues \ {h}}}

\* applyAndValidate runs without an await from the rename to the audit.
Patch(h) ==
    /\ At(h, "planned") /\ Goes(h, "validating")
    /\ \E t \in Suggestions(h) :
         /\ bak' = [bak EXCEPT ![fileOf[h]] = file[fileOf[h]]]
         /\ file' = [file EXCEPT ![fileOf[h]] = t]
    /\ UNCHANGED <<fileOf, plan, pipeline>>

\* A write that throws is undone at once; the backup of a rival has been replaced.
WriteFails(h) ==
    /\ At(h, "planned") /\ Goes(h, "rejected")
    /\ bak' = [bak EXCEPT ![fileOf[h]] = Absent]
    /\ UNCHANGED <<fileOf, file, plan, pipeline>>

\* The validating audit is given the orchestrator, which has no map of files: it
\* reads none, so it finds nothing, and what it finds cannot be the issue.
Confirm(h) ==
    /\ At(h, "validating") /\ Goes(h, "confirmed")
    /\ bak' = [bak EXCEPT ![fileOf[h]] = Absent]
    /\ UNCHANGED <<fileOf, file, plan, pipeline>>

\* The audit throws: revert, if there is still a backup.
Reject(h) ==
    /\ At(h, "validating") /\ Goes(h, "rejected")
    /\ LET f == fileOf[h]
       IN IF bak[f] = Absent THEN UNCHANGED <<file, bak>>
          ELSE file' = [file EXCEPT ![f] = bak[f]] /\ bak' = [bak EXCEPT ![f] = Absent]
    /\ UNCHANGED <<fileOf, plan, pipeline>>

Confirmed == {h \in Findings : heal[h] = "confirmed"}
AllSettled == \A h \in Findings : heal[h] \in Settled

\* Promise.all: the discovery is repeated if a repair was confirmed.
Resume ==
    /\ pipeline = "healing" /\ AllSettled
    /\ pipeline' = IF Confirmed = {} THEN "reporting" ELSE "revalidating"
    /\ UNCHANGED <<fileOf, file, bak, heal, plan>>

\* Faulty: a process that ends in a patch has no backup.
DieInPlace ==
    /\ pipeline # "dead" /\ pipeline' = "dead"
    /\ \/ UNCHANGED <<file, bak>>
       \/ \E h \in Findings :
            /\ heal[h] = "planned"
            /\ file' = [file EXCEPT ![fileOf[h]] = Torn] /\ UNCHANGED bak
    /\ UNCHANGED <<fileOf, heal, plan>>

\* The process ends, anywhere or inside a patch: after the rename, or in the write.
Die ==
    /\ pipeline # "dead" /\ pipeline' = "dead"
    /\ \/ UNCHANGED <<file, bak>>
       \/ \E h \in Findings, rest \in {Absent, Torn} :
            /\ heal[h] = "planned"
            /\ bak' = [bak EXCEPT ![fileOf[h]] = file[fileOf[h]]]
            /\ file' = [file EXCEPT ![fileOf[h]] = rest]
    /\ UNCHANGED <<fileOf, heal, plan>>

HealNext ==
    \/ \E h \in Findings :
         \/ Plan(h) \/ Fail(h) \/ Decline(h) \/ Patch(h) \/ WriteFails(h)
         \/ Confirm(h) \/ Reject(h)
    \/ Resume \/ Die

HealSpec == HealInit /\ [][HealNext]_healVars

-----------------------------------------------------------------------------
HealTypeOK ==
    /\ fileOf \in [Findings -> HealedFiles]
    /\ file \in [HealedFiles -> Texts \cup {Absent, Torn}]
    /\ bak \in [HealedFiles -> Texts \cup {Absent}]
    /\ heal \in [Findings -> InFlight \cup Settled]
    /\ plan \in [Findings -> Texts \cup {Absent}]
    /\ pipeline \in {"healing", "failed", "revalidating", "reporting", "dead"}

\* Of every file there is a whole text, in its place or as its backup, in spite of
\* repairs that share the backup and of a process that ends inside a patch
\* (PatchManager.applyAndValidate).
NothingLost == \A f \in HealedFiles : file[f] \in Texts \/ bak[f] \in Texts

\* A repair that is confirmed has removed its issue ("Cura CONFIRMADA").
ConfirmedMeansFixed == \A h \in Confirmed : h \notin file[fileOf[h]].issues
=============================================================================
