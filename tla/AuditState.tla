----------------------------- MODULE AuditState -----------------------------
(***************************************************************************)
(* What survives of an audit: the cache of hashes that says which files    *)
(* need no audit (CacheManager) and the ledger of unstable files           *)
(* (StabilityLedger).  Each process reads both files when it is built,     *)
(* keeps its own copies and writes a copy whole; the project is edited at  *)
(* any time, between the hash of a file and its audit too.                 *)
(***************************************************************************)
EXTENDS Integers, FiniteSets

CONSTANTS
    Files,        \* files of the audited project
    Agents,       \* those the ParityDaemon compares with a counterpart
    Procs,        \* processes that audit it: the server, a diagnostic run
    MaxEdits,     \* bound: edits of the project
    MaxMishaps    \* bound: audits that throw, flaws nobody answers for, processes that end

ASSUME AuditAssumption == Agents \subseteq Files /\ MaxEdits \in Nat /\ MaxMishaps \in Nat

VARIABLES
    content,      \* what each file holds now; it stands for its hash too
    diskCache, diskLedger,      \* the two files under .gemini
    phase,        \* where each process is
    cache, ledger,              \* its copies: currentCache, ledger
    changed,      \* the audit in progress: the hashes that differ from the cache
    todo,         \* the files it has still to hash, then to read
    found,        \* the files it has findings about
    told,         \* whether a file event is still to be handled
    backlog,      \* changed agents the ParityDaemon has still to compare
    audited,      \* history: the hashes with which an audit has come to each file
    excused,      \* history: files whose flaw the ledger may lack, see HiddenFlawOnRecord
    edits, mishaps

onDisk == <<diskCache, diskLedger>>
copies == <<cache, ledger>>
audit == <<phase, changed, todo, found>>
events == <<told, backlog>>
history == <<audited, excused>>
vars == <<content, onDisk, copies, audit, events, history, edits, mishaps>>

Qualities == {"clean", "flawed"}
Hashes == Qualities \cup {"none"}
Statuses == {"none", "UNSTABLE", "HEALED", "DISPARITY"}
Nothing == [f \in Files |-> "none"]

Init ==
    /\ content \in [Files -> Qualities]
    /\ diskCache = Nothing /\ diskLedger = Nothing
    /\ phase = [p \in Procs |-> "down"]
    /\ cache = [p \in Procs |-> Nothing] /\ ledger = [p \in Procs |-> Nothing]
    /\ changed = [p \in Procs |-> Nothing]
    /\ todo = [p \in Procs |-> {}] /\ found = [p \in Procs |-> {}]
    /\ told = [p \in Procs |-> FALSE] /\ backlog = [p \in Procs |-> {}]
    /\ audited = [f \in Files |-> {}] /\ excused = {}
    /\ edits = 0 /\ mishaps = 0

Up(p) == phase[p] # "down"
Changed(p) == {f \in Files : changed[p][f] # "none"}

\* The audit of p is over, as it ends or as it throws.
Rest(p) ==
    /\ phase' = [phase EXCEPT ![p] = "idle"]
    /\ changed' = [changed EXCEPT ![p] = Nothing]
    /\ todo' = [todo EXCEPT ![p] = {}] /\ found' = [found EXCEPT ![p] = {}]

\* The user, or a repair, writes a file; the hub tells every process that is up.
\* A file an audit has hashed and not yet stored is excused: the audit stores the
\* old hash beside what it finds in the new content.
Edit(f) ==
    /\ edits < MaxEdits /\ edits' = edits + 1
    /\ \E c \in Qualities \ {content[f]} : content' = [content EXCEPT ![f] = c]
    /\ told' = [p \in Procs |-> Up(p)]
    /\ backlog' = [p \in Procs |-> IF Up(p) THEN backlog[p] \cup ({f} \cap Agents) ELSE {}]
    /\ excused' = excused \cup {g \in {f} : \E p \in Procs : g \in Changed(p)}
    /\ UNCHANGED <<onDisk, copies, audit, audited, mishaps>>

\* The constructors of CacheManager and StabilityLedger; a file that cannot be
\* parsed counts as an empty one.
Boot(p) ==
    /\ ~Up(p)
    /\ phase' = [phase EXCEPT ![p] = "idle"]
    /\ cache' = [cache EXCEPT ![p] = diskCache]
    /\ ledger' = [ledger EXCEPT ![p] = diskLedger]
    /\ UNCHANGED <<content, onDisk, changed, todo, found, events, history, edits, mishaps>>

\* One audit at a time in a process: _isRunning.
StartAudit(p) ==
    /\ phase[p] = "idle"
    /\ phase' = [phase EXCEPT ![p] = "hashing"]
    /\ todo' = [todo EXCEPT ![p] = Files]
    /\ UNCHANGED <<content, onDisk, copies, changed, found, events, history, edits, mishaps>>

\* Faulty: the hash of a file enters the cache as soon as it is computed.
HashIntoCache(p, f) ==
    /\ phase[p] = "hashing" /\ f \in todo[p]
    /\ todo' = [todo EXCEPT ![p] = @ \ {f}]
    /\ changed' = IF cache[p][f] = content[f] THEN changed
                  ELSE [changed EXCEPT ![p][f] = content[f]]
    /\ cache' = [cache EXCEPT ![p][f] = content[f]]
    /\ UNCHANGED <<content, onDisk, ledger, phase, found, events, history, edits, mishaps>>

\* detectChanges hashes every mapped file and keeps the hashes the cache does not have.
Hash(p, f) ==
    /\ phase[p] = "hashing" /\ f \in todo[p]
    /\ todo' = [todo EXCEPT ![p] = @ \ {f}]
    /\ changed' = IF cache[p][f] = content[f] THEN changed
                  ELSE [changed EXCEPT ![p][f] = content[f]]
    /\ UNCHANGED <<content, onDisk, copies, phase, found, events, history, edits, mishaps>>

\* Promise.all of the hashes: what changed is what is to be audited.
DetectChanges(p) ==
    /\ phase[p] = "hashing" /\ todo[p] = {}
    /\ phase' = [phase EXCEPT ![p] = "auditing"]
    /\ todo' = [todo EXCEPT ![p] = Changed(p)]
    /\ UNCHANGED <<content, onDisk, copies, changed, found, events, history, edits, mishaps>>

\* enrichSingleFile comes to a file: an auditor answers with what is there, or
\* nobody does and that counts as no finding.  The path is one it ignores, or is
\* gone; there is no hub manager; the circuit is open, the hub fails or its answer
\* is empty, and LogicAuditor.scanFile answers [].  The scans that follow are given
\* no file: scanProject looks for a map inside the map.
Enrich(p, f) ==
    /\ phase[p] = "auditing" /\ f \in todo[p]
    /\ todo' = [todo EXCEPT ![p] = @ \ {f}]
    /\ audited' = [audited EXCEPT ![f] = @ \cup {changed[p][f]}]
    /\ \/ /\ found' = IF content[f] = "flawed" THEN [found EXCEPT ![p] = @ \cup {f}] ELSE found
          /\ UNCHANGED <<excused, mishaps>>
       \/ /\ content[f] = "flawed"
          /\ mishaps < MaxMishaps /\ mishaps' = mishaps + 1
          /\ excused' = excused \cup {f}
          /\ UNCHANGED found
    /\ UNCHANGED <<content, onDisk, copies, phase, changed, events, edits>>

\* Any await of the audit may throw; nothing is persisted.
Throw(p) ==
    /\ phase[p] \in {"hashing", "auditing"}
    /\ mishaps < MaxMishaps /\ mishaps' = mishaps + 1
    /\ Rest(p)
    /\ UNCHANGED <<content, onDisk, copies, events, history, edits>>

NewCache(p) == [f \in Files |-> IF changed[p][f] # "none" THEN changed[p][f] ELSE cache[p][f]]

\* Faulty: healed files are dropped from the ledger.
UpdateForgets(old, files) == [f \in Files |-> IF f \in files THEN "UNSTABLE" ELSE "none"]

\* StabilityLedger.update: what was found is UNSTABLE, and every other file of
\* the ledger is HEALED, whether this audit read it or not.
Update(old, files) == [f \in Files |->
    IF f \in files THEN "UNSTABLE" ELSE IF old[f] = "none" THEN "none" ELSE "HEALED"]

\* Files the ledger on disk has and this copy, about to replace it, lacks because
\* another process put them there.
Overwritten(p) == {f \in Files : diskLedger[f] # "none" /\ ledger[p][f] = "none"}

Done(p) == phase[p] = "auditing" /\ todo[p] = {}

\* persistAuditState has no await: both copies, then both files.
Persist(p) ==
    /\ Done(p)
    /\ cache' = [cache EXCEPT ![p] = NewCache(p)]
    /\ ledger' = [ledger EXCEPT ![p] = Update(@, found[p])]
    /\ diskCache' = cache'[p] /\ diskLedger' = ledger'[p]
    /\ excused' = excused \cup Overwritten(p)
    /\ Rest(p)
    /\ UNCHANGED <<content, events, audited, edits, mishaps>>

\* The audit that validates a repair (PatchManager) is given the orchestrator for
\* a context, which has no map: it reads nothing and persists.
ValidateRepair(p) ==
    /\ phase[p] = "idle"
    /\ ledger' = [ledger EXCEPT ![p] = Update(@, {})]
    /\ diskCache' = cache[p] /\ diskLedger' = ledger'[p]
    /\ excused' = excused \cup Overwritten(p)
                    \cup {f \in Files : cache[p][f] = "flawed" /\ ledger[p][f] = "none"}
    /\ UNCHANGED <<content, cache, audit, events, audited, edits, mishaps>>

\* The process ends: anywhere; while it writes the cache, which is left short and
\* will be read as empty; between the two writes; while it writes the ledger.
ProcessDies(p) ==
    /\ Up(p)
    /\ mishaps < MaxMishaps /\ mishaps' = mishaps + 1
    /\ phase' = [phase EXCEPT ![p] = "down"]
    /\ cache' = [cache EXCEPT ![p] = Nothing] /\ ledger' = [ledger EXCEPT ![p] = Nothing]
    /\ changed' = [changed EXCEPT ![p] = Nothing]
    /\ todo' = [todo EXCEPT ![p] = {}] /\ found' = [found EXCEPT ![p] = {}]
    /\ told' = [told EXCEPT ![p] = FALSE] /\ backlog' = [backlog EXCEPT ![p] = {}]
    /\ \/ UNCHANGED <<onDisk, excused>>
       \/ diskCache' = Nothing /\ UNCHANGED <<diskLedger, excused>>
       \/ /\ Done(p)
          /\ diskCache' = NewCache(p) /\ diskLedger' \in {diskLedger, Nothing}
          /\ excused' = Files
       \/ diskLedger' = Nothing /\ excused' = Files /\ UNCHANGED diskCache
    /\ UNCHANGED <<content, audited, edits>>

\* The Orchestrator answers a file event by writing the cache it has in memory.
SaveCache(p) ==
    /\ told[p] /\ told' = [told EXCEPT ![p] = FALSE]
    /\ diskCache' = cache[p]
    /\ excused' = excused \cup {f \in Files : cache[p][f] = "flawed" /\ diskLedger[f] = "none"}
    /\ UNCHANGED <<content, diskLedger, copies, audit, backlog, audited, edits, mishaps>>

\* The ParityDaemon compares a changed agent in its own time; registerDisparity
\* writes this process's ledger whole.
CheckParity(p, f) ==
    /\ f \in backlog[p] /\ backlog' = [backlog EXCEPT ![p] = @ \ {f}]
    /\ \/ UNCHANGED <<ledger, diskLedger, excused>>
       \/ /\ ledger' = [ledger EXCEPT ![p][f] = "DISPARITY"]
          /\ diskLedger' = ledger'[p]
          /\ excused' = excused \cup Overwritten(p)
    /\ UNCHANGED <<content, diskCache, cache, audit, told, audited, edits, mishaps>>

Next ==
    \/ \E f \in Files : Edit(f)
    \/ \E p \in Procs :
         \/ Boot(p) \/ StartAudit(p) \/ DetectChanges(p) \/ Throw(p) \/ Persist(p)
         \/ ValidateRepair(p) \/ ProcessDies(p) \/ SaveCache(p)
         \/ \E f \in Files : Hash(p, f) \/ Enrich(p, f) \/ CheckParity(p, f)

Spec == Init /\ [][Next]_vars

-----------------------------------------------------------------------------
TypeOK ==
    /\ content \in [Files -> Qualities]
    /\ diskCache \in [Files -> Hashes] /\ diskLedger \in [Files -> Statuses]
    /\ phase \in [Procs -> {"down", "idle", "hashing", "auditing"}]
    /\ cache \in [Procs -> [Files -> Hashes]] /\ ledger \in [Procs -> [Files -> Statuses]]
    /\ changed \in [Procs -> [Files -> Hashes]]
    /\ todo \in [Procs -> SUBSET Files] /\ found \in [Procs -> SUBSET Files]
    /\ told \in [Procs -> BOOLEAN] /\ backlog \in [Procs -> SUBSET Files]
    /\ audited \in [Files -> SUBSET Hashes] /\ excused \subseteq Files
    /\ edits \in Nat /\ mishaps \in Nat

\* No file is skipped for a hash with which no audit has come to it: an audit that
\* throws, a process that dies or a cache written by a file event in the middle of
\* an audit never marks as done what is not (AuditEngine.persistAuditState).
SkippedWasAudited == \A f \in Files :
    /\ diskCache[f] # "none" => diskCache[f] \in audited[f]
    /\ \A p \in Procs : cache[p][f] # "none" => cache[p][f] \in audited[f]

\* A flaw that the cache hides from the next audit is one the ledger has an entry
\* for, unless an audit came to it and no auditor answered (which the code does not
\* tell from an answer without findings), the file was edited between its hash and
\* its audit, a process died in a write, or one wrote a copy older than what another
\* had written.
HiddenFlawOnRecord == \A f \in Files \ excused :
    diskCache[f] = "flawed" => diskLedger[f] # "none"

\* What the ledger calls HEALED has no flaw (markAsHealed: "Cura confirmada").
HealedMeansFixed == \A f \in Files : diskLedger[f] = "HEALED" => content[f] # "flawed"
=============================================================================
